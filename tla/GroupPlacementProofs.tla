------------------------- MODULE GroupPlacementProofs -------------------------
(***************************************************************************)
(* Proofs about GroupPlacement, for any workers, groups, weights and       *)
(* digests: where the policies place, what the balancing ones balance,     *)
(* what the adaptive one never does, and the turns of the round robin.     *)
(*                                                                         *)
(* A decision is shown right when it is made, from an unchanged world, and *)
(* stays right while it is kept (PlacementInv).  Loops over the requests   *)
(* are folds: FoldExists gives their values, and two functions that unfold *)
(* the same way are the same, so that they can be reasoned about one       *)
(* request at a time.  The turns need an invariant of their own, TurnsInv. *)
(***************************************************************************)
EXTENDS GroupPlacement, FiniteOrders, SequenceTheorems

-------------------------------------------------------------------------------
(* Sums over finite sets. *)

\* it sums f over the subsets of S, the way SumOf does.
Sums(f, S, it) ==
    it = [T \in SUBSET S |-> IF T = {} THEN 0
                             ELSE f[CHOOSE x \in T : TRUE] + it[T \ {CHOOSE x \in T : TRUE}]]

\* Sums over two sets agree on the subsets of both.
LEMMA SumsAgree ==
  ASSUME NEW S, IsFiniteSet(S), NEW T \in SUBSET S, NEW f,
         NEW it, Sums(f, S, it), NEW jt, Sums(f, T, jt)
  PROVE  \A U \in SUBSET T : it[U] = jt[U]
<1> DEFINE Bad == {U \in SUBSET T : it[U] # jt[U]}
<1> SUFFICES ASSUME Bad # {} PROVE FALSE
  OBVIOUS
<1>1. IsFiniteSet(T) /\ Bad \in SUBSET (SUBSET T)
  BY FS_Subset
<1>2. PICK U \in Bad : \A V \in SUBSET U : V # U => V \notin Bad
  <2> HIDE DEF Bad
  <2> QED BY <1>1, MinimalSubset
<1> DEFINE x == CHOOSE x \in U : TRUE
<1>3. U # {} => x \in U
  OBVIOUS
<1>4. /\ it[U] = IF U = {} THEN 0 ELSE f[x] + it[U \ {x}]
      /\ jt[U] = IF U = {} THEN 0 ELSE f[x] + jt[U \ {x}]
  <2>1. U \in SUBSET T /\ U \in SUBSET S
    OBVIOUS
  <2> QED BY <2>1 DEF Sums
<1>5. U # {} => it[U \ {x}] = jt[U \ {x}]
  <2> HAVE U # {}
  <2>1. U \ {x} \in SUBSET U /\ U \ {x} # U /\ U \ {x} \in SUBSET T
    BY <1>3
  <2>2. U \ {x} \notin Bad
    BY <1>2, <2>1
  <2> QED BY <2>1, <2>2
<1> QED BY <1>4, <1>5

LEMMA SumsExist ==
  ASSUME NEW S, IsFiniteSet(S), NEW f, \A x \in S : f[x] \in Int
  PROVE  \E it \in [SUBSET S -> Int] : Sums(f, S, it) /\ SumOf(f, S) = it[S]
<1> DEFINE pick == [T \in SUBSET S |-> CHOOSE x \in T : TRUE]
           step == [p \in S \X Int |-> f[p[1]] + p[2]]
<1>1. Picks(S, pick)
  BY DEF Picks
<1>2. step \in [S \X Int -> Int] /\ 0 \in Int
  OBVIOUS
<1>3. PICK it \in [SUBSET S -> Int] : Folds(S, 0, pick, step, it)
  <2> HIDE DEF pick, step
  <2> QED BY <1>1, <1>2, FoldExists, Zenon
<1>4. \A T \in SUBSET S : T # {} =>
        step[<<pick[T], it[T \ {pick[T]}]>>]
          = f[CHOOSE x \in T : TRUE] + it[T \ {CHOOSE x \in T : TRUE}]
  <2> TAKE T \in SUBSET S
  <2> HAVE T # {}
  <2>1. pick[T] = CHOOSE x \in T : TRUE
    OBVIOUS
  <2>2. pick[T] \in S /\ it[T \ {pick[T]}] \in Int
    BY <1>1 DEF Picks
  <2> HIDE DEF pick
  <2>3. step[<<pick[T], it[T \ {pick[T]}]>>] = f[pick[T]] + it[T \ {pick[T]}]
    BY <2>2
  <2> QED BY <2>1, <2>3
<1>5. Sums(f, S, it)
  <2> HIDE DEF pick, step
  <2> QED BY <1>3, <1>4 DEF Sums, Folds
<1>6. SumOf(f, S) = it[S]
  <2> DEFINE jt == CHOOSE jt : Sums(f, S, jt)
  <2>1. SumOf(f, S) = jt[S]
    BY DEF SumOf, MapThenSumSet, MapThenFoldSet, Sums
  <2>2. Sums(f, S, jt)
    BY <1>5
  <2> HIDE DEF jt
  <2> QED BY <1>5, <2>1, <2>2, SumsAgree
<1> QED BY <1>5, <1>6

LEMMA SumOfEmpty == ASSUME NEW f PROVE SumOf(f, {}) = 0
<1>1. IsFiniteSet({})
  BY FS_EmptySet
<1>2. PICK it \in [SUBSET {} -> Int] : Sums(f, {}, it) /\ SumOf(f, {}) = it[{}]
  BY <1>1, SumsExist
<1> QED BY <1>2 DEF Sums

\* A sum is an integer, and any of its terms may be taken out of it.
LEMMA SumOfRemove ==
  ASSUME NEW S, IsFiniteSet(S), NEW f, \A x \in S : f[x] \in Int
  PROVE  /\ SumOf(f, S) \in Int
         /\ \A r \in S : SumOf(f, S \ {r}) \in Int /\ SumOf(f, S) = f[r] + SumOf(f, S \ {r})
<1>1. PICK it \in [SUBSET S -> Int] : Sums(f, S, it) /\ SumOf(f, S) = it[S]
  BY SumsExist
<1>2. \A T \in SUBSET S : SumOf(f, T) = it[T]
  <2> TAKE T \in SUBSET S
  <2>1. IsFiniteSet(T) /\ \A x \in T : f[x] \in Int
    BY FS_Subset
  <2>2. PICK jt \in [SUBSET T -> Int] : Sums(f, T, jt) /\ SumOf(f, T) = jt[T]
    BY <2>1, SumsExist
  <2> QED BY <1>1, <2>2, SumsAgree
<1> DEFINE Splits(T) == \A r \in T : it[T] = f[r] + it[T \ {r}]
           Bad == {T \in SUBSET S : ~Splits(T)}
<1>3. Bad = {}
  <2> SUFFICES ASSUME Bad # {} PROVE FALSE
    OBVIOUS
  <2>1. PICK T \in Bad : \A U \in SUBSET T : U # T => U \notin Bad
    <3>1. Bad \in SUBSET (SUBSET S)
      OBVIOUS
    <3> HIDE DEF Bad
    <3> QED BY <3>1, MinimalSubset
  <2>2. T \in SUBSET S
    OBVIOUS
  <2>3. \A U \in SUBSET T : U # T => Splits(U)
    <3> HIDE DEF Splits
    <3> QED BY <2>1
  <2>4. PICK r \in T : it[T] # f[r] + it[T \ {r}]
    OBVIOUS
  <2> DEFINE c == CHOOSE x \in T : TRUE
  <2>5. c \in T
    BY <2>4
  <2>6. it[T] = f[c] + it[T \ {c}]
    BY <1>1, <2>2, <2>4 DEF Sums
  <2>7. c # r
    BY <2>4, <2>6
  <2> HIDE DEF c
  <2>8. it[T \ {c}] = f[r] + it[(T \ {c}) \ {r}] /\ it[T \ {r}] = f[c] + it[(T \ {r}) \ {c}]
    <3>1. T \ {c} \in SUBSET T /\ T \ {c} # T /\ r \in T \ {c}
      BY <2>5, <2>7
    <3>2. T \ {r} \in SUBSET T /\ T \ {r} # T /\ c \in T \ {r}
      BY <2>5, <2>7
    <3> QED BY <2>3, <3>1, <3>2
  <2>9. (T \ {c}) \ {r} = (T \ {r}) \ {c}
    OBVIOUS
  <2>10. f[r] \in Int /\ f[c] \in Int /\ it[(T \ {r}) \ {c}] \in Int
    BY <2>2, <2>5
  <2>11. \A a, b, e \in Int : a + (b + e) = b + (a + e)
    OBVIOUS
  <2>12. f[c] + (f[r] + it[(T \ {r}) \ {c}]) = f[r] + (f[c] + it[(T \ {r}) \ {c}])
    BY <2>10, <2>11
  <2> HIDE DEF Splits, Bad
  <2> QED BY ONLY <2>4, <2>6, <2>8, <2>9, <2>12
<1>4. \A r \in S : it[S] = f[r] + it[S \ {r}]
  <2>1. Splits(S)
    <3> HIDE DEF Splits
    <3> QED BY <1>3
  <2> QED BY <2>1
<1> HIDE DEF Bad
<1> QED BY <1>1, <1>2, <1>4

LEMMA SumOfAdd ==
  ASSUME NEW S, IsFiniteSet(S), NEW r, r \notin S, NEW f, \A x \in S \union {r} : f[x] \in Int
  PROVE  SumOf(f, S \union {r}) \in Int /\ SumOf(f, S \union {r}) = f[r] + SumOf(f, S)
<1>1. IsFiniteSet(S \union {r})
  BY FS_AddElement
<1>2. (S \union {r}) \ {r} = S
  OBVIOUS
<1> QED BY <1>1, <1>2, SumOfRemove

LEMMA SumOfSingle ==
  ASSUME NEW x, NEW f, f[x] \in Int
  PROVE  SumOf(f, {x}) = f[x]
<1>1. IsFiniteSet({}) /\ {} \union {x} = {x}
  BY FS_EmptySet
<1>2. SumOf(f, {} \union {x}) = f[x] + SumOf(f, {})
  BY <1>1, SumOfAdd
<1> QED BY <1>1, <1>2, SumOfEmpty

\* A larger term makes a sum larger.
LEMMA SumOfMonotone ==
  ASSUME NEW S, IsFiniteSet(S), NEW f, NEW h,
         \A x \in S : f[x] \in Int /\ h[x] \in Int /\ f[x] <= h[x]
  PROVE  SumOf(f, S) <= SumOf(h, S)
<1> DEFINE Bad == {T \in SUBSET S : ~(SumOf(f, T) <= SumOf(h, T))}
<1> SUFFICES ASSUME Bad # {} PROVE FALSE
  OBVIOUS
<1>1. PICK T \in Bad : IsFiniteSet(T) /\ \A U \in SUBSET T : U # T => U \notin Bad
  <2>1. Bad \in SUBSET (SUBSET S)
    OBVIOUS
  <2> HIDE DEF Bad
  <2> QED BY <2>1, MinimalSubset
<1>2. T \in SUBSET S /\ ~(SumOf(f, T) <= SumOf(h, T))
  OBVIOUS
<1>3. T # {}
  <2>1. SumOf(f, {}) <= SumOf(h, {})
    BY SumOfEmpty
  <2> QED BY <1>2, <2>1
<1>4. PICK r \in T : TRUE
  BY <1>3
<1>5. SumOf(f, T \ {r}) <= SumOf(h, T \ {r})
  <2>1. T \ {r} \in SUBSET T /\ T \ {r} # T /\ T \ {r} \in SUBSET S
    BY <1>2, <1>4
  <2>2. T \ {r} \notin Bad
    BY <1>1, <2>1
  <2> QED BY <2>1, <2>2
<1>6. /\ SumOf(f, T \ {r}) \in Int /\ SumOf(f, T) = f[r] + SumOf(f, T \ {r})
      /\ SumOf(h, T \ {r}) \in Int /\ SumOf(h, T) = h[r] + SumOf(h, T \ {r})
  <2>1. \A x \in T : f[x] \in Int /\ h[x] \in Int
    BY <1>2
  <2> QED BY <1>1, <1>4, <2>1, SumOfRemove
<1>7. f[r] \in Int /\ h[r] \in Int /\ f[r] <= h[r]
  BY <1>2, <1>4
<1> HIDE DEF Bad
<1> QED BY ONLY <1>2, <1>5, <1>6, <1>7

LEMMA SumOfSame ==
  ASSUME NEW S, IsFiniteSet(S), NEW f, NEW h, \A x \in S : f[x] \in Int /\ f[x] = h[x]
  PROVE  SumOf(f, S) = SumOf(h, S)
<1>1. SumOf(f, S) \in Int /\ SumOf(h, S) \in Int
  BY SumOfRemove
<1>2. \A x \in S : f[x] <= h[x] /\ h[x] <= f[x] /\ h[x] \in Int
  OBVIOUS
<1>3. SumOf(f, S) <= SumOf(h, S) /\ SumOf(h, S) <= SumOf(f, S)
  BY <1>2, SumOfMonotone
<1> QED BY <1>1, <1>3

\* A sum of naturals is a natural, at least as large as any of its terms.
LEMMA SumOfNaturals ==
  ASSUME NEW S, IsFiniteSet(S), NEW f, \A x \in S : f[x] \in Nat
  PROVE  SumOf(f, S) \in Nat /\ \A x \in S : f[x] <= SumOf(f, S)
<1> DEFINE Bad == {T \in SUBSET S : SumOf(f, T) \notin Nat}
<1>1. Bad = {}
  <2> SUFFICES ASSUME Bad # {} PROVE FALSE
    OBVIOUS
  <2>1. PICK T \in Bad : IsFiniteSet(T) /\ \A U \in SUBSET T : U # T => U \notin Bad
    <3>1. Bad \in SUBSET (SUBSET S)
      OBVIOUS
    <3> HIDE DEF Bad
    <3> QED BY <3>1, MinimalSubset
  <2>2. T \in SUBSET S /\ SumOf(f, T) \notin Nat
    OBVIOUS
  <2>3. PICK r \in T : TRUE
    BY <2>2, SumOfEmpty
  <2>4. SumOf(f, T \ {r}) \in Nat
    <3>1. T \ {r} \in SUBSET T /\ T \ {r} # T /\ T \ {r} \in SUBSET S
      BY <2>2, <2>3
    <3>2. T \ {r} \notin Bad
      BY <2>1, <3>1
    <3> QED BY <3>1, <3>2
  <2>5. SumOf(f, T) = f[r] + SumOf(f, T \ {r})
    <3>1. \A x \in T : f[x] \in Int
      BY <2>2
    <3> QED BY <2>1, <2>3, <3>1, SumOfRemove
  <2>6. f[r] \in Nat
    BY <2>2, <2>3
  <2> HIDE DEF Bad
  <2> QED BY ONLY <2>2, <2>4, <2>5, <2>6
<1>2. \A T \in SUBSET S : SumOf(f, T) \in Nat
  BY <1>1
<1>3. \A x \in S : SumOf(f, S) = f[x] + SumOf(f, S \ {x})
  BY SumOfRemove
<1>4. \A x \in S : f[x] \in Nat /\ SumOf(f, S \ {x}) \in Nat
  BY <1>2
<1> HIDE DEF Bad
<1>5. \A x \in S : f[x] <= SumOf(f, S)
  <2> TAKE x \in S
  <2>1. SumOf(f, S) = f[x] + SumOf(f, S \ {x})
    BY <1>3
  <2>2. f[x] \in Nat /\ SumOf(f, S \ {x}) \in Nat
    BY <1>4
  <2> QED BY ONLY <2>1, <2>2
<1> QED BY <1>2, <1>5

\* A mean is at most the largest of its terms.
LEMMA SumOfAtMost ==
  ASSUME NEW S, IsFiniteSet(S), NEW m \in Nat, NEW f, \A x \in S : f[x] \in Int /\ f[x] <= m
  PROVE  SumOf(f, S) <= m * Cardinality(S)
<1> DEFINE Bad == {T \in SUBSET S : ~(SumOf(f, T) <= m * Cardinality(T))}
<1> SUFFICES ASSUME Bad # {} PROVE FALSE
  OBVIOUS
<1>1. PICK T \in Bad : IsFiniteSet(T) /\ \A U \in SUBSET T : U # T => U \notin Bad
  <2>1. Bad \in SUBSET (SUBSET S)
    OBVIOUS
  <2> HIDE DEF Bad
  <2> QED BY <2>1, MinimalSubset
<1>2. T \in SUBSET S /\ ~(SumOf(f, T) <= m * Cardinality(T))
  OBVIOUS
<1>3. PICK r \in T : TRUE
  <2>1. Cardinality({}) = 0 /\ m * 0 = 0 /\ SumOf(f, {}) <= 0
    BY FS_EmptySet, SumOfEmpty
  <2> QED BY <1>2, <2>1
<1>4. SumOf(f, T \ {r}) <= m * Cardinality(T \ {r})
  <2>1. T \ {r} \in SUBSET T /\ T \ {r} # T /\ T \ {r} \in SUBSET S
    BY <1>2, <1>3
  <2>2. T \ {r} \notin Bad
    BY <1>1, <2>1
  <2> QED BY <2>1, <2>2
<1>5. Cardinality(T) \in Nat /\ Cardinality(T \ {r}) = Cardinality(T) - 1
  BY <1>1, <1>3, FS_CardinalityType, FS_RemoveElement
<1>6. SumOf(f, T \ {r}) \in Int /\ SumOf(f, T) = f[r] + SumOf(f, T \ {r})
  <2>1. \A x \in T : f[x] \in Int
    BY <1>2
  <2> QED BY <1>1, <1>3, <2>1, SumOfRemove
<1>7. f[r] \in Int /\ f[r] <= m
  BY <1>2, <1>3
<1>8. m * (Cardinality(T) - 1) = m * Cardinality(T) - m /\ m * Cardinality(T) \in Int
  BY <1>5
<1> HIDE DEF Bad
<1> QED BY ONLY <1>2, <1>4, <1>5, <1>6, <1>7, <1>8, m \in Nat

LEMMA MaxIs ==
  ASSUME NEW S \in SUBSET Int, IsFiniteSet(S), S # {}
  PROVE  Max(S) \in S /\ \A x \in S : x <= Max(S)
<1> DEFINE f == [x \in S |-> -x]
<1>1. f \in [S -> Int]
  OBVIOUS
<1>2. PICK m \in S : \A x \in S : f[m] <= f[x]
  <2> HIDE DEF f
  <2> QED BY <1>1, LeastArgument
<1>3. \A x \in S : m >= x
  BY <1>2
<1>4. Max(S) \in S /\ \A x \in S : Max(S) >= x
  BY <1>3 DEF Max
<1> QED BY <1>4

LEMMA MinIs ==
  ASSUME NEW S \in SUBSET Int, IsFiniteSet(S), S # {}
  PROVE  Min(S) \in S /\ \A x \in S : Min(S) <= x
<1>1. PICK m \in S : \A x \in S : m <= x
  BY MinExists
<1> QED BY <1>1 DEF Min

-------------------------------------------------------------------------------
(* Turns: remainders. *)

LEMMA DivMod ==
  ASSUME NEW c \in Int, NEW n \in Nat \ {0}
  PROVE  c = n * (c \div n) + (c % n) /\ c % n \in 0..(n - 1) /\ c \div n \in Int
OBVIOUS

LEMMA ModUnique ==
  ASSUME NEW n \in Nat \ {0}, NEW q \in Int, NEW r \in 0..(n - 1)
  PROVE  (n * q + r) % n = r
<1> DEFINE c == n * q + r
<1>1. c \in Int
  OBVIOUS
<1> HIDE DEF c
<1>2. c = n * (c \div n) + (c % n) /\ c % n \in 0..(n - 1) /\ c \div n \in Int
  BY <1>1, DivMod
<1>3. n * (q - (c \div n)) = (c % n) - r
  <2>1. n * q = c - r
    BY <1>1 DEF c
  <2>2. n * (c \div n) = c - (c % n)
    BY <1>1, <1>2
  <2>3. \A x, y \in Int : n * (x - y) = n * x - n * y
    OBVIOUS
  <2> QED BY <1>1, <1>2, <2>1, <2>2, <2>3
<1>4. \A x \in Int : n * x < n /\ n * x > -n => x = 0
  OBVIOUS
<1>5. q - (c \div n) = 0
  <2>1. PICK x \in Int : x = q - (c \div n)
    BY <1>2
  <2>2. n * x < n /\ n * x > -n
    BY <1>2, <1>3, <2>1
  <2> QED BY <1>4, <2>1, <2>2
<1>6. n * 0 = 0
  OBVIOUS
<1>7. c % n = r
  <2>1. (c % n) - r = 0
    BY <1>3, <1>5, <1>6
  <2>2. \A a, b \in Int : a - b = 0 => a = b
    OBVIOUS
  <2>3. c % n \in Int /\ r \in Int
    BY <1>2
  <2> QED BY ONLY <2>1, <2>2, <2>3
<1> QED BY <1>7 DEF c

LEMMA NextMod ==
  ASSUME NEW b \in Nat, NEW n \in Nat \ {0}
  PROVE  (b + 1) % n = IF (b % n) + 1 = n THEN 0 ELSE (b % n) + 1
<1>1. b = n * (b \div n) + (b % n) /\ b % n \in 0..(n - 1) /\ b \div n \in Int
  BY DivMod
<1>2. CASE (b % n) + 1 = n
  <2>1. b + 1 = n * ((b \div n) + 1) + 0
    BY <1>1, <1>2
  <2>2. (n * ((b \div n) + 1) + 0) % n = 0
    BY <1>1, ModUnique
  <2> QED BY <1>2, <2>1, <2>2
<1>3. CASE (b % n) + 1 # n
  <2>1. b + 1 = n * (b \div n) + ((b % n) + 1) /\ (b % n) + 1 \in 0..(n - 1)
    BY <1>1, <1>3
  <2>2. (n * (b \div n) + ((b % n) + 1)) % n = (b % n) + 1
    BY <1>1, <2>1, ModUnique
  <2> QED BY <1>3, <2>1, <2>2
<1> QED BY <1>2, <1>3

-------------------------------------------------------------------------------
(* Requests placed one after the other. *)

LEMMA LeastOfIs ==
  ASSUME NEW S \in SUBSET Int, IsFiniteSet(S), S # {}, NEW load, \A w \in S : load[w] \in Int
  PROVE  LeastOf(S, load) \in S /\ \A x \in S : load[LeastOf(S, load)] <= load[x]
<1> DEFINE R == {p \in S \X S :
                    load[p[1]] < load[p[2]] \/ (load[p[1]] = load[p[2]] /\ p[1] <= p[2])}
<1>1. \A w, x \in S : <<w, x>> \in R <=> load[w] < load[x] \/ (load[w] = load[x] /\ w <= x)
  OBVIOUS
<1>2. \A w, x \in S : load[w] \in Int /\ load[x] \in Int /\ w \in Int /\ x \in Int
  OBVIOUS
<1>3. \A w, x \in S : <<w, x>> \in R \/ <<x, w>> \in R
  <2> HIDE DEF R
  <2> TAKE w, x \in S
  <2>1. \/ load[w] < load[x] \/ (load[w] = load[x] /\ w <= x)
        \/ load[x] < load[w] \/ (load[x] = load[w] /\ x <= w)
    BY <1>2
  <2> QED BY <1>1, <2>1
<1>4. \A w, x, y \in S : <<w, x>> \in R /\ <<x, y>> \in R => <<w, y>> \in R
  <2> HIDE DEF R
  <2> TAKE w, x, y \in S
  <2> HAVE <<w, x>> \in R /\ <<x, y>> \in R
  <2>1. load[w] < load[x] \/ (load[w] = load[x] /\ w <= x)
    BY <1>1
  <2>2. load[x] < load[y] \/ (load[x] = load[y] /\ x <= y)
    BY <1>1
  <2>3. load[w] < load[y] \/ (load[w] = load[y] /\ w <= y)
    BY <1>2, <2>1, <2>2
  <2> QED BY <1>1, <2>3
<1> HIDE DEF R
<1>5. PICK m \in S : \A x \in S : <<m, x>> \in R
  BY <1>3, <1>4, LeastExists
<1>6. \A x \in S : load[m] < load[x] \/ (load[m] = load[x] /\ m <= x)
  BY <1>1, <1>5
<1>7. LeastOf(S, load) \in S
      /\ \A x \in S : load[LeastOf(S, load)] < load[x]
                    \/ (load[LeastOf(S, load)] = load[x] /\ LeastOf(S, load) <= x)
  BY <1>6 DEF LeastOf
<1>8. \A w, x \in S : load[w] < load[x] \/ (load[w] = load[x] /\ w <= x) => load[w] <= load[x]
  BY <1>2
<1> HIDE DEF R
<1> QED BY <1>7, <1>8

\* What Greedy is given: workers E, the requests D in an order, each once, where each
\* may go, and what it costs there.
GreedyInput(E, D, n, order, load, among, cost) ==
    /\ IsFiniteSet(E) /\ E \in SUBSET Int
    /\ n \in Nat /\ DOMAIN order = 1..n /\ D = Range(order)
    /\ \A j, k \in 1..n : order[j] = order[k] => j = k
    /\ load \in [E -> Int]
    /\ \A i \in D : among[i] \in SUBSET E /\ among[i] # {}
    /\ \A i \in D, w \in E : cost[i][w] \in Nat

GreedyStates(E, D) == [load : [E -> Int], at : [D -> E \union {Nothing}]]

\* next is acc with request i placed on w, which is least loaded.
PlacedNext(E, D, among, cost, acc, i, next, w) ==
    /\ next \in GreedyStates(E, D) /\ w \in E
    /\ \A x \in among[i] : acc.load[w] <= acc.load[x]
    /\ next.load = [acc.load EXCEPT ![w] = @ + cost[i][w]]
    /\ next.at = [acc.at EXCEPT ![i] = w]

LEMMA PlaceOneIs ==
  ASSUME NEW E, NEW D, NEW n, NEW order, NEW load, NEW among, NEW cost,
         GreedyInput(E, D, n, order, load, among, cost),
         NEW acc \in GreedyStates(E, D), NEW i \in D
  PROVE  \E w \in among[i] :
            PlacedNext(E, D, among, cost, acc, i, PlaceOne(acc, i, among, cost), w)
<1> DEFINE w == LeastOf(among[i], acc.load)
<1>1. among[i] \in SUBSET E /\ among[i] # {} /\ E \in SUBSET Int /\ IsFiniteSet(E)
  BY DEF GreedyInput
<1>2. IsFiniteSet(among[i]) /\ among[i] \in SUBSET Int
  BY <1>1, FS_Subset
<1>3. acc.load \in [E -> Int] /\ acc.at \in [D -> E \union {Nothing}]
  BY DEF GreedyStates
<1>4. w \in among[i] /\ \A x \in among[i] : acc.load[w] <= acc.load[x]
  BY <1>1, <1>2, <1>3, LeastOfIs
<1>5. PlaceOne(acc, i, among, cost) = [load |-> [acc.load EXCEPT ![w] = @ + cost[i][w]],
                                       at |-> [acc.at EXCEPT ![i] = w]]
  BY DEF PlaceOne
<1> HIDE DEF w
<1>6. w \in E /\ cost[i][w] \in Nat
  BY <1>1, <1>4 DEF GreedyInput
<1>7. /\ [acc.load EXCEPT ![w] = @ + cost[i][w]] \in [E -> Int]
      /\ [acc.at EXCEPT ![i] = w] \in [D -> E \union {Nothing}]
  BY <1>3, <1>6
<1>8. PlaceOne(acc, i, among, cost) \in GreedyStates(E, D)
  BY <1>5, <1>7 DEF GreedyStates
<1>9. /\ PlaceOne(acc, i, among, cost).load = [acc.load EXCEPT ![w] = @ + cost[i][w]]
      /\ PlaceOne(acc, i, among, cost).at = [acc.at EXCEPT ![i] = w]
  BY <1>5
<1> QED BY <1>4, <1>6, <1>8, <1>9 DEF PlacedNext

GreedyFold(base, order, among, cost, it) ==
    it = [T \in SUBSET (DOMAIN order) |->
            IF T = {} THEN base ELSE PlaceOne(it[T \ {Max(T)}], order[Max(T)], among, cost)]

\* There is only one way to go through the requests.
LEMMA GreedyFoldsAgree ==
  ASSUME NEW n \in Nat, NEW order, DOMAIN order = 1..n, NEW base, NEW among, NEW cost,
         NEW it, GreedyFold(base, order, among, cost, it),
         NEW jt, GreedyFold(base, order, among, cost, jt)
  PROVE  it[DOMAIN order] = jt[DOMAIN order]
<1> DEFINE Bad == {T \in SUBSET (1..n) : it[T] # jt[T]}
<1>1. Bad = {}
  <2> SUFFICES ASSUME Bad # {} PROVE FALSE
    OBVIOUS
  <2>1. PICK T \in Bad : IsFiniteSet(T) /\ \A U \in SUBSET T : U # T => U \notin Bad
    <3>1. IsFiniteSet(1..n) /\ Bad \in SUBSET (SUBSET (1..n))
      BY FS_Interval
    <3> HIDE DEF Bad
    <3> QED BY <3>1, MinimalSubset
  <2>2. T \in SUBSET (1..n) /\ T \in SUBSET Int /\ it[T] # jt[T]
    OBVIOUS
  <2> DEFINE x == Max(T)
  <2>3. T # {} => x \in T
    BY <2>1, <2>2, MaxIs
  <2> HIDE DEF x
  <2>4. /\ it[T] = IF T = {} THEN base ELSE PlaceOne(it[T \ {x}], order[x], among, cost)
        /\ jt[T] = IF T = {} THEN base ELSE PlaceOne(jt[T \ {x}], order[x], among, cost)
    BY <2>2 DEF GreedyFold, x
  <2>5. T # {} => it[T \ {x}] = jt[T \ {x}]
    <3> HAVE T # {}
    <3>1. T \ {x} \in SUBSET T /\ T \ {x} # T /\ T \ {x} \in SUBSET (1..n)
      BY <2>2, <2>3
    <3>2. T \ {x} \notin Bad
      BY <2>1, <3>1
    <3> QED BY <3>1, <3>2
  <2> HIDE DEF Bad
  <2> QED BY <2>2, <2>4, <2>5
<1>2. 1..n \in SUBSET (1..n)
  OBVIOUS
<1> QED BY <1>1, <1>2

\* Greedy goes through states h[0], h[1], ... h[n], placing one request at a time.
GreedyRun(E, D, n, order, load, among, cost, h) ==
    /\ h \in [0..n -> GreedyStates(E, D)]
    /\ h[0] = [load |-> load, at |-> [i \in D |-> Nothing]]
    /\ \A k \in 1..n : h[k] = PlaceOne(h[k - 1], order[k], among, cost)
    /\ Greedy(order, load, among, cost) = h[n].at

LEMMA GreedySteps ==
  ASSUME NEW E, NEW D, NEW n, NEW order, NEW load, NEW among, NEW cost,
         GreedyInput(E, D, n, order, load, among, cost)
  PROVE  \E h : GreedyRun(E, D, n, order, load, among, cost, h)
<1> DEFINE V == GreedyStates(E, D)
           N == 1..n
           base == [load |-> load, at |-> [i \in D |-> Nothing]]
           pick == [T \in SUBSET N |-> Max(T)]
           step == [p \in N \X V |-> PlaceOne(p[2], order[p[1]], among, cost)]
<1>1. n \in Nat /\ DOMAIN order = N /\ D = Range(order) /\ \A k \in N : order[k] \in D
  BY DEF GreedyInput, Range
<1>2. base \in V
  BY DEF GreedyStates, GreedyInput
<1>3. IsFiniteSet(N) /\ \A T \in SUBSET N : T \in SUBSET Int /\ IsFiniteSet(T)
  <2>1. IsFiniteSet(N)
    BY <1>1, FS_Interval
  <2>2. \A T \in SUBSET N : T \in SUBSET Int
    OBVIOUS
  <2> HIDE DEF N
  <2> QED BY <2>1, <2>2, FS_Subset
<1>4. Picks(N, pick)
  <2>1. \A T \in SUBSET N : T # {} => Max(T) \in T
    BY <1>3, MaxIs
  <2> HIDE DEF N
  <2> QED BY <2>1 DEF Picks
<1>5. step \in [N \X V -> V]
  <2>1. \A k \in N, acc \in V : PlaceOne(acc, order[k], among, cost) \in V
    <3> HIDE DEF N
    <3> QED BY <1>1, PlaceOneIs DEF PlacedNext
  <2> HIDE DEF N, V
  <2> QED BY <2>1
<1>6. PICK it \in [SUBSET N -> V] : Folds(N, base, pick, step, it)
  <2> HIDE DEF N, V, base, pick, step
  <2> QED BY <1>2, <1>3, <1>4, <1>5, FoldExists, Zenon
<1>7. \A T \in SUBSET N : it[T] = IF T = {} THEN base
                                  ELSE PlaceOne(it[T \ {Max(T)}], order[Max(T)], among, cost)
  <2> TAKE T \in SUBSET N
  <2> HIDE DEF N, V, base
  <2>1. it[T] = IF T = {} THEN base ELSE step[<<pick[T], it[T \ {pick[T]}]>>]
    BY <1>6 DEF Folds
  <2>2. T # {} => pick[T] = Max(T) /\ pick[T] \in N /\ it[T \ {pick[T]}] \in V
    BY <1>4, <1>6 DEF Picks
  <2> HIDE DEF pick
  <2>3. T # {} => step[<<pick[T], it[T \ {pick[T]}]>>]
                    = PlaceOne(it[T \ {pick[T]}], order[pick[T]], among, cost)
    BY <2>2
  <2> HIDE DEF step
  <2> QED BY <2>1, <2>2, <2>3
<1>8. GreedyFold(base, order, among, cost, it)
  <2> HIDE DEF N, V, base
  <2> QED BY <1>1, <1>6, <1>7 DEF GreedyFold
<1>9. Greedy(order, load, among, cost) = it[N].at
  <2> DEFINE jt == CHOOSE jt : GreedyFold(base, order, among, cost, jt)
  <2>1. Greedy(order, load, among, cost) = jt[DOMAIN order].at
    BY <1>1 DEF Greedy, FoldLeft, MapThenFoldSet, GreedyFold
  <2>2. GreedyFold(base, order, among, cost, jt)
    <3> HIDE DEF base
    <3> QED BY <1>8
  <2>3. it[DOMAIN order] = jt[DOMAIN order]
    <3> HIDE DEF jt, base
    <3> QED BY <1>1, <1>8, <2>2, GreedyFoldsAgree
  <2> HIDE DEF jt
  <2> QED BY <1>1, <2>1, <2>3
<1> DEFINE h == [k \in 0..n |-> it[1..k]]
<1>10. \A k \in 0..n : 1..k \in SUBSET N
  BY <1>1
<1>11. h \in [0..n -> V]
  <2> HIDE DEF N, V
  <2> QED BY <1>6, <1>10
<1>12. h[0] = base
  <2>1. 1..0 = {} /\ 0 \in 0..n
    BY <1>1
  <2> HIDE DEF base
  <2> QED BY <1>7, <1>10, <2>1
<1>13. \A k \in 1..n : h[k] = PlaceOne(h[k - 1], order[k], among, cost)
  <2> TAKE k \in 1..n
  <2>1. k \in 0..n /\ k - 1 \in 0..n /\ 1..k # {} /\ (1..k) \ {k} = 1..(k - 1)
    <3>1. k \in 0..n /\ k - 1 \in 0..n /\ k \in 1..k /\ k \in Nat
      BY <1>1
    <3>2. \A x \in Int : x \in 1..k /\ x # k <=> x \in 1..(k - 1)
      BY <3>1
    <3>3. (1..k) \ {k} = 1..(k - 1)
      BY <3>2
    <3> QED BY <3>1, <3>3
  <2>2. Max(1..k) = k
    <3>1. 1..k \in SUBSET Int /\ k \in 1..k /\ \A x \in 1..k : x <= k
      BY <1>1
    <3>2. Max(1..k) \in 1..k /\ \A x \in 1..k : x <= Max(1..k)
      BY <1>3, <1>10, <2>1, MaxIs
    <3> QED BY <3>1, <3>2
  <2> HIDE DEF base, N
  <2> QED BY <1>7, <1>10, <2>1, <2>2
<1>14. h[n] = it[N]
  BY <1>1
<1> HIDE DEF h, base, V
<1>15. /\ h[0] = base
       /\ Greedy(order, load, among, cost) = h[n].at
  BY <1>9, <1>12, <1>14
<1>16. GreedyRun(E, D, n, order, load, among, cost, h)
  BY <1>11, <1>13, <1>15 DEF base, V, GreedyRun
<1> QED BY <1>16

\* The costs of the requests on worker w, and those in done that are placed there.
CostsOn(D, cost, w) == [i \in D |-> cost[i][w]]
PlacedOn(done, at, w) == {i \in done : at[i] = w}

\* What holds when the requests in done are placed: each where it may go, the loads are
\* those of before and what was added, and every worker that got a request got one
\* without which it is no busier than any other worker that request could have gone to.
GreedyGood(E, D, load, among, cost, done, acc) ==
    /\ \A i \in done : acc.at[i] \in among[i]
    /\ \A w \in E : acc.load[w] = load[w] + SumOf(CostsOn(D, cost, w), PlacedOn(done, acc.at, w))
    /\ \A i \in done : \E j \in PlacedOn(done, acc.at, acc.at[i]) :
          \A x \in among[j] : x # acc.at[i] =>
              acc.load[acc.at[i]] - cost[j][acc.at[i]] <= acc.load[x]

LEMMA GreedyKeeps ==
  ASSUME NEW E, NEW D, NEW n, NEW order, NEW load, NEW among, NEW cost,
         GreedyInput(E, D, n, order, load, among, cost), IsFiniteSet(D),
         NEW acc \in GreedyStates(E, D), NEW done \in SUBSET D, NEW i \in D, i \notin done,
         GreedyGood(E, D, load, among, cost, done, acc)
  PROVE  GreedyGood(E, D, load, among, cost, done \union {i}, PlaceOne(acc, i, among, cost))
<1> DEFINE next == PlaceOne(acc, i, among, cost)
           done2 == done \union {i}
<1>0. PICK w \in among[i] : PlacedNext(E, D, among, cost, acc, i, next, w)
  BY PlaceOneIs
<1>1. /\ w \in among[i] /\ next \in GreedyStates(E, D) /\ w \in E
      /\ \A x \in among[i] : acc.load[w] <= acc.load[x]
      /\ next.load = [acc.load EXCEPT ![w] = @ + cost[i][w]]
      /\ next.at = [acc.at EXCEPT ![i] = w]
  BY <1>0 DEF PlacedNext
<1> HIDE DEF next
<1>2. acc.load \in [E -> Int] /\ acc.at \in [D -> E \union {Nothing}]
  BY DEF GreedyStates
<1>3. \A y \in E : next.load[y] = IF y = w THEN acc.load[w] + cost[i][w] ELSE acc.load[y]
  BY <1>1, <1>2
<1>4. \A v \in D : next.at[v] = IF v = i THEN w ELSE acc.at[v]
  BY <1>1, <1>2
<1>5. /\ \A j \in D, y \in E : cost[j][y] \in Nat
      /\ \A j \in D : among[j] \in SUBSET E
      /\ \A y \in E : load[y] \in Int
  BY DEF GreedyInput
<1>6. \A y \in E : y # w => PlacedOn(done2, next.at, y) = PlacedOn(done, acc.at, y)
  BY <1>4 DEF PlacedOn
<1>7. /\ PlacedOn(done2, next.at, w) = PlacedOn(done, acc.at, w) \union {i}
      /\ i \notin PlacedOn(done, acc.at, w)
  BY <1>4 DEF PlacedOn
<1>8. ASSUME NEW v \in done2 PROVE next.at[v] \in among[v]
  BY <1>1, <1>4 DEF GreedyGood
<1>9. ASSUME NEW y \in E
      PROVE  next.load[y] = load[y] + SumOf(CostsOn(D, cost, y), PlacedOn(done2, next.at, y))
  <2>1. acc.load[y] = load[y] + SumOf(CostsOn(D, cost, y), PlacedOn(done, acc.at, y))
    BY DEF GreedyGood
  <2>2. CASE y # w
    BY <1>3, <1>6, <2>1, <2>2
  <2>3. CASE y = w
    <3> DEFINE f == CostsOn(D, cost, w)
               T == PlacedOn(done, acc.at, w)
    <3>1. T \in SUBSET D /\ IsFiniteSet(T)
      <4>1. T \in SUBSET D
        BY DEF PlacedOn
      <4> HIDE DEF T
      <4> QED BY <4>1, FS_Subset
    <3>2. \A x \in D : f[x] = cost[x][w] /\ f[x] \in Nat
      BY <1>1, <1>5 DEF CostsOn
    <3>3. \A x \in T \union {i} : f[x] \in Int
      BY <3>1, <3>2
    <3>4. /\ SumOf(f, T \union {i}) = f[i] + SumOf(f, T)
          /\ SumOf(f, T \union {i}) \in Int
      <4> HIDE DEF f, T
      <4> QED BY <1>7, <3>1, <3>3, SumOfAdd DEF T
    <3>5. SumOf(f, T) \in Int
      <4> HIDE DEF f, T
      <4> QED BY <3>1, <3>3, SumOfRemove
    <3>6. next.load[w] = acc.load[w] + cost[i][w] /\ f[i] = cost[i][w] /\ f[i] \in Nat
      BY <1>1, <1>3, <3>2
    <3>7. load[w] \in Int /\ acc.load[w] = load[w] + SumOf(f, T)
      BY <1>1, <1>5, <2>1, <2>3
    <3> HIDE DEF f, T
    <3>8. next.load[w] = load[w] + SumOf(f, T \union {i})
      BY ONLY <3>4, <3>5, <3>6, <3>7
    <3> QED BY <1>7, <2>3, <3>8 DEF f, T
  <2> QED BY <2>2, <2>3
<1>10. \A y \in E : next.load[y] \in Int /\ acc.load[y] \in Int /\ acc.load[y] <= next.load[y]
  <2> TAKE y \in E
  <2>1. acc.load[y] \in Int /\ cost[i][w] \in Nat
    BY <1>1, <1>2, <1>5
  <2> QED BY <1>3, <2>1
<1>11. ASSUME NEW v \in done2
       PROVE  \E j \in PlacedOn(done2, next.at, next.at[v]) :
                 \A x \in among[j] : x # next.at[v] =>
                     next.load[next.at[v]] - cost[j][next.at[v]] <= next.load[x]
  <2>1. CASE next.at[v] = w
    <3>1. i \in PlacedOn(done2, next.at, w)
      BY <1>7
    <3>2. ASSUME NEW x \in among[i], x # w
          PROVE  next.load[w] - cost[i][w] <= next.load[x]
      <4>1. x \in E
        BY <1>5
      <4>2. acc.load[w] <= acc.load[x] /\ next.load[x] = acc.load[x]
            /\ next.load[w] = acc.load[w] + cost[i][w]
        BY <1>1, <1>3, <3>2, <4>1
      <4>3. acc.load[w] \in Int /\ acc.load[x] \in Int /\ cost[i][w] \in Nat
        BY <1>1, <1>5, <1>10, <4>1
      <4> QED BY ONLY <4>2, <4>3
    <3> QED BY <2>1, <3>1, <3>2
  <2>2. CASE next.at[v] # w
    <3> DEFINE u == acc.at[v]
    <3>1. v \in done /\ next.at[v] = u /\ u # w
      BY <1>4, <2>2
    <3>2. u \in E
      BY <1>5, <3>1 DEF GreedyGood
    <3>3. PICK j \in PlacedOn(done, acc.at, u) :
             \A x \in among[j] : x # u => acc.load[u] - cost[j][u] <= acc.load[x]
      BY <3>1 DEF GreedyGood
    <3>4. j \in D /\ j \in PlacedOn(done2, next.at, u)
      BY <1>6, <3>1, <3>2 DEF PlacedOn
    <3> HIDE DEF u
    <3>5. ASSUME NEW x \in among[j], x # u
          PROVE  next.load[u] - cost[j][u] <= next.load[x]
      <4>1. x \in E
        BY <1>5, <3>4
      <4>2. /\ acc.load[u] - cost[j][u] <= acc.load[x]
            /\ acc.load[x] <= next.load[x] /\ next.load[u] = acc.load[u]
        BY <1>3, <1>10, <3>1, <3>2, <3>3, <3>5, <4>1
      <4>3. acc.load[u] \in Int /\ acc.load[x] \in Int /\ next.load[x] \in Int /\ cost[j][u] \in Nat
        BY <1>5, <1>10, <3>2, <3>4, <4>1
      <4> QED BY ONLY <4>2, <4>3
    <3> QED BY <3>1, <3>4, <3>5
  <2> QED BY <2>1, <2>2
<1> HIDE DEF done2
<1>12. GreedyGood(E, D, load, among, cost, done2, next)
  BY <1>8, <1>9, <1>11 DEF GreedyGood
<1> QED BY <1>12 DEF done2, next

LEMMA GreedyIs ==
  ASSUME NEW E, NEW D, NEW n, NEW order, NEW load, NEW among, NEW cost,
         GreedyInput(E, D, n, order, load, among, cost)
  PROVE  LET at == Greedy(order, load, among, cost)
         IN  /\ at \in [D -> E] /\ \A i \in D : at[i] \in among[i]
             /\ \E final : /\ final.at = at /\ final.load \in [E -> Int]
                          /\ GreedyGood(E, D, load, among, cost, D, final)
<1>0. PICK h : GreedyRun(E, D, n, order, load, among, cost, h)
  BY GreedySteps
<1>1. /\ h \in [0..n -> GreedyStates(E, D)]
      /\ h[0] = [load |-> load, at |-> [i \in D |-> Nothing]]
      /\ \A k \in 1..n : h[k] = PlaceOne(h[k - 1], order[k], among, cost)
      /\ Greedy(order, load, among, cost) = h[n].at
  BY <1>0 DEF GreedyRun
<1>2. n \in Nat /\ DOMAIN order = 1..n /\ D = Range(order) /\ load \in [E -> Int]
      /\ \A j, k \in 1..n : order[j] = order[k] => j = k
  BY DEF GreedyInput
<1>3. \A k \in 1..n : order[k] \in D
  BY <1>2 DEF Range
<1>4. IsFiniteSet(D)
  <2> DEFINE f == [k \in 1..n |-> order[k]]
  <2>1. f \in Surjection(1..n, D)
    BY <1>2 DEF Range, Surjection
  <2>2. IsFiniteSet(1..n)
    BY <1>2, FS_Interval
  <2> HIDE DEF f
  <2> QED BY <2>1, <2>2, FS_Surjection
<1> DEFINE done(k) == {order[j] : j \in 1..k}
           Good(k) == GreedyGood(E, D, load, among, cost, done(k), h[k])
           Bad == {k \in 0..n : ~Good(k)}
<1>5. Bad = {}
  <2> SUFFICES ASSUME Bad # {} PROVE FALSE
    OBVIOUS
  <2>1. PICK k \in Bad : \A j \in Bad : k <= j
    <3>1. Bad \in SUBSET Nat
      BY <1>2
    <3> HIDE DEF Bad
    <3> QED BY <3>1, NatLeast
  <2>2. k \in 0..n /\ ~Good(k)
    OBVIOUS
  <2>3. CASE k = 0
    <3>1. done(0) = {}
      OBVIOUS
    <3>2. \A w \in E : PlacedOn({}, h[0].at, w) = {}
      BY DEF PlacedOn
    <3>3. h[0].load = load /\ \A w \in E : load[w] \in Int
      BY <1>1, <1>2
    <3>4. \A w \in E : h[0].load[w] = load[w] + SumOf(CostsOn(D, cost, w), PlacedOn({}, h[0].at, w))
      <4> TAKE w \in E
      <4>1. SumOf(CostsOn(D, cost, w), PlacedOn({}, h[0].at, w)) = 0
        BY <3>2, SumOfEmpty
      <4> QED BY <3>3, <4>1
    <3>5. GreedyGood(E, D, load, among, cost, {}, h[0])
      BY <3>4 DEF GreedyGood
    <3> HIDE DEF done
    <3> QED BY <2>2, <2>3, <3>1, <3>5
  <2>4. CASE k # 0
    <3>1. k \in 1..n /\ k - 1 \in 0..n /\ ~(k <= k - 1)
      BY <1>2, <2>2, <2>4
    <3>2. Good(k - 1)
      <4> HIDE DEF Good
      <4> QED BY <2>1, <3>1
    <3>3. done(k) = done(k - 1) \union {order[k]}
      <4>1. \A j \in Int : j \in 1..k <=> j \in 1..(k - 1) \/ j = k
        BY <3>1
      <4> QED BY <4>1
    <3>4. done(k - 1) \in SUBSET D /\ order[k] \notin done(k - 1)
      <4>1. \A j \in 1..(k - 1) : j \in 1..n /\ j # k
        BY <1>2, <3>1
      <4> QED BY <1>2, <1>3, <3>1, <4>1
    <3> HIDE DEF done
    <3>5. GreedyGood(E, D, load, among, cost, done(k - 1) \union {order[k]},
                     PlaceOne(h[k - 1], order[k], among, cost))
      BY <1>1, <1>3, <1>4, <3>1, <3>2, <3>4, GreedyKeeps
    <3> QED BY <1>1, <2>2, <3>1, <3>3, <3>5
  <2> QED BY <2>3, <2>4
<1>6. done(n) = D /\ n \in 0..n
  BY <1>2 DEF Range
<1>7. GreedyGood(E, D, load, among, cost, D, h[n]) /\ h[n] \in GreedyStates(E, D)
  <2>1. Good(n)
    <3> HIDE DEF Good
    <3> QED BY <1>5, <1>6
  <2> HIDE DEF done
  <2> QED BY <1>1, <1>6, <2>1
<1>8. h[n].load \in [E -> Int] /\ h[n].at \in [D -> E \union {Nothing}]
  BY <1>7 DEF GreedyStates
<1>9. \A i \in D : h[n].at[i] \in among[i] /\ among[i] \in SUBSET E
  BY <1>7 DEF GreedyGood, GreedyInput
<1>10. h[n].at \in [D -> E]
  BY <1>8, <1>9
<1> HIDE DEF Bad
<1> QED BY <1>1, <1>7, <1>8, <1>9, <1>10

-------------------------------------------------------------------------------
(* Workers and groups. *)

IsGroup(g) ==
    /\ g \in [version : Nat, prompt : Nat, mean : Seq(Nat), p90 : Seq(Nat)]
    /\ Requests(g) > 0 /\ Len(g.mean) = Requests(g)

WorkersOk == workers \in [Workers -> WorkerStates]

LEMMA GroupIs ==
  ASSUME NEW g, IsGroup(g)
  PROVE  /\ Requests(g) \in Nat \ {0} /\ Samples(g) = 1..Requests(g) /\ g.prompt \in Nat
         /\ IsFiniteSet(Samples(g)) /\ Samples(g) # {}
         /\ \A i \in Samples(g) : g.p90[i] \in Nat /\ g.mean[i] \in Nat
<1>1. g.p90 \in Seq(Nat) /\ g.mean \in Seq(Nat) /\ g.prompt \in Nat
  BY DEF IsGroup
<1>2. Requests(g) \in Nat \ {0} /\ Samples(g) = 1..Requests(g) /\ Len(g.mean) = Requests(g)
  BY <1>1 DEF IsGroup, Requests, Samples
<1>3. IsFiniteSet(Samples(g)) /\ Samples(g) # {}
  <2>1. IsFiniteSet(1..Requests(g)) /\ 1 \in 1..Requests(g)
    BY <1>2, FS_Interval
  <2> QED BY <1>2, <2>1
<1>4. ASSUME NEW i \in Samples(g)
      PROVE  g.p90[i] \in Nat /\ g.mean[i] \in Nat
  <2>1. i \in 1..Len(g.p90) /\ i \in 1..Len(g.mean)
    BY <1>2 DEF Requests
  <2> QED BY <1>1, <2>1, ElementOfSeq, Zenon
<1> QED BY <1>1, <1>2, <1>3, <1>4

LEMMA Quotient ==
  ASSUME NEW u \in Nat \ {0}, NEW r \in Nat \ {0}, u % r = 0
  PROVE  u \div r \in Nat \ {0} /\ r * (u \div r) = u
OBVIOUS

LEMMA QuotientFalls ==
  ASSUME NEW u \in Nat \ {0}, NEW r \in Nat \ {0}, NEW q \in Nat \ {0},
         u % r = 0, u % q = 0, r <= q
  PROVE  u \div q <= u \div r
<1>1. /\ r * (u \div r) = u /\ u \div r \in Nat \ {0}
      /\ q * (u \div q) = u /\ u \div q \in Nat \ {0}
  BY Quotient
<1>2. \A a, b \in Nat : b > a => r * b > r * a
  OBVIOUS
<1>3. \A a \in Nat : r * a <= q * a
  OBVIOUS
<1> QED BY <1>1, <1>2, <1>3

\* The time a token takes is whole and takes longer the lower the rate.
LEMMA WorkerIs ==
  ASSUME WorkersOk, NEW w \in Workers
  PROVE  /\ workers[w] \in Reports
         /\ Unit \div workers[w].prefill_rate \in Nat \ {0}
         /\ Unit \div workers[w].decode_rate \in Nat \ {0}
         /\ \A x \in Workers :
              /\ workers[x].prefill_rate >= workers[w].prefill_rate =>
                    Unit \div workers[x].prefill_rate <= Unit \div workers[w].prefill_rate
              /\ workers[x].decode_rate >= workers[w].decode_rate =>
                    Unit \div workers[x].decode_rate <= Unit \div workers[w].decode_rate
<1>1. \A x \in Workers : /\ workers[x] \in Reports
                         /\ Unit % workers[x].prefill_rate = 0 /\ Unit % workers[x].decode_rate = 0
                         /\ workers[x].prefill_rate \in Nat \ {0}
                         /\ workers[x].decode_rate \in Nat \ {0}
  BY WorkerAssumption DEF WorkersOk, Reports
<1>2. Unit \in Nat \ {0}
  BY WorkerAssumption
<1>3. \A x \in Workers : /\ Unit \div workers[x].prefill_rate \in Nat \ {0}
                         /\ Unit \div workers[x].decode_rate \in Nat \ {0}
  BY <1>1, <1>2, Quotient
<1>4. ASSUME NEW x \in Workers
      PROVE  /\ workers[x].prefill_rate >= workers[w].prefill_rate =>
                   Unit \div workers[x].prefill_rate <= Unit \div workers[w].prefill_rate
             /\ workers[x].decode_rate >= workers[w].decode_rate =>
                   Unit \div workers[x].decode_rate <= Unit \div workers[w].decode_rate
  BY <1>1, <1>2, QuotientFalls
<1> QED BY <1>1, <1>3, <1>4

LEMMA EligibleAre ==
  ASSUME NEW g
  PROVE  /\ Eligible(g) \in SUBSET Workers /\ Eligible(g) \in SUBSET Int
         /\ IsFiniteSet(Eligible(g)) /\ Cardinality(Eligible(g)) \in Nat
         /\ Eligible(g) # {} => Cardinality(Eligible(g)) # 0
<1>1. IsFiniteSet(Workers) /\ Workers \in SUBSET Int
  BY WorkerAssumption, FS_Interval DEF Workers
<1>2. Eligible(g) \in SUBSET Workers
  BY DEF Eligible
<1> QED BY <1>1, <1>2, FS_Subset, FS_CardinalityType, FS_EmptySet

\* The ready list has every eligible worker once, in the order of the ids.
LEMMA ReadyIs ==
  ASSUME NEW g
  PROVE  LET n == Cardinality(Eligible(g))
         IN  /\ Ready(g) \in Seq(Eligible(g)) /\ Len(Ready(g)) = n /\ DOMAIN Ready(g) = 1..n
             /\ \A k \in 1..n : /\ Ready(g)[k] \in Eligible(g)
                               /\ Cardinality({y \in Eligible(g) : y < Ready(g)[k]}) = k - 1
             /\ \A j, k \in 1..n : Ready(g)[j] = Ready(g)[k] => j = k
             /\ \A w \in Eligible(g) : \E k \in 1..n : Ready(g)[k] = w
<1> DEFINE E == Eligible(g)
           n == Cardinality(E)
           R == {p \in E \X E : p[1] < p[2]}
<1>1. E \in SUBSET Int /\ IsFiniteSet(E) /\ n \in Nat
  BY EligibleAre
<1>2. Ready(g) = [k \in 1..n |-> CHOOSE x \in E : Cardinality({y \in E : y < x}) = k - 1]
  BY DEF Ready, Sorted
<1> HIDE DEF E
<1>3. StrictOrder(E, R)
  BY <1>1 DEF StrictOrder
<1>4. \A x \in E : Preceding(E, R, x) = {y \in E : y < x}
  BY DEF Preceding
<1> HIDE DEF R
<1>5. \A k \in 1..n : (\E x \in E : Cardinality({y \in E : y < x}) = k - 1) =>
         Ready(g)[k] \in E /\ Cardinality({y \in E : y < Ready(g)[k]}) = k - 1
  BY <1>2
<1>6. SeeksRanks(E, R, Ready(g))
  BY <1>4, <1>5 DEF SeeksRanks
<1>7. /\ \A k \in 1..n : Ready(g)[k] \in E /\ Cardinality(Preceding(E, R, Ready(g)[k])) = k - 1
      /\ \A j, k \in 1..n : Ready(g)[j] = Ready(g)[k] => j = k
      /\ \A w \in E : \E k \in 1..n : Ready(g)[k] = w
  BY <1>1, <1>3, <1>6, SortedOrder
<1>8. DOMAIN Ready(g) = 1..n /\ Ready(g) \in [1..n -> E]
  BY <1>2, <1>7
<1>9. Ready(g) \in Seq(E) /\ Len(Ready(g)) = n
  BY <1>1, <1>8
<1> QED BY <1>4, <1>7, <1>8, <1>9 DEF E

\* The requests from the longest to the shortest: each once.
LEMMA LongestFirstIs ==
  ASSUME NEW g, IsGroup(g)
  PROVE  /\ DOMAIN LongestFirst(g) = 1..Requests(g) /\ Range(LongestFirst(g)) = Samples(g)
         /\ \A j, k \in 1..Requests(g) : LongestFirst(g)[j] = LongestFirst(g)[k] => j = k
<1> DEFINE D == Samples(g)
           n == Cardinality(D)
           precedes(i, j) == g.p90[i] > g.p90[j] \/ (g.p90[i] = g.p90[j] /\ i < j)
           R == {p \in D \X D : precedes(p[1], p[2])}
<1>1. /\ D = 1..Requests(g) /\ Requests(g) \in Nat /\ IsFiniteSet(D)
      /\ \A i \in D : g.p90[i] \in Nat /\ i \in Int
  BY GroupIs
<1>2. n = Requests(g)
  BY <1>1, FS_Interval
<1>3. LongestFirst(g) = [k \in 1..n |-> CHOOSE x \in D : Cardinality({y \in D : precedes(y, x)}) = k - 1]
  BY DEF LongestFirst, Sorted
<1> HIDE DEF D, n
<1>4. StrictOrder(D, R)
  <2>1. \A i, j \in D : <<i, j>> \in R <=> g.p90[i] > g.p90[j] \/ (g.p90[i] = g.p90[j] /\ i < j)
    OBVIOUS
  <2> HIDE DEF R, precedes
  <2>2. \A i \in D : <<i, i>> \notin R
    BY <1>1, <2>1
  <2>3. \A i, j \in D : i = j \/ <<i, j>> \in R \/ <<j, i>> \in R
    <3> TAKE i, j \in D
    <3>1. g.p90[i] \in Nat /\ g.p90[j] \in Nat /\ i \in Int /\ j \in Int
      BY <1>1
    <3> QED BY <2>1, <3>1
  <2>4. \A i, j, k \in D : <<i, j>> \in R /\ <<j, k>> \in R => <<i, k>> \in R
    <3> TAKE i, j, k \in D
    <3> HAVE <<i, j>> \in R /\ <<j, k>> \in R
    <3>1. /\ g.p90[i] \in Nat /\ g.p90[j] \in Nat /\ g.p90[k] \in Nat
          /\ i \in Int /\ j \in Int /\ k \in Int
      BY <1>1
    <3>2. g.p90[i] > g.p90[j] \/ (g.p90[i] = g.p90[j] /\ i < j)
      BY <2>1
    <3>3. g.p90[j] > g.p90[k] \/ (g.p90[j] = g.p90[k] /\ j < k)
      BY <2>1
    <3>4. g.p90[i] > g.p90[k] \/ (g.p90[i] = g.p90[k] /\ i < k)
      BY ONLY <3>1, <3>2, <3>3
    <3> QED BY <2>1, <3>4
  <2> QED BY <2>2, <2>3, <2>4 DEF StrictOrder
<1>5. \A x \in D : Preceding(D, R, x) = {y \in D : precedes(y, x)}
  BY DEF Preceding
<1> HIDE DEF R
<1>6. \A k \in 1..n : (\E x \in D : Cardinality({y \in D : precedes(y, x)}) = k - 1) =>
         /\ LongestFirst(g)[k] \in D
         /\ Cardinality({y \in D : precedes(y, LongestFirst(g)[k])}) = k - 1
  BY <1>3
<1> HIDE DEF precedes
<1>7. SeeksRanks(D, R, LongestFirst(g))
  BY <1>5, <1>6 DEF SeeksRanks, n
<1>8. /\ \A k \in 1..n : LongestFirst(g)[k] \in D
      /\ \A j, k \in 1..n : LongestFirst(g)[j] = LongestFirst(g)[k] => j = k
      /\ \A w \in D : \E k \in 1..n : LongestFirst(g)[k] = w
  <2>1. IsFiniteSet(D)
    BY <1>1
  <2>2. /\ \A k \in 1..Cardinality(D) : LongestFirst(g)[k] \in D
        /\ \A j, k \in 1..Cardinality(D) : LongestFirst(g)[j] = LongestFirst(g)[k] => j = k
        /\ \A w \in D : \E k \in 1..Cardinality(D) : LongestFirst(g)[k] = w
    BY ONLY <1>4, <1>7, <2>1, SortedOrder
  <2> QED BY <2>2 DEF n
<1>9. DOMAIN LongestFirst(g) = 1..n
  BY <1>3
<1>10. Range(LongestFirst(g)) = D
  BY <1>8, <1>9 DEF Range
<1> QED BY <1>2, <1>8, <1>9, <1>10 DEF D

-------------------------------------------------------------------------------
(* Every policy places every request on an eligible worker. *)

Placement(g, at) == at \in [Samples(g) -> Eligible(g)]

LEMMA NthIs ==
  ASSUME NEW g, Eligible(g) # {}, NEW c \in Nat
  PROVE  /\ Nth(Ready(g), c) = Ready(g)[(c % Cardinality(Eligible(g))) + 1]
         /\ (c % Cardinality(Eligible(g))) + 1 \in 1..Cardinality(Eligible(g))
         /\ Nth(Ready(g), c) \in Eligible(g)
<1> DEFINE n == Cardinality(Eligible(g))
<1>1. n \in Nat \ {0}
  BY EligibleAre
<1>2. Len(Ready(g)) = n /\ \A k \in 1..n : Ready(g)[k] \in Eligible(g)
  BY ReadyIs
<1>3. (c % n) + 1 \in 1..n
  <2> HIDE DEF n
  <2> QED BY <1>1
<1>4. Nth(Ready(g), c) = Ready(g)[(c % n) + 1]
  BY <1>2 DEF Nth
<1> QED BY <1>2, <1>3, <1>4

LEMMA RotateIn ==
  ASSUME NEW g, IsGroup(g), Eligible(g) # {}, NEW offset \in Nat
  PROVE  Placement(g, Rotate(g, offset))
<1>1. \A i \in Samples(g) : offset + i - 1 \in Nat
  BY GroupIs
<1>2. \A i \in Samples(g) : Nth(Ready(g), offset + i - 1) \in Eligible(g)
  BY <1>1, NthIs
<1> QED BY <1>2 DEF Rotate, Placement

LEMMA EvenSplitIn ==
  ASSUME NEW g, IsGroup(g), Eligible(g) # {}
  PROVE  Placement(g, EvenSplit(g))
BY RotateIn DEF EvenSplit

LEMMA PackIn ==
  ASSUME NEW g, NEW w \in Eligible(g)
  PROVE  Placement(g, Pack(g, w))
BY DEF Pack, Placement

\* Times and tokens are naturals.
LEMMA TimesAre ==
  ASSUME WorkersOk, NEW g, g.prompt \in Nat, NEW w \in Workers
  PROVE  /\ QueueTime(w) \in Nat /\ Tokens(w) \in Nat
         /\ workers[w].running \in Nat /\ workers[w].queued \in Nat
         /\ Matched(w, g) \in 0..g.prompt /\ Prefill(w, g) \in 0..g.prompt
         /\ \A t \in Nat : PrefillTime(w, t) \in Nat /\ DecodeTime(w, t) \in Nat
<1>1. /\ workers[w].prefill \in Nat /\ workers[w].decode \in Nat /\ workers[w].matched \in Nat
      /\ workers[w].running \in Nat /\ workers[w].queued \in Nat
  BY WorkerIs DEF Reports
<1>2. \A t \in Nat : PrefillTime(w, t) \in Nat /\ DecodeTime(w, t) \in Nat
  <2>1. Unit \div workers[w].prefill_rate \in Nat /\ Unit \div workers[w].decode_rate \in Nat
    BY WorkerIs
  <2>2. \A a, b \in Nat : a * b \in Nat
    OBVIOUS
  <2> QED BY <2>1, <2>2 DEF PrefillTime, DecodeTime
<1>3. QueueTime(w) \in Nat /\ Tokens(w) \in Nat
  BY <1>1, <1>2 DEF QueueTime, Tokens
<1>4. Matched(w, g) \in 0..g.prompt
  <2>1. {g.prompt, workers[w].matched} \in SUBSET Int
    BY <1>1
  <2>2. IsFiniteSet({g.prompt, workers[w].matched})
    <3>1. {g.prompt, workers[w].matched} = {g.prompt} \union {workers[w].matched}
      OBVIOUS
    <3>2. IsFiniteSet({g.prompt})
      BY FS_Singleton
    <3>3. IsFiniteSet({g.prompt} \union {workers[w].matched})
      BY <3>2, FS_AddElement
    <3> QED BY <3>1, <3>3
  <2>3. /\ Matched(w, g) \in {g.prompt, workers[w].matched}
        /\ \A x \in {g.prompt, workers[w].matched} : Matched(w, g) <= x
    BY <2>1, <2>2, MinIs DEF Matched
  <2> QED BY <1>1, <2>3
<1>5. Prefill(w, g) \in 0..g.prompt
  BY <1>4 DEF Prefill
<1> QED BY <1>1, <1>2, <1>3, <1>4, <1>5

PackTime(w, g) == QueueTime(w) + PrefillTime(w, Prefill(w, g))

\* The fixed pack goes to a worker that could not begin to decode any earlier.
LEMMA FixedPackIs ==
  ASSUME WorkersOk, NEW g, IsGroup(g), Eligible(g) # {}
  PROVE  \E w \in Eligible(g) : /\ FixedPack(g) = Pack(g, w)
                               /\ \A x \in Eligible(g) : PackTime(w, g) <= PackTime(x, g)
<1> DEFINE E == Eligible(g)
           time == [w \in E |-> PackTime(w, g)]
           fastest == {w \in E : \A x \in E : time[w] <= time[x]}
           running == [w \in fastest |-> workers[w].running]
<1>1. E \in SUBSET Workers /\ E \in SUBSET Int /\ IsFiniteSet(E)
  BY EligibleAre
<1>2. \A w \in E : PackTime(w, g) \in Int /\ workers[w].running \in Int
  <2> TAKE w \in E
  <2>1. w \in Workers /\ g.prompt \in Nat
    BY <1>1, GroupIs
  <2>2. Prefill(w, g) \in Nat /\ QueueTime(w) \in Nat /\ workers[w].running \in Nat
        /\ \A t \in Nat : PrefillTime(w, t) \in Nat
    BY <2>1, TimesAre
  <2> QED BY <2>2 DEF PackTime
<1>3. time \in [E -> Int]
  <2> HIDE DEF E
  <2> QED BY <1>2
<1>4. fastest # {} /\ fastest \in SUBSET E
  <2>1. \E w \in E : \A x \in E : time[w] <= time[x]
    <3> HIDE DEF E, time
    <3> QED BY <1>1, <1>3, LeastArgument DEF E
  <2> HIDE DEF E, time
  <2> QED BY <2>1
<1>5. fastest \in SUBSET Int /\ IsFiniteSet(fastest) /\ \A w \in fastest : running[w] \in Int
  <2> HIDE DEF E, time
  <2>1. IsFiniteSet(fastest)
    BY <1>1, <1>4, FS_Subset
  <2> QED BY <1>1, <1>2, <1>4, <2>1
<1>6. FixedPack(g) = Pack(g, LeastOf(fastest, running))
  BY DEF FixedPack, PackTime
<1>7. LeastOf(fastest, running) \in fastest
  <2> HIDE DEF fastest, running
  <2> QED BY <1>4, <1>5, LeastOfIs
<1>8. \A w \in fastest : w \in E /\ \A x \in E : PackTime(w, g) <= PackTime(x, g)
  <2> HIDE DEF E
  <2> QED OBVIOUS
<1> HIDE DEF fastest, running, time
<1> QED BY <1>6, <1>7, <1>8

-------------------------------------------------------------------------------
(* The policies that place one request after the other. *)

Ordering(g, order) ==
    /\ DOMAIN order = 1..Requests(g) /\ Range(order) = Samples(g)
    /\ \A j, k \in 1..Requests(g) : order[j] = order[k] => j = k

LEMMA OrdersAre ==
  ASSUME NEW g, IsGroup(g)
  PROVE  Ordering(g, InOrder(g)) /\ Ordering(g, LongestFirst(g))
<1>1. Samples(g) = 1..Requests(g)
  BY GroupIs
<1>2. Ordering(g, InOrder(g))
  BY <1>1 DEF Ordering, InOrder, Range
<1>3. Ordering(g, LongestFirst(g))
  BY LongestFirstIs DEF Ordering
<1> QED BY <1>2, <1>3

LEMMA GreedyInputIs ==
  ASSUME NEW g, IsGroup(g), NEW order, Ordering(g, order),
         NEW load \in [Eligible(g) -> Int], NEW among, NEW cost,
         \A i \in Samples(g) : among[i] \in SUBSET Eligible(g) /\ among[i] # {},
         \A i \in Samples(g), w \in Eligible(g) : cost[i][w] \in Nat
  PROVE  GreedyInput(Eligible(g), Samples(g), Requests(g), order, load, among, cost)
<1>1. Requests(g) \in Nat
  BY GroupIs
<1>2. IsFiniteSet(Eligible(g)) /\ Eligible(g) \in SUBSET Int
  BY EligibleAre
<1> QED BY <1>1, <1>2 DEF GreedyInput, Ordering

\* What decides over a policy that places greedily: the load before and what a request
\* adds are the ones it balances, and a request may go to any worker, or to two.
Balances(policy, g, load, among, cost) ==
    /\ \A w \in Eligible(g) : load[w] = LoadBefore(policy, w)
    /\ \A i \in Samples(g), w \in Eligible(g) : cost[i][w] = LoadAdded(policy, w, g, i)
    /\ \A i \in Samples(g) : IF policy = "power-of-two" /\ Cardinality(Eligible(g)) > 1
                            THEN \A w \in Eligible(g) : \E x \in among[i] : x # w
                            ELSE among[i] = Eligible(g)

LEMMA GreedyIsBalanced ==
  ASSUME NEW g, NEW n, NEW order, NEW load, NEW among, NEW cost, NEW policy,
         GreedyInput(Eligible(g), Samples(g), n, order, load, among, cost),
         Balances(policy, g, load, among, cost)
  PROVE  LET at == Greedy(order, load, among, cost)
         IN  Placement(g, at) /\ Balanced(policy, g, at)
<1> DEFINE E == Eligible(g)
           D == Samples(g)
           at == Greedy(order, load, among, cost)
<1>1. at \in [D -> E] /\ \A i \in D : at[i] \in among[i]
  <2> HIDE DEF E, D
  <2> QED BY GreedyIs DEF E, D
<1>2. PICK final : /\ final.at = at /\ final.load \in [E -> Int]
                   /\ GreedyGood(E, D, load, among, cost, D, final)
  <2> HIDE DEF E, D
  <2> QED BY GreedyIs DEF E, D
<1> HIDE DEF at
<1>3. \A w \in E : PlacedOn(D, at, w) = On(at, w)
  BY <1>1 DEF PlacedOn, On
<1>4. \A w \in E : CostsOn(D, cost, w) = [i \in D |-> LoadAdded(policy, w, g, i)]
  BY DEF CostsOn, Balances
<1>5. \A w \in E : final.load[w] = LoadBefore(policy, w) +
                     SumOf([i \in D |-> LoadAdded(policy, w, g, i)], On(at, w))
  <2> TAKE w \in E
  <2>1. final.load[w] = load[w] + SumOf(CostsOn(D, cost, w), PlacedOn(D, at, w))
    BY <1>2 DEF GreedyGood
  <2>2. load[w] = LoadBefore(policy, w)
    BY DEF Balances
  <2> QED BY <1>3, <1>4, <2>1, <2>2
<1> DEFINE total == LoadAfter(policy, g, at)
<1>6. \A w \in E : total[w] = final.load[w]
  BY <1>5 DEF LoadAfter
<1> HIDE DEF total
<1>7. ASSUME NEW w \in Used(at)
      PROVE  \E i \in On(at, w) :
                IF policy = "power-of-two" /\ Cardinality(E) > 1
                THEN \E x \in E \ {w} : total[w] - LoadAdded(policy, w, g, i) <= total[x]
                ELSE \A x \in E \ {w} : total[w] - LoadAdded(policy, w, g, i) <= total[x]
  <2>1. PICK v \in D : at[v] = w
    BY <1>1 DEF Used, Range
  <2>2. w \in E
    BY <1>1, <2>1
  <2>3. PICK j \in On(at, w) :
           \A x \in among[j] : x # w => final.load[w] - cost[j][w] <= final.load[x]
    BY <1>2, <1>3, <2>1, <2>2 DEF GreedyGood
  <2>4. j \in D /\ cost[j][w] = LoadAdded(policy, w, g, j)
    BY <1>1, <2>2, <2>3 DEF On, Balances
  <2>5. among[j] \in SUBSET E
    BY <2>4 DEF GreedyInput
  <2>6. \A x \in among[j] : x # w => total[w] - LoadAdded(policy, w, g, j) <= total[x]
    BY <1>6, <2>2, <2>3, <2>4, <2>5
  <2>7. IF policy = "power-of-two" /\ Cardinality(E) > 1
        THEN \E x \in among[j] : x # w ELSE among[j] = E
    BY <2>2, <2>4 DEF Balances
  <2> HIDE DEF E, D
  <2> QED BY <2>5, <2>6, <2>7
<1>8. Balanced(policy, g, at)
  BY <1>7 DEF Balanced, total
<1>9. Placement(g, at)
  BY <1>1 DEF Placement
<1> QED BY <1>8, <1>9 DEF at

LEMMA LeastRequestsIs ==
  ASSUME WorkersOk, NEW g, IsGroup(g), Eligible(g) # {}
  PROVE  Placement(g, LeastRequests(g)) /\ Balanced("least-requests", g, LeastRequests(g))
<1> DEFINE load == [w \in Eligible(g) |-> workers[w].running + workers[w].queued]
           cost == [i \in Samples(g) |-> [w \in Eligible(g) |-> 1]]
<1>1. \A w \in Eligible(g) : load[w] \in Int
  <2> TAKE w \in Eligible(g)
  <2>1. w \in Workers /\ g.prompt \in Nat
    BY EligibleAre, GroupIs
  <2>2. workers[w].running \in Nat /\ workers[w].queued \in Nat
    BY <2>1, TimesAre
  <2> QED BY <2>2
<1>2. load \in [Eligible(g) -> Int]
  BY <1>1
<1>3. /\ \A i \in Samples(g) : Anywhere(g)[i] \in SUBSET Eligible(g) /\ Anywhere(g)[i] # {}
      /\ \A i \in Samples(g), w \in Eligible(g) : cost[i][w] \in Nat
  BY DEF Anywhere
<1>4. Balances("least-requests", g, load, Anywhere(g), cost)
  BY DEF Balances, LoadBefore, LoadAdded, Anywhere
<1>5. LeastRequests(g) = Greedy(InOrder(g), load, Anywhere(g), cost)
  BY DEF LeastRequests
<1> HIDE DEF load, cost
<1>6. GreedyInput(Eligible(g), Samples(g), Requests(g), InOrder(g), load, Anywhere(g), cost)
  BY <1>2, <1>3, OrdersAre, GreedyInputIs
<1> QED BY <1>4, <1>5, <1>6, GreedyIsBalanced

LEMMA LeastQueuedTokensIs ==
  ASSUME WorkersOk, NEW g, IsGroup(g), Eligible(g) # {}
  PROVE  /\ Placement(g, LeastQueuedTokens(g))
         /\ Balanced("least-queued-tokens", g, LeastQueuedTokens(g))
<1> DEFINE load == [w \in Eligible(g) |-> Tokens(w)]
<1>1. \A w \in Eligible(g) : w \in Workers /\ Tokens(w) \in Int
  BY EligibleAre, GroupIs, TimesAre
<1>2. load \in [Eligible(g) -> Int]
  BY <1>1
<1>3. /\ \A i \in Samples(g) : Anywhere(g)[i] \in SUBSET Eligible(g) /\ Anywhere(g)[i] # {}
      /\ \A i \in Samples(g), w \in Eligible(g) : TokenCosts(g)[i][w] \in Nat
  <2>1. ASSUME NEW i \in Samples(g)
        PROVE  g.prompt + g.p90[i] \in Nat
    <3>1. g.prompt \in Nat /\ g.p90[i] \in Nat
      BY GroupIs
    <3> QED BY <3>1
  <2> QED BY <2>1 DEF Anywhere, TokenCosts
<1>4. Balances("least-queued-tokens", g, load, Anywhere(g), TokenCosts(g))
  BY DEF Balances, LoadBefore, LoadAdded, Anywhere, TokenCosts, Tokens
<1>5. LeastQueuedTokens(g) = Greedy(LongestFirst(g), load, Anywhere(g), TokenCosts(g))
  BY DEF LeastQueuedTokens
<1> HIDE DEF load
<1>6. GreedyInput(Eligible(g), Samples(g), Requests(g), LongestFirst(g), load, Anywhere(g), TokenCosts(g))
  BY <1>2, <1>3, OrdersAre, GreedyInputIs
<1> QED BY <1>4, <1>5, <1>6, GreedyIsBalanced

\* The queue times, and what a request adds to them.
LEMMA QueueLoads ==
  ASSUME WorkersOk, NEW g, IsGroup(g)
  PROVE  /\ [w \in Eligible(g) |-> QueueTime(w)] \in [Eligible(g) -> Int]
         /\ \A i \in Samples(g), w \in Eligible(g) :
               DecodeTimes(g)[i][w] = DecodeTime(w, g.p90[i]) /\ DecodeTimes(g)[i][w] \in Nat
<1>1. \A w \in Eligible(g) : /\ w \in Workers /\ QueueTime(w) \in Int
                            /\ \A t \in Nat : DecodeTime(w, t) \in Nat
  <2> TAKE w \in Eligible(g)
  <2>1. w \in Workers /\ g.prompt \in Nat
    BY EligibleAre, GroupIs
  <2>2. QueueTime(w) \in Nat /\ \A t \in Nat : DecodeTime(w, t) \in Nat
    BY <2>1, TimesAre
  <2> QED BY <2>1, <2>2
<1>2. \A i \in Samples(g) : g.p90[i] \in Nat
  BY GroupIs
<1> QED BY <1>1, <1>2 DEF DecodeTimes

LEMMA LoadProportionalIs ==
  ASSUME WorkersOk, NEW g, IsGroup(g), Eligible(g) # {}
  PROVE  /\ Placement(g, LoadProportional(g))
         /\ Balanced("load-proportional-split", g, LoadProportional(g))
<1> DEFINE load == [w \in Eligible(g) |-> QueueTime(w)]
<1>1. load \in [Eligible(g) -> Int]
  BY QueueLoads
<1>2. /\ \A i \in Samples(g) : Anywhere(g)[i] \in SUBSET Eligible(g) /\ Anywhere(g)[i] # {}
      /\ \A i \in Samples(g), w \in Eligible(g) : DecodeTimes(g)[i][w] \in Nat
  BY QueueLoads DEF Anywhere
<1>3. Balances("load-proportional-split", g, load, Anywhere(g), DecodeTimes(g))
  BY QueueLoads DEF Balances, LoadBefore, LoadAdded, Anywhere
<1>4. LoadProportional(g) = Greedy(LongestFirst(g), load, Anywhere(g), DecodeTimes(g))
  BY DEF LoadProportional
<1> HIDE DEF load
<1>5. GreedyInput(Eligible(g), Samples(g), Requests(g), LongestFirst(g), load, Anywhere(g), DecodeTimes(g))
  BY <1>1, <1>2, OrdersAre, GreedyInputIs
<1> QED BY <1>3, <1>4, <1>5, GreedyIsBalanced

LEMMA CacheAwareIn ==
  ASSUME WorkersOk, NEW g, IsGroup(g), Eligible(g) # {}
  PROVE  Placement(g, CacheAwareGroup(g))
<1> DEFINE matches == {Matched(w, g) : w \in Eligible(g)}
           load == [w \in Eligible(g) |-> QueueTime(w)]
           among == [i \in Samples(g) |-> {w \in Eligible(g) : Matched(w, g) = Max(matches)}]
<1>1. matches \in SUBSET Int /\ IsFiniteSet(matches) /\ matches # {}
  <2>1. \A w \in Eligible(g) : Matched(w, g) \in Int
    <3> TAKE w \in Eligible(g)
    <3>1. w \in Workers /\ g.prompt \in Nat
      BY EligibleAre, GroupIs
    <3>2. Matched(w, g) \in 0..g.prompt
      BY <3>1, TimesAre
    <3> QED BY <3>1, <3>2
  <2> DEFINE f == [w \in Eligible(g) |-> Matched(w, g)]
  <2>2. f \in Surjection(Eligible(g), matches)
    BY DEF Surjection
  <2>3. matches \in SUBSET Int /\ matches # {}
    BY <2>1
  <2> HIDE DEF f, matches
  <2> QED BY <2>2, <2>3, EligibleAre, FS_Surjection
<1>2. \E w \in Eligible(g) : Matched(w, g) = Max(matches)
  <2>1. Max(matches) \in matches
    <3> HIDE DEF matches
    <3> QED BY <1>1, MaxIs
  <2> QED BY <2>1
<1>3. load \in [Eligible(g) -> Int]
  BY QueueLoads
<1>4. /\ \A i \in Samples(g) : among[i] \in SUBSET Eligible(g) /\ among[i] # {}
      /\ \A i \in Samples(g), w \in Eligible(g) : DecodeTimes(g)[i][w] \in Nat
  <2> HIDE DEF matches
  <2> QED BY <1>2, QueueLoads
<1>5. CacheAwareGroup(g) = Greedy(InOrder(g), load, among, DecodeTimes(g))
  BY DEF CacheAwareGroup
<1> HIDE DEF load, among
<1>6. GreedyInput(Eligible(g), Samples(g), Requests(g), InOrder(g), load, among, DecodeTimes(g))
  BY <1>3, <1>4, OrdersAre, GreedyInputIs
<1>7. LET at == Greedy(InOrder(g), load, among, DecodeTimes(g)) IN at \in [Samples(g) -> Eligible(g)]
  BY <1>6, GreedyIs
<1> QED BY <1>5, <1>7 DEF Placement

Several(S) == \E x, y \in S : x # y

\* Two draws are two different workers, where there are two.
LEMMA DrawsAre ==
  ASSUME NEW g, IsGroup(g), Eligible(g) # {}, NEW draw \in Seq(Nat \X Nat),
         Len(draw) = Requests(g), NEW i \in Samples(g)
  PROVE  /\ Draws(g, draw, i) \in SUBSET Eligible(g) /\ Draws(g, draw, i) # {}
         /\ Cardinality(Eligible(g)) > 1 => Several(Draws(g, draw, i))
<1> DEFINE a == draw[i][1]
           b == draw[i][2]
           n == Cardinality(Eligible(g))
           first == Nth(Ready(g), a)
           second == Nth(Ready(g), b)
           third == Nth(Ready(g), b + 1)
<1>1. a \in Nat /\ b \in Nat /\ b + 1 \in Nat
  <2>1. i \in 1..Len(draw)
    BY GroupIs
  <2>2. draw[i] \in Nat \X Nat
    BY <2>1
  <2> QED BY <2>2
<1> HIDE DEF a, b
<1>2. first \in Eligible(g) /\ second \in Eligible(g) /\ third \in Eligible(g)
  BY <1>1, NthIs
<1>3. n > 1 => second # third
  <2> HAVE n > 1
  <2>1. /\ second = Ready(g)[(b % n) + 1] /\ (b % n) + 1 \in 1..n
        /\ third = Ready(g)[((b + 1) % n) + 1] /\ ((b + 1) % n) + 1 \in 1..n
    BY <1>1, NthIs
  <2>2. n \in Nat \ {0}
    BY EligibleAre
  <2> HIDE DEF n, second, third
  <2>3. (b + 1) % n = IF (b % n) + 1 = n THEN 0 ELSE (b % n) + 1
    BY <1>1, <2>2, NextMod
  <2>4. b % n \in Nat
    BY <1>1, <2>2, DivMod
  <2>5. (b % n) + 1 # ((b + 1) % n) + 1
    BY <2>2, <2>3, <2>4
  <2> QED BY <2>1, <2>5, ReadyIs DEF n
<1>4. Draws(g, draw, i) = {first, IF second = first THEN third ELSE second}
  BY DEF Draws, a, b
<1> HIDE DEF first, second, third, n
<1>5. n > 1 => Several(Draws(g, draw, i))
  BY <1>3, <1>4 DEF Several
<1> QED BY <1>2, <1>4, <1>5 DEF n

LEMMA PowerOfTwoIs ==
  ASSUME WorkersOk, NEW g, IsGroup(g), Eligible(g) # {}, NEW draw \in Seq(Nat \X Nat),
         Len(draw) = Requests(g)
  PROVE  /\ Placement(g, PowerOfTwo(g, draw))
         /\ Balanced("power-of-two", g, PowerOfTwo(g, draw))
<1> DEFINE load == [w \in Eligible(g) |-> Tokens(w)]
           among == [i \in Samples(g) |-> Draws(g, draw, i)]
<1>1. \A w \in Eligible(g) : w \in Workers /\ Tokens(w) \in Int
  BY EligibleAre, GroupIs, TimesAre
<1>2. load \in [Eligible(g) -> Int]
  BY <1>1
<1>3. /\ \A i \in Samples(g) : among[i] \in SUBSET Eligible(g) /\ among[i] # {}
      /\ \A i \in Samples(g), w \in Eligible(g) : TokenCosts(g)[i][w] \in Nat
  <2>1. ASSUME NEW i \in Samples(g)
        PROVE  g.prompt + g.p90[i] \in Nat
    <3>1. g.prompt \in Nat /\ g.p90[i] \in Nat
      BY GroupIs
    <3> QED BY <3>1
  <2> QED BY <2>1, DrawsAre DEF TokenCosts
<1>4. Cardinality(Eligible(g)) > 1 => \A i \in Samples(g), w \in Eligible(g) : \E x \in among[i] : x # w
  <2> HAVE Cardinality(Eligible(g)) > 1
  <2> TAKE i \in Samples(g), w \in Eligible(g)
  <2>1. Several(Draws(g, draw, i))
    BY DrawsAre
  <2>2. \E x \in Draws(g, draw, i) : x # w
    BY <2>1 DEF Several
  <2>3. among[i] = Draws(g, draw, i)
    OBVIOUS
  <2> HIDE DEF among
  <2> QED BY <2>2, <2>3
<1>5. ~(Cardinality(Eligible(g)) > 1) => \A i \in Samples(g) : among[i] = Eligible(g)
  <2> HAVE ~(Cardinality(Eligible(g)) > 1)
  <2>1. PICK w : Eligible(g) = {w}
    <3>1. IsFiniteSet(Eligible(g)) /\ Cardinality(Eligible(g)) = 1
      BY EligibleAre
    <3> QED BY <3>1, FS_Singleton
  <2> HIDE DEF among
  <2> QED BY <1>3, <2>1
<1>6. Balances("power-of-two", g, load, among, TokenCosts(g))
  <2>1. \A i \in Samples(g), w \in Eligible(g) : TokenCosts(g)[i][w] = g.prompt + g.p90[i]
    BY DEF TokenCosts
  <2>2. \A w \in Eligible(g) : load[w] = workers[w].prefill + workers[w].decode
    BY DEF Tokens
  <2> HIDE DEF load, among
  <2> QED BY <1>4, <1>5, <2>1, <2>2 DEF Balances, LoadBefore, LoadAdded
<1>7. PowerOfTwo(g, draw) = Greedy(InOrder(g), load, among, TokenCosts(g))
  BY DEF PowerOfTwo
<1> HIDE DEF load, among
<1>8. GreedyInput(Eligible(g), Samples(g), Requests(g), InOrder(g), load, among, TokenCosts(g))
  BY <1>2, <1>3, OrdersAre, GreedyInputIs
<1> QED BY <1>6, <1>7, <1>8, GreedyIsBalanced

-------------------------------------------------------------------------------
(* The score of a placement. *)

Values(f, S) == {f[x] : x \in S}

\* The largest and the smallest value a function takes.
LEMMA Extremes ==
  ASSUME NEW S, IsFiniteSet(S), S # {}, NEW f, \A x \in S : f[x] \in Int
  PROVE  /\ Max(Values(f, S)) \in Int /\ Min(Values(f, S)) \in Int
         /\ \A x \in S : Min(Values(f, S)) <= f[x] /\ f[x] <= Max(Values(f, S))
         /\ \E x \in S : f[x] = Max(Values(f, S))
         /\ \E x \in S : f[x] = Min(Values(f, S))
<1> DEFINE T == {f[x] : x \in S}
           h == [x \in S |-> f[x]]
<1>1. T \in SUBSET Int /\ T # {}
  OBVIOUS
<1>2. h \in Surjection(S, T)
  BY DEF Surjection
<1>3. IsFiniteSet(T)
  <2> HIDE DEF h, T
  <2> QED BY <1>2, FS_Surjection
<1>4. /\ Max(T) \in T /\ \A x \in T : x <= Max(T)
      /\ Min(T) \in T /\ \A x \in T : Min(T) <= x
  <2> HIDE DEF T
  <2> QED BY <1>1, <1>3, MaxIs, MinIs
<1> QED BY <1>1, <1>4 DEF Values

LEMMA UsedAre ==
  ASSUME NEW g, IsGroup(g), NEW at, Placement(g, at)
  PROVE  /\ Used(at) \in SUBSET Eligible(g) /\ Used(at) \in SUBSET Workers
         /\ Used(at) # {} /\ IsFiniteSet(Used(at))
         /\ Cardinality(Used(at)) \in Nat \ {0}
         /\ \A w : On(at, w) \in SUBSET Samples(g) /\ IsFiniteSet(On(at, w))
         /\ \A w \in Used(at) : On(at, w) # {}
<1>1. Samples(g) # {} /\ IsFiniteSet(Samples(g))
  BY GroupIs
<1>2. Used(at) \in SUBSET Eligible(g) /\ Used(at) # {}
  BY <1>1 DEF Placement, Used, Range
<1>3. Eligible(g) \in SUBSET Workers /\ IsFiniteSet(Eligible(g))
  BY EligibleAre
<1>4. IsFiniteSet(Used(at))
  BY <1>2, <1>3, FS_Subset
<1>5. Cardinality(Used(at)) \in Nat \ {0}
  BY <1>2, <1>4, FS_CardinalityType, FS_EmptySet
<1>6. \A w : On(at, w) \in SUBSET Samples(g) /\ IsFiniteSet(On(at, w))
  <2> TAKE w
  <2>1. On(at, w) \in SUBSET Samples(g)
    BY DEF On, Placement
  <2> QED BY <1>1, <2>1, FS_Subset
<1>7. \A w \in Used(at) : On(at, w) # {}
  BY DEF Used, Range, On
<1> QED BY <1>2, <1>3, <1>4, <1>5, <1>6, <1>7

\* The tokens a worker is expected to decode.
LEMMA TokensOnAre ==
  ASSUME NEW g, IsGroup(g), NEW at, Placement(g, at), NEW w
  PROVE  SumOf(g.p90, On(at, w)) \in Nat /\ SumOf(g.mean, On(at, w)) \in Nat
<1>1. On(at, w) \in SUBSET Samples(g) /\ IsFiniteSet(On(at, w))
  BY UsedAre
<1>2. \A i \in On(at, w) : g.p90[i] \in Nat /\ g.mean[i] \in Nat
  BY <1>1, GroupIs
<1>3. \A i \in On(at, w) : g.p90[i] \in Nat
  BY <1>2
<1>4. \A i \in On(at, w) : g.mean[i] \in Nat
  BY <1>2
<1>5. SumOf(g.p90, On(at, w)) \in Nat
  BY <1>1, <1>3, SumOfNaturals
<1>6. SumOf(g.mean, On(at, w)) \in Nat
  BY <1>1, <1>4, SumOfNaturals
<1> QED BY <1>5, <1>6

\* What a worker is expected to decode, times RiskUnit.
Expected(g, at, w) ==
    (RiskUnit - RiskShare) * SumOf(g.mean, On(at, w)) + RiskShare * SumOf(g.p90, On(at, w))

LEMMA FinishIs ==
  ASSUME WorkersOk, NEW g, IsGroup(g), NEW at, Placement(g, at), NEW w \in Workers
  PROVE  /\ PackTime(w, g) \in Nat /\ Expected(g, at, w) \in Nat
         /\ FinishTime(g, at, w) \in Nat
         /\ FinishTime(g, at, w) = RiskUnit * PackTime(w, g) + DecodeTime(w, Expected(g, at, w))
<1>1. SumOf(g.p90, On(at, w)) \in Nat /\ SumOf(g.mean, On(at, w)) \in Nat
  BY TokensOnAre
<1>2. RiskUnit \in Nat /\ RiskShare \in Nat /\ RiskUnit - RiskShare \in Nat
  BY WeightAssumption
<1>3. \A a, b \in Nat : a * b \in Nat
  OBVIOUS
<1>4. \A a, b \in Nat : a + b \in Nat
  OBVIOUS
<1>5. Expected(g, at, w) \in Nat
  BY <1>1, <1>2, <1>3, <1>4 DEF Expected
<1>6. g.prompt \in Nat
  BY GroupIs
<1>7. /\ QueueTime(w) \in Nat /\ Prefill(w, g) \in Nat
      /\ \A t \in Nat : PrefillTime(w, t) \in Nat /\ DecodeTime(w, t) \in Nat
  BY <1>6, TimesAre
<1>8. PackTime(w, g) \in Nat
  BY <1>4, <1>7 DEF PackTime
<1>9. FinishTime(g, at, w) = RiskUnit * PackTime(w, g) + DecodeTime(w, Expected(g, at, w))
  BY DEF FinishTime, PackTime, Expected
<1>10. RiskUnit * PackTime(w, g) \in Nat /\ DecodeTime(w, Expected(g, at, w)) \in Nat
  BY <1>2, <1>3, <1>5, <1>7, <1>8
<1> QED BY <1>4, <1>5, <1>8, <1>9, <1>10

LEMMA MakespanIs ==
  ASSUME WorkersOk, NEW g, IsGroup(g), NEW at, Placement(g, at)
  PROVE  /\ Makespan(g, at) \in Nat
         /\ \A w \in Used(at) : FinishTime(g, at, w) <= Makespan(g, at)
         /\ \E w \in Used(at) : FinishTime(g, at, w) = Makespan(g, at)
<1> DEFINE U == Used(at)
           f == [w \in U |-> FinishTime(g, at, w)]
<1>1. U # {} /\ IsFiniteSet(U) /\ U \in SUBSET Workers
  BY UsedAre
<1>2. \A w \in U : f[w] = FinishTime(g, at, w) /\ f[w] \in Nat
  BY <1>1, FinishIs
<1>3. Makespan(g, at) = Max(Values(f, U))
  BY DEF Makespan, Values
<1>4. /\ \A w \in U : f[w] <= Max(Values(f, U))
      /\ \E w \in U : f[w] = Max(Values(f, U))
  <2>1. \A w \in U : f[w] \in Int
    BY <1>2
  <2> HIDE DEF U, f
  <2> QED BY <1>1, <2>1, Extremes
<1> HIDE DEF f
<1> QED BY <1>2, <1>3, <1>4

\* The longest of the queues.
LEMMA WaitIs ==
  ASSUME WorkersOk, NEW g, IsGroup(g), NEW at, Placement(g, at)
  PROVE  /\ Wait(at) \in Nat
         /\ \E w \in Used(at) : Wait(at) = RiskUnit * QueueTime(w)
         /\ \A w \in Used(at) : RiskUnit * QueueTime(w) <= Wait(at)
<1> DEFINE U == Used(at)
           f == [w \in U |-> QueueTime(w)]
           m == Max(Values(f, U))
<1>1. U # {} /\ IsFiniteSet(U) /\ U \in SUBSET Workers
  BY UsedAre
<1>2. \A w \in U : f[w] = QueueTime(w) /\ f[w] \in Nat
  BY <1>1, TimesAre, GroupIs
<1>3. Wait(at) = RiskUnit * m
  BY DEF Wait, Values
<1>4. m \in Int /\ (\A w \in U : f[w] <= m) /\ (\E w \in U : f[w] = m)
  <2>1. \A w \in U : f[w] \in Int
    BY <1>2
  <2> HIDE DEF U, f
  <2> QED BY <1>1, <2>1, Extremes
<1> HIDE DEF f, m
<1>5. PICK w \in U : QueueTime(w) = m /\ m \in Nat
  BY <1>2, <1>4
<1>6. RiskUnit \in Nat
  BY WeightAssumption
<1>7. \A a, b, c \in Nat : a * b \in Nat /\ (b <= c => a * b <= a * c)
  OBVIOUS
<1>8. \A x \in U : QueueTime(x) \in Nat /\ QueueTime(x) <= m
  BY <1>2, <1>4
<1> QED BY <1>3, <1>5, <1>6, <1>7, <1>8

\* A split repeats prefills; a pack repeats none.
LEMMA DuplicatedIs ==
  ASSUME WorkersOk, NEW g, IsGroup(g), NEW at, Placement(g, at)
  PROVE  Duplicated(g, at) \in Nat /\ \A w : Used(at) = {w} => Duplicated(g, at) = 0
<1> DEFINE U == Used(at)
           f == [w \in U |-> Prefill(w, g)]
           m == Min(Values(f, U))
<1>1. U # {} /\ IsFiniteSet(U) /\ U \in SUBSET Workers
  BY UsedAre
<1>2. \A w \in U : f[w] = Prefill(w, g) /\ f[w] \in Nat
  BY <1>1, TimesAre, GroupIs
<1>3. Duplicated(g, at) = SumOf(f, U) - m
  BY DEF Duplicated, Values
<1>4. m \in Int /\ (\E w \in U : f[w] = m)
  <2>1. \A w \in U : f[w] \in Int
    BY <1>2
  <2> HIDE DEF U, f
  <2> QED BY <1>1, <2>1, Extremes
<1>5. SumOf(f, U) \in Nat /\ \A w \in U : f[w] <= SumOf(f, U)
  <2>1. \A w \in U : f[w] \in Nat
    BY <1>2
  <2> HIDE DEF U, f
  <2> QED BY <1>1, <2>1, SumOfNaturals
<1>6. ASSUME NEW w, U = {w}
      PROVE  SumOf(f, U) = m
  <2>1. f[w] \in Int /\ f[w] = m
    BY <1>2, <1>4, <1>6
  <2> HIDE DEF f, m
  <2>2. SumOf(f, {w}) = f[w]
    BY <2>1, SumOfSingle
  <2> HIDE DEF U
  <2> QED BY <1>6, <2>1, <2>2
<1>7. m <= SumOf(f, U)
  <2> HIDE DEF f, m, U
  <2> QED BY <1>4, <1>5
<1> HIDE DEF f, m, U
<1>8. Duplicated(g, at) \in Nat
  BY <1>3, <1>4, <1>5, <1>7
<1>9. \A w : U = {w} => Duplicated(g, at) = 0
  BY <1>3, <1>4, <1>6
<1> QED BY <1>8, <1>9 DEF U

\* The load of the busiest worker, as a share of the mean.
Share(g, at) == Max(Range(Loads(g, at))) * Cardinality(Used(at))

\* A placement is never more even than a pack, unless there is no load at all.
LEMMA LoadsAre ==
  ASSUME WorkersOk, NEW g, IsGroup(g), NEW at, Placement(g, at)
  PROVE  LET most == Max(Range(Loads(g, at)))
         IN  /\ most \in Nat /\ Total(g, at) \in Nat \ {0} /\ Share(g, at) \in Nat
             /\ most = 0 \/ Total(g, at) <= Share(g, at)
             /\ \A w \in Used(at) : Loads(g, at)[w] \in Nat /\ Loads(g, at)[w] <= most
             /\ \A w : Used(at) = {w} =>
                   /\ most = Loads(g, at)[w] /\ Share(g, at) = most
                   /\ most <= Total(g, at) /\ (most # 0 => Total(g, at) = most)
<1> DEFINE U == Used(at)
           f == Loads(g, at)
           most == Max(Range(f))
           n == Cardinality(U)
           sum == SumOf(f, U)
<1>1. U # {} /\ IsFiniteSet(U) /\ U \in SUBSET Workers /\ n \in Nat \ {0}
  BY UsedAre
<1>2. \A w \in U : f[w] \in Nat /\ f[w] = SumOf(g.p90, On(at, w)) + Prefill(w, g)
  <2> TAKE w \in U
  <2>1. Prefill(w, g) \in Nat
    BY <1>1, TimesAre, GroupIs
  <2>2. SumOf(g.p90, On(at, w)) \in Nat
    BY TokensOnAre
  <2> QED BY <2>1, <2>2 DEF Loads
<1>3. most = Max(Values(f, U))
  BY DEF Loads, Range, Values
<1>4. most \in Int /\ (\A w \in U : f[w] <= most) /\ \E w \in U : f[w] = most
  <2>1. \A w \in U : f[w] \in Int
    BY <1>2
  <2> HIDE DEF U, f
  <2> QED BY <1>1, <1>3, <2>1, Extremes
<1> HIDE DEF most
<1>5. most \in Nat
  BY <1>2, <1>4
<1>6. sum \in Nat
  <2>1. \A w \in U : f[w] \in Nat
    BY <1>2
  <2> HIDE DEF U, f
  <2> QED BY <1>1, <2>1, SumOfNaturals
<1>7. sum <= most * n
  <2>1. \A w \in U : f[w] \in Int /\ f[w] <= most
    BY <1>2, <1>4
  <2> HIDE DEF U, f
  <2> QED BY <1>1, <1>5, <2>1, SumOfAtMost
<1>8. Total(g, at) = Max({n, sum}) /\ Share(g, at) = most * n
  BY DEF Total, Share, most
<1> HIDE DEF n, sum
<1>9. /\ Total(g, at) = n \/ Total(g, at) = sum
      /\ n <= Total(g, at) /\ sum <= Total(g, at)
  <2>1. IsFiniteSet({n, sum})
    <3>1. {n, sum} = {n} \union {sum} /\ IsFiniteSet({n})
      BY FS_Singleton
    <3> QED BY <3>1, FS_AddElement
  <2>2. {n, sum} \in SUBSET Int /\ {n, sum} # {}
    BY <1>1, <1>6
  <2>3. Max({n, sum}) \in {n, sum} /\ \A x \in {n, sum} : x <= Max({n, sum})
    <3> DEFINE S == {n, sum}
    <3> HIDE DEF S
    <3>1. Max(S) \in S /\ \A x \in S : x <= Max(S)
      BY <2>1, <2>2, MaxIs DEF S
    <3> QED BY <3>1 DEF S
  <2> QED BY <1>8, <2>3
<1>10. \A a, b \in Nat : a * b \in Nat /\ (a # 0 => b <= a * b)
  <2> TAKE a, b \in Nat
  <2>1. a * b \in Nat
    OBVIOUS
  <2>2. CASE a # 0
    <3>1. (a - 1) * b \in Nat /\ a * b = (a - 1) * b + b
      BY <2>2
    <3> QED BY <2>1, <3>1
  <2> QED BY <2>1, <2>2
<1>11. most * n \in Nat /\ (most # 0 => n <= most * n)
  BY <1>1, <1>5, <1>10
<1>12. most = 0 \/ Total(g, at) <= Share(g, at)
  BY <1>7, <1>8, <1>9, <1>11
<1>13. ASSUME NEW w, U = {w}
       PROVE  /\ most = f[w] /\ Share(g, at) = most
              /\ most <= Total(g, at) /\ (most # 0 => Total(g, at) = most)
  <2>1. n = 1
    BY <1>13, FS_Singleton DEF n
  <2>2. most = f[w] /\ f[w] \in Int
    BY <1>2, <1>4, <1>13
  <2>3. sum = f[w]
    <3> HIDE DEF f
    <3>1. SumOf(f, {w}) = f[w]
      BY <2>2, SumOfSingle
    <3> HIDE DEF U
    <3> QED BY <1>13, <3>1 DEF sum
  <2>4. most * 1 = most
    BY <1>5
  <2> HIDE DEF f, U
  <2> QED BY <1>5, <1>8, <1>9, <2>1, <2>2, <2>3, <2>4
<1>14. Total(g, at) \in Nat \ {0}
  BY <1>1, <1>6, <1>9
<1> HIDE DEF f
<1> QED BY <1>2, <1>4, <1>5, <1>8, <1>11, <1>12, <1>13, <1>14 DEF f, most

\* The weight of the skew.
SkewWeight == WSkew * RiskUnit * Unit

LEMMA ScoreIs ==
  ASSUME WorkersOk, NEW g, IsGroup(g), NEW at, Placement(g, at)
  PROVE  /\ SkewWeight \in Nat /\ Cost(g, at) \in Nat
         /\ Score(g, at).den = Total(g, at)
         /\ Score(g, at).num = Cost(g, at) * Total(g, at) + SkewWeight * Share(g, at)
         /\ Score(g, at).num \in Nat
<1>1. /\ Makespan(g, at) \in Nat /\ Wait(at) \in Nat /\ Duplicated(g, at) \in Nat
      /\ Total(g, at) \in Nat /\ Share(g, at) \in Nat
  BY MakespanIs, WaitIs, DuplicatedIs, LoadsAre
<1>2. /\ WMakespan \in Nat /\ WPrefill \in Nat /\ WWait \in Nat /\ WSkew \in Nat
      /\ RiskUnit \in Nat /\ Unit \in Nat
  BY WeightAssumption, WorkerAssumption
<1>3. \A a, b \in Nat : a * b \in Nat /\ a + b \in Nat
  OBVIOUS
<1>4. SkewWeight \in Nat
  BY <1>2, <1>3 DEF SkewWeight
<1>5. Cost(g, at) \in Nat
  BY <1>1, <1>2, <1>3 DEF Cost
<1> DEFINE most == Max(Range(Loads(g, at)))
           n == Cardinality(Used(at))
<1>6. most \in Nat /\ n \in Nat
  BY LoadsAre, UsedAre
<1>7. /\ Score(g, at).den = Total(g, at)
      /\ Score(g, at).num = Cost(g, at) * Total(g, at) + SkewWeight * most * n
      /\ Share(g, at) = most * n
  BY DEF Score, SkewWeight, Share
<1>8. SkewWeight * most * n = SkewWeight * (most * n)
  <2>1. \A a, b, c \in Nat : a * b * c = a * (b * c)
    OBVIOUS
  <2> HIDE DEF most, n
  <2> QED BY <1>4, <1>6, <2>1
<1>9. Score(g, at).num = Cost(g, at) * Total(g, at) + SkewWeight * Share(g, at)
  BY <1>7, <1>8
<1>10. Score(g, at).num \in Nat
  BY <1>1, <1>3, <1>4, <1>5, <1>9
<1> QED BY <1>4, <1>5, <1>7, <1>9, <1>10

\* The first placement is no worse than the second.
NoWorse(g, at, bt) ==
    Score(g, at).num * Score(g, bt).den <= Score(g, bt).num * Score(g, at).den

LEMMA Cancel ==
  ASSUME NEW a \in Int, NEW b \in Int, NEW c \in Nat \ {0}
  PROVE  /\ a * c <= b * c => a <= b
         /\ a * c < b * c => a < b
         /\ a <= b => a * c <= b * c
         /\ a < b => a * c < b * c
<1>1. \A d \in Int, e \in Nat \ {0} : (d >= 1 => d * e >= 1) /\ (d >= 0 => d * e >= 0)
  OBVIOUS
<1>2. a * c - b * c = (a - b) * c /\ b * c - a * c = (b - a) * c
  OBVIOUS
<1>3. a - b \in Int /\ b - a \in Int /\ a * c \in Int /\ b * c \in Int
  OBVIOUS
<1>4. /\ (a - b >= 1 => (a - b) * c >= 1) /\ (a - b >= 0 => (a - b) * c >= 0)
      /\ (b - a >= 1 => (b - a) * c >= 1) /\ (b - a >= 0 => (b - a) * c >= 0)
  BY <1>1, <1>3
<1> DEFINE ac == a * c
           bc == b * c
           p == (a - b) * c
           q == (b - a) * c
<1>5. ac \in Int /\ bc \in Int /\ ac - bc = p /\ bc - ac = q
      /\ (a - b >= 1 => p >= 1) /\ (a - b >= 0 => p >= 0)
      /\ (b - a >= 1 => q >= 1) /\ (b - a >= 0 => q >= 0)
  BY <1>2, <1>3, <1>4
<1> HIDE DEF ac, bc, p, q
<1>6. /\ ac <= bc => a <= b
      /\ ac < bc => a < b
      /\ a <= b => ac <= bc
      /\ a < b => ac < bc
  BY <1>5
<1> QED BY <1>6 DEF ac, bc

\* Fractions compared crosswise.
LEMMA Fractions ==
  ASSUME NEW a \in Int, NEW c \in Int, NEW e \in Int,
         NEW b \in Nat \ {0}, NEW d \in Nat \ {0}, NEW f \in Nat \ {0},
         a * d <= c * b, c * f <= e * d
  PROVE  /\ a * f <= e * b
         /\ a * d < c * b \/ c * f < e * d => a * f < e * b
<1> DEFINE ad == a * d
           cb == c * b
           cf == c * f
           ed == e * d
           af == a * f
           eb == e * b
<1>1. ad \in Int /\ cb \in Int /\ cf \in Int /\ ed \in Int /\ af \in Int /\ eb \in Int
  OBVIOUS
<1>2. ad * f = af * d /\ cb * f = cf * b /\ ed * b = eb * d
  <2>1. \A x, y, z \in Int : (x * y) * z = (x * z) * y
    OBVIOUS
  <2> QED BY <2>1
<1>3. ad <= cb /\ cf <= ed
  OBVIOUS
<1> HIDE DEF ad, cb, cf, ed, af, eb
<1> DEFINE x == ad * f
           y == cb * f
           z == ed * b
<1>4. x <= y /\ (ad < cb => x < y)
  BY <1>1, <1>3, Cancel
<1>5. y <= z /\ (cf < ed => y < z)
  <2>1. cf * b <= ed * b /\ (cf < ed => cf * b < ed * b)
    BY <1>1, <1>3, Cancel
  <2> QED BY <1>2, <2>1
<1>6. x \in Int /\ y \in Int /\ z \in Int
  BY <1>1
<1>7. x = af * d /\ z = eb * d
  BY <1>2
<1> HIDE DEF x, y, z
<1>8. x <= z /\ (ad < cb \/ cf < ed => x < z)
  BY <1>4, <1>5, <1>6
<1>9. af <= eb
  <2>1. af * d <= eb * d
    BY <1>7, <1>8
  <2> QED BY <1>1, <2>1, Cancel
<1>10. ad < cb \/ cf < ed => af < eb
  <2>1. ad < cb \/ cf < ed => af * d < eb * d
    BY <1>7, <1>8
  <2> QED BY <1>1, <2>1, Cancel
<1> QED BY <1>9, <1>10 DEF ad, cb, cf, ed, af, eb

\* The skew apart, a placement that is no worse, and no more even, costs no more.
LEMMA CostsLess ==
  ASSUME WorkersOk, NEW g, IsGroup(g), NEW at, Placement(g, at), NEW bt, Placement(g, bt),
         NoWorse(g, at, bt), Share(g, bt) * Total(g, at) <= Share(g, at) * Total(g, bt)
  PROVE  Cost(g, at) <= Cost(g, bt)
<1> DEFINE X == Cost(g, at)
           Y == Cost(g, bt)
           K == Share(g, at)
           L == Share(g, bt)
           T == Total(g, at)
           V == Total(g, bt)
           S == SkewWeight
<1>1. /\ X \in Nat /\ Y \in Nat /\ S \in Nat
      /\ Score(g, at).num = X * T + S * K /\ Score(g, at).den = T
      /\ Score(g, bt).num = Y * V + S * L /\ Score(g, bt).den = V
  BY ScoreIs
<1>2. K \in Nat /\ L \in Nat /\ T \in Nat \ {0} /\ V \in Nat \ {0}
  BY LoadsAre
<1>3. (X * T + S * K) * V <= (Y * V + S * L) * T
  BY <1>1 DEF NoWorse
<1>4. L * T <= K * V
  OBVIOUS
<1> HIDE DEF X, Y, K, L, T, V, S
<1>5. (X * T + S * K) * V = X * (T * V) + S * (K * V)
  <2>1. \A x, t, s, k, v \in Int : (x * t + s * k) * v = x * (t * v) + s * (k * v)
    OBVIOUS
  <2> QED BY <1>1, <1>2, <2>1
<1>6. (Y * V + S * L) * T = Y * (T * V) + S * (L * T)
  <2>1. \A y, v, s, l, t \in Int : (y * v + s * l) * t = y * (t * v) + s * (l * t)
    OBVIOUS
  <2> QED BY <1>1, <1>2, <2>1
<1>7. S * (L * T) <= S * (K * V)
  <2>1. L * T \in Int /\ K * V \in Int
    BY <1>2
  <2>2. \A p, q \in Int : p <= q => S * p <= S * q
    <3> TAKE p, q \in Int
    <3>1. CASE S = 0
      BY <3>1
    <3>2. CASE S # 0
      <4>1. p <= q => p * S <= q * S
        BY <1>1, <3>2, Cancel
      <4>2. p * S = S * p /\ q * S = S * q
        BY <1>1
      <4> QED BY <4>1, <4>2
    <3> QED BY <3>1, <3>2
  <2> QED BY <1>4, <2>1, <2>2
<1>8. X * (T * V) <= Y * (T * V)
  <2> DEFINE m == X * (T * V)
             n == S * (K * V)
             o == Y * (T * V)
             p == S * (L * T)
  <2>1. m \in Int /\ n \in Int /\ o \in Int /\ p \in Int
    <3>1. \A x, y, z \in Int : x * (y * z) \in Int
      OBVIOUS
    <3> QED BY <1>1, <1>2, <3>1
  <2>2. m + n <= o + p /\ p <= n
    BY <1>3, <1>5, <1>6, <1>7
  <2> HIDE DEF m, n, o, p
  <2>3. m <= o
    BY <2>1, <2>2
  <2> QED BY <2>3 DEF m, o
<1>9. T * V \in Nat \ {0}
  <2>1. \A t, v \in Nat \ {0} : t * v \in Nat \ {0}
    <3> TAKE t, v \in Nat \ {0}
    <3>1. (t - 1) * v \in Nat /\ t * v = (t - 1) * v + v
      OBVIOUS
    <3> QED BY <3>1
  <2> QED BY <1>2, <2>1
<1>10. X <= Y
  <2> DEFINE tv == T * V
  <2>1. X * tv <= Y * tv /\ tv \in Nat \ {0}
    BY <1>8, <1>9
  <2> HIDE DEF tv
  <2> QED BY <1>1, <2>1, Cancel
<1> QED BY <1>10 DEF X, Y

\* The candidates are placements, and there is a pack on each of the workers.
LEMMA CandidatesAre ==
  ASSUME WorkersOk, NEW g, IsGroup(g), Eligible(g) # {}
  PROVE  LET c == CandidatePlacements(g)
         IN  /\ DOMAIN c \in SUBSET Int /\ IsFiniteSet(DOMAIN c) /\ DOMAIN c # {}
             /\ \A k \in DOMAIN c : Placement(g, c[k])
             /\ \A w \in Eligible(g) : \E k \in DOMAIN c : c[k] = Pack(g, w)
<1> DEFINE n == Cardinality(Eligible(g))
           r == Ready(g)
           packs == [k \in 1..Len(r) |-> Pack(g, r[k])]
           splits == <<EvenSplit(g), LoadProportional(g)>>
           c == packs \o splits
           V == {Pack(g, r[k]) : k \in 1..Len(r)} \union {EvenSplit(g), LoadProportional(g)}
<1>1. /\ n \in Nat /\ Len(r) = n /\ \A k \in 1..n : r[k] \in Eligible(g)
      /\ \A w \in Eligible(g) : \E k \in 1..n : r[k] = w
  BY ReadyIs, EligibleAre
<1> HIDE DEF r
<1>2. \A k \in 1..n : Placement(g, Pack(g, r[k]))
  BY <1>1, PackIn
<1>3. Placement(g, EvenSplit(g)) /\ Placement(g, LoadProportional(g))
  BY EvenSplitIn, LoadProportionalIs
<1> HIDE DEF n
<1>4. /\ packs \in Seq(V) /\ Len(packs) = n
      /\ \A k \in 1..n : packs[k] = Pack(g, r[k])
  BY <1>1
<1>5. /\ splits \in Seq(V) /\ Len(splits) = 2
      /\ splits[1] = EvenSplit(g) /\ splits[2] = LoadProportional(g)
  OBVIOUS
<1> HIDE DEF packs, splits, V
<1>6. /\ DOMAIN c = 1..(n + 2)
      /\ \A k \in 1..n : c[k] = packs[k]
      /\ c[n + 1] = splits[1] /\ c[n + 2] = splits[2]
  <2>1. c \in Seq(V) /\ Len(c) = Len(packs) + Len(splits)
    BY <1>4, <1>5, ConcatProperties, Zenon
  <2>2. \A k \in 1..(Len(packs) + Len(splits)) :
           c[k] = IF k <= Len(packs) THEN packs[k] ELSE splits[k - Len(packs)]
    BY <1>4, <1>5, ConcatProperties, Zenon
  <2>3. DOMAIN c = 1..(n + 2)
    BY <1>1, <1>4, <1>5, <2>1
  <2> HIDE DEF c
  <2>4. \A k \in 1..n : c[k] = packs[k]
    BY <1>1, <1>4, <1>5, <2>2
  <2>5. c[n + 1] = splits[1] /\ c[n + 2] = splits[2]
    <3>1. n + 1 \in 1..(n + 2) /\ n + 2 \in 1..(n + 2) /\ ~(n + 1 <= n) /\ ~(n + 2 <= n)
          /\ (n + 1) - n = 1 /\ (n + 2) - n = 2
      BY <1>1
    <3> QED BY <1>1, <1>4, <1>5, <2>2, <3>1
  <2> QED BY <2>3, <2>4, <2>5
<1> HIDE DEF c
<1>7. \A k \in DOMAIN c : Placement(g, c[k])
  <2> TAKE k \in DOMAIN c
  <2>1. k \in 1..n \/ k = n + 1 \/ k = n + 2
    BY <1>1, <1>6
  <2> QED BY <1>2, <1>3, <1>4, <1>5, <1>6, <2>1
<1>8. \A w \in Eligible(g) : \E k \in DOMAIN c : c[k] = Pack(g, w)
  <2> TAKE w \in Eligible(g)
  <2>1. PICK k \in 1..n : r[k] = w
    BY <1>1
  <2>2. k \in DOMAIN c /\ c[k] = Pack(g, w)
    BY <1>1, <1>4, <1>6, <2>1
  <2> QED BY <2>2
<1>9. IsFiniteSet(1..(n + 2)) /\ 1 \in 1..(n + 2)
  BY <1>1, FS_Interval
<1>10. CandidatePlacements(g) = c
  BY DEF CandidatePlacements, c, packs, splits, r
<1> QED BY <1>1, <1>6, <1>7, <1>8, <1>9, <1>10

\* The adaptive policy takes a placement that is no worse than any pack.
LEMMA AdaptiveIs ==
  ASSUME WorkersOk, NEW g, IsGroup(g), Eligible(g) # {}
  PROVE  /\ Placement(g, Adaptive(g))
         /\ \A w \in Eligible(g) : NoWorse(g, Adaptive(g), Pack(g, w))
<1> DEFINE c == CandidatePlacements(g)
           entry == [k \in DOMAIN c |-> [name |-> k, score |-> Score(g, c[k])]]
           scores == {[name |-> k, score |-> Score(g, c[k])] : k \in DOMAIN c}
           R == {p \in scores \X scores : Before(p[1], p[2])}
<1>1. /\ DOMAIN c \in SUBSET Int /\ IsFiniteSet(DOMAIN c) /\ DOMAIN c # {}
      /\ \A k \in DOMAIN c : Placement(g, c[k])
      /\ \A w \in Eligible(g) : \E k \in DOMAIN c : c[k] = Pack(g, w)
  BY CandidatesAre
<1> HIDE DEF c
<1>2. \A k \in DOMAIN c : Score(g, c[k]).num \in Int /\ Score(g, c[k]).den \in Nat \ {0}
  <2> TAKE k \in DOMAIN c
  <2>1. Placement(g, c[k])
    BY <1>1
  <2>2. Score(g, c[k]).num \in Nat /\ Score(g, c[k]).den = Total(g, c[k])
    BY <2>1, ScoreIs
  <2>3. Total(g, c[k]) \in Nat \ {0}
    BY <2>1, LoadsAre
  <2> QED BY <2>2, <2>3
<1>3. IsFiniteSet(scores) /\ scores # {}
  <2>1. entry \in Surjection(DOMAIN c, scores)
    BY DEF Surjection
  <2> HIDE DEF entry
  <2>2. IsFiniteSet(scores)
    <3> HIDE DEF scores
    <3> QED BY <1>1, <2>1, FS_Surjection
  <2> QED BY <1>1, <2>2
<1>4. \A s \in scores : /\ s.name \in DOMAIN c /\ s.name \in Int
                        /\ s.score = Score(g, c[s.name])
                        /\ s.score.num \in Int /\ s.score.den \in Nat \ {0}
  BY <1>1, <1>2
<1>5. \A k \in DOMAIN c : \E s \in scores : s.name = k /\ s.score = Score(g, c[k])
  <2> TAKE k \in DOMAIN c
  <2>1. [name |-> k, score |-> Score(g, c[k])] \in scores
    OBVIOUS
  <2> WITNESS [name |-> k, score |-> Score(g, c[k])] \in scores
  <2> QED OBVIOUS
<1>6. \A s, t \in scores : <<s, t>> \in R <=> Before(s, t)
  <2> HIDE DEF scores
  <2> QED OBVIOUS
<1> HIDE DEF scores, R
<1>7. \A s, t \in scores : Before(s, t) \/ Before(t, s)
  <2> TAKE s, t \in scores
  <2> DEFINE p == s.score.num * t.score.den
             q == t.score.num * s.score.den
  <2>1. p \in Int /\ q \in Int /\ s.name \in Int /\ t.name \in Int
    BY <1>4
  <2>2. p < q \/ q < p \/ p = q
    <3> HIDE DEF p, q
    <3> QED BY <2>1
  <2>3. s.name <= t.name \/ t.name <= s.name
    BY <2>1
  <2> QED BY <2>2, <2>3 DEF Before
<1>8. ASSUME NEW s \in scores, NEW t \in scores, NEW u \in scores, Before(s, t), Before(t, u)
      PROVE  Before(s, u)
  <2> DEFINE a == s.score.num
             b == s.score.den
             cc == t.score.num
             d == t.score.den
             e == u.score.num
             f == u.score.den
  <2>1. /\ a \in Int /\ cc \in Int /\ e \in Int
        /\ b \in Nat \ {0} /\ d \in Nat \ {0} /\ f \in Nat \ {0}
        /\ s.name \in Int /\ t.name \in Int /\ u.name \in Int
    BY <1>4
  <2>2. /\ a * d < cc * b \/ (a * d = cc * b /\ s.name <= t.name)
        /\ cc * f < e * d \/ (cc * f = e * d /\ t.name <= u.name)
    BY <1>8 DEF Before
  <2>3. Before(s, u) <=> a * f < e * b \/ (a * f = e * b /\ s.name <= u.name)
    BY DEF Before
  <2> HIDE DEF a, b, cc, d, e, f
  <2>4. a * d \in Int /\ cc * b \in Int /\ cc * f \in Int /\ e * d \in Int
        /\ a * f \in Int /\ e * b \in Int
    BY <2>1
  <2>5. a * d <= cc * b /\ cc * f <= e * d
    BY <2>2, <2>4
  <2>6. /\ a * f <= e * b
        /\ a * d < cc * b \/ cc * f < e * d => a * f < e * b
    BY <2>1, <2>5, Fractions
  <2>7. CASE a * d < cc * b \/ cc * f < e * d
    BY <2>3, <2>6, <2>7
  <2>8. CASE s.name <= t.name /\ t.name <= u.name
    <3>1. s.name <= u.name
      BY <2>1, <2>8
    <3>2. a * f < e * b \/ a * f = e * b
      BY <2>4, <2>6
    <3> QED BY <2>3, <3>1, <3>2
  <2> QED BY <2>2, <2>7, <2>8
<1>9. \E s \in scores : \A t \in scores : Before(s, t)
  <2>1. \A s, t \in scores : <<s, t>> \in R \/ <<t, s>> \in R
    BY <1>6, <1>7
  <2>2. \A s, t, u \in scores : <<s, t>> \in R /\ <<t, u>> \in R => <<s, u>> \in R
    BY <1>6, <1>8
  <2>3. \E s \in scores : \A t \in scores : <<s, t>> \in R
    BY <1>3, <2>1, <2>2, LeastExists
  <2> QED BY <1>6, <2>3
<1> DEFINE least == CHOOSE s \in scores : \A t \in scores : Before(s, t)
<1>10. least \in scores /\ \A t \in scores : Before(least, t)
  BY <1>9
<1>11. Adaptive(g) = c[least.name]
  BY DEF Adaptive, c, scores
<1> HIDE DEF least
<1>12. least.name \in DOMAIN c /\ least.score = Score(g, Adaptive(g))
  BY <1>4, <1>10, <1>11
<1>13. Placement(g, Adaptive(g))
  BY <1>1, <1>11, <1>12
<1>14. ASSUME NEW w \in Eligible(g)
       PROVE  NoWorse(g, Adaptive(g), Pack(g, w))
  <2>1. PICK k \in DOMAIN c : c[k] = Pack(g, w)
    BY <1>1
  <2>2. PICK t \in scores : t.name = k /\ t.score = Score(g, Pack(g, w))
    BY <1>5, <2>1
  <2>3. /\ least.score.num \in Int /\ least.score.den \in Nat \ {0}
        /\ t.score.num \in Int /\ t.score.den \in Nat \ {0}
    BY <1>4, <1>10
  <2>4. Before(least, t)
    BY <1>10
  <2> DEFINE p == least.score.num * t.score.den
             q == t.score.num * least.score.den
  <2>5. p \in Int /\ q \in Int /\ (p < q \/ p = q)
    BY <2>3, <2>4 DEF Before
  <2>6. p <= q
    <3> HIDE DEF p, q
    <3> QED BY <2>5
  <2> QED BY <1>12, <2>2, <2>6 DEF NoWorse
<1> QED BY <1>13, <1>14

-------------------------------------------------------------------------------
(* What is never worth it: a pack on a worker that another one outdoes, and a *)
(* split that ends later than a pack.                                         *)

LEMMA PackIs ==
  ASSUME NEW g, IsGroup(g), NEW w
  PROVE  /\ Used(Pack(g, w)) = {w} /\ On(Pack(g, w), w) = Samples(g)
         /\ \A at : Placement(g, at) /\ Used(at) = {w} => at = Pack(g, w)
<1>1. Samples(g) # {}
  BY GroupIs
<1>2. Used(Pack(g, w)) = {w} /\ On(Pack(g, w), w) = Samples(g)
  BY <1>1 DEF Used, Range, On, Pack
<1>3. ASSUME NEW at, Placement(g, at), Used(at) = {w}
      PROVE  at = Pack(g, w)
  <2>1. \A i \in Samples(g) : at[i] = w
    <3> TAKE i \in Samples(g)
    <3>1. at[i] \in Used(at)
      BY <1>3 DEF Placement, Used, Range
    <3> QED BY <1>3, <3>1
  <2> QED BY <1>3, <2>1 DEF Placement, Pack
<1> QED BY <1>2, <1>3

LEMMA PackCost ==
  ASSUME WorkersOk, NEW g, IsGroup(g), NEW at, Placement(g, at), NEW w, Used(at) = {w}
  PROVE  /\ Makespan(g, at) = FinishTime(g, at, w) /\ Duplicated(g, at) = 0
         /\ Wait(at) = RiskUnit * QueueTime(w)
         /\ Cost(g, at) = WMakespan * Makespan(g, at) + WWait * Wait(at)
<1>1. Makespan(g, at) = FinishTime(g, at, w) /\ Makespan(g, at) \in Nat
  BY MakespanIs
<1>2. Duplicated(g, at) = 0
  BY DuplicatedIs
<1>3. Wait(at) = RiskUnit * QueueTime(w) /\ Wait(at) \in Nat
  BY WaitIs
<1>4. WMakespan \in Nat /\ WPrefill \in Nat /\ WWait \in Nat /\ RiskUnit \in Nat /\ Unit \in Nat
  BY WeightAssumption, WorkerAssumption
<1>5. \A m, p, u, v, n, q \in Nat : m * n + p * 0 * u * v + q = m * n + q
  OBVIOUS
<1>6. WWait * Wait(at) \in Nat
  <2>1. \A a, b \in Nat : a * b \in Nat
    OBVIOUS
  <2> QED BY <1>3, <1>4, <2>1
<1>7. Cost(g, at) = WMakespan * Makespan(g, at) + WPrefill * 0 * RiskUnit * Unit + WWait * Wait(at)
  BY <1>2 DEF Cost
<1> QED BY <1>1, <1>2, <1>3, <1>4, <1>5, <1>6, <1>7

\* A worker that outdoes another one is through with its queue first, and no slower.
Outdoes(g, x, w) ==
    /\ x \in Eligible(g) /\ QueueTime(x) < QueueTime(w)
    /\ Prefill(x, g) <= Prefill(w, g) /\ PackTime(x, g) < PackTime(w, g)
    /\ \A t \in Nat : DecodeTime(x, t) <= DecodeTime(w, t)

LEMMA OutdoneIs ==
  ASSUME WorkersOk, NEW g, IsGroup(g), NEW w \in Eligible(g), Outdone(g, w)
  PROVE  \E x : Outdoes(g, x, w)
<1>1. PICK x \in Eligible(g) :
        /\ workers[x].prefill <= workers[w].prefill /\ workers[x].decode <= workers[w].decode
        /\ workers[x].prefill_rate >= workers[w].prefill_rate
        /\ workers[x].decode_rate >= workers[w].decode_rate
        /\ workers[x].matched >= workers[w].matched
        /\ workers[x].prefill + workers[x].decode < workers[w].prefill + workers[w].decode
  BY DEF Outdone
<1>2. x \in Workers /\ w \in Workers
  BY EligibleAre
<1> DEFINE p == Unit \div workers[x].prefill_rate
           q == Unit \div workers[w].prefill_rate
           d == Unit \div workers[x].decode_rate
           e == Unit \div workers[w].decode_rate
           a == workers[x].prefill
           b == workers[w].prefill
           k == workers[x].decode
           l == workers[w].decode
<1>3. /\ p \in Nat \ {0} /\ q \in Nat \ {0} /\ d \in Nat \ {0} /\ e \in Nat \ {0}
      /\ p <= q /\ d <= e
  <2>1. p \in Nat \ {0} /\ d \in Nat \ {0}
    BY <1>2, WorkerIs
  <2>2. q \in Nat \ {0} /\ e \in Nat \ {0}
    BY <1>2, WorkerIs
  <2>3. p <= q /\ d <= e
    BY <1>1, <1>2, WorkerIs
  <2> QED BY <2>1, <2>2, <2>3
<1>4. /\ a \in Nat /\ b \in Nat /\ k \in Nat /\ l \in Nat
      /\ workers[x].matched \in Nat /\ workers[w].matched \in Nat
  BY <1>2, WorkerIs DEF Reports
<1>5. a <= b /\ k <= l /\ a + k < b + l
  BY <1>1
<1>6. \A t : /\ PrefillTime(x, t) = t * p /\ PrefillTime(w, t) = t * q
             /\ DecodeTime(x, t) = t * d /\ DecodeTime(w, t) = t * e
  BY DEF PrefillTime, DecodeTime
<1> HIDE DEF p, q, d, e, a, b, k, l
<1>7. \A s, t \in Nat, m, n \in Nat \ {0} :
         s <= t /\ m <= n => s * m <= t * n /\ (s < t => s * m < t * n)
  <2> TAKE s, t \in Nat, m, n \in Nat \ {0}
  <2>1. s * m \in Int /\ s * n \in Int /\ t * n \in Int /\ m * s \in Int
    OBVIOUS
  <2>2. m <= n => s * m <= s * n
    <3>1. CASE s = 0
      BY <3>1
    <3>2. CASE s # 0
      <4>1. m <= n => m * s <= n * s
        BY <3>2, Cancel
      <4>2. m * s = s * m /\ n * s = s * n
        OBVIOUS
      <4> QED BY <4>1, <4>2
    <3> QED BY <3>1, <3>2
  <2>3. (s <= t => s * n <= t * n) /\ (s < t => s * n < t * n)
    BY Cancel
  <2> QED BY <2>1, <2>2, <2>3
<1>8. QueueTime(x) < QueueTime(w)
  <2>1. QueueTime(x) = a * p + k * d /\ QueueTime(w) = b * q + l * e
    BY <1>6 DEF QueueTime, a, b, k, l
  <2>2. a * p <= b * q /\ (a < b => a * p < b * q)
    BY <1>3, <1>4, <1>5, <1>7
  <2>3. k * d <= l * e /\ (k < l => k * d < l * e)
    BY <1>3, <1>4, <1>5, <1>7
  <2>4. a < b \/ k < l
    BY <1>4, <1>5
  <2> DEFINE ap == a * p
             bq == b * q
             kd == k * d
             le == l * e
  <2>5. ap \in Int /\ bq \in Int /\ kd \in Int /\ le \in Int
    BY <1>3, <1>4
  <2>6. ap <= bq /\ kd <= le /\ (ap < bq \/ kd < le)
    BY <2>2, <2>3, <2>4
  <2> HIDE DEF ap, bq, kd, le
  <2>7. ap + kd < bq + le
    BY <2>5, <2>6
  <2> QED BY <2>1, <2>7 DEF ap, bq, kd, le
<1>9. Prefill(x, g) <= Prefill(w, g) /\ Prefill(x, g) \in Nat /\ Prefill(w, g) \in Nat
  <2>1. g.prompt \in Nat
    BY GroupIs
  <2>2. /\ Matched(x, g) \in 0..g.prompt /\ Matched(w, g) \in 0..g.prompt
        /\ Prefill(x, g) \in Nat /\ Prefill(w, g) \in Nat
    BY <1>2, <2>1, TimesAre
  <2>3. \A v \in Workers : workers[v].matched \in Nat =>
           /\ Matched(v, g) = g.prompt \/ Matched(v, g) = workers[v].matched
           /\ Matched(v, g) <= workers[v].matched
    <3> TAKE v \in Workers
    <3> HAVE workers[v].matched \in Nat
    <3> DEFINE S == {g.prompt, workers[v].matched}
    <3>1. S \in SUBSET Int /\ S # {}
      BY <2>1
    <3>2. IsFiniteSet(S)
      <4>1. S = {g.prompt} \union {workers[v].matched} /\ IsFiniteSet({g.prompt})
        BY FS_Singleton
      <4> QED BY <4>1, FS_AddElement
    <3>3. Matched(v, g) = Min(S)
      BY DEF Matched
    <3> HIDE DEF S
    <3>4. Matched(v, g) \in S /\ \A y \in S : Matched(v, g) <= y
      BY <3>1, <3>2, <3>3, MinIs
    <3> QED BY <3>4 DEF S
  <2>4. Matched(x, g) >= Matched(w, g)
    BY <1>1, <1>2, <1>4, <2>1, <2>2, <2>3
  <2> QED BY <2>1, <2>2, <2>4 DEF Prefill
<1>10. PackTime(x, g) < PackTime(w, g)
  <2>1. Prefill(x, g) * p <= Prefill(w, g) * q
    BY <1>3, <1>7, <1>9
  <2>2. /\ PrefillTime(x, Prefill(x, g)) = Prefill(x, g) * p
        /\ PrefillTime(w, Prefill(w, g)) = Prefill(w, g) * q
    BY <1>6
  <2>3. QueueTime(x) \in Int /\ QueueTime(w) \in Int
    BY <1>2, TimesAre, GroupIs
  <2> DEFINE y == Prefill(x, g) * p
             z == Prefill(w, g) * q
  <2>4. y \in Int /\ z \in Int
    BY <1>3, <1>9
  <2> HIDE DEF y, z
  <2>5. y <= z
    BY <2>1 DEF y, z
  <2>6. QueueTime(x) + y < QueueTime(w) + z
    BY <1>8, <2>3, <2>4, <2>5
  <2> QED BY <2>2, <2>6 DEF PackTime, y, z
<1>11. \A t \in Nat : DecodeTime(x, t) <= DecodeTime(w, t)
  BY <1>3, <1>6, <1>7
<1> QED BY <1>1, <1>8, <1>9, <1>10, <1>11 DEF Outdoes

LEMMA FixedPackNotOutdone ==
  ASSUME WorkersOk, NEW g, IsGroup(g), Eligible(g) # {}, NEW w, Used(FixedPack(g)) = {w}
  PROVE  ~Outdone(g, w)
<1>1. PICK v \in Eligible(g) : /\ FixedPack(g) = Pack(g, v)
                              /\ \A x \in Eligible(g) : PackTime(v, g) <= PackTime(x, g)
  BY FixedPackIs
<1>2. v = w
  BY <1>1, PackIs
<1>3. \A x \in Eligible(g) : PackTime(x, g) \in Nat
  <2> TAKE x \in Eligible(g)
  <2>1. Placement(g, Pack(g, x)) /\ x \in Workers
    BY PackIn, EligibleAre
  <2> QED BY <2>1, FinishIs
<1>4. ASSUME NEW x, Outdoes(g, x, w)
      PROVE  FALSE
  <2>1. x \in Eligible(g) /\ PackTime(x, g) < PackTime(w, g)
    BY <1>4 DEF Outdoes
  <2> QED BY <1>1, <1>2, <1>3, <2>1
<1> QED BY <1>1, <1>2, <1>4, OutdoneIs

LEMMA AdaptiveNotOutdone ==
  ASSUME WorkersOk, NEW g, IsGroup(g), Eligible(g) # {}, NEW w, Used(Adaptive(g)) = {w}
  PROVE  ~Outdone(g, w)
<1> DEFINE at == Pack(g, w)
<1>1. /\ Placement(g, Adaptive(g))
      /\ \A x \in Eligible(g) : NoWorse(g, Adaptive(g), Pack(g, x))
  BY AdaptiveIs
<1>2. Adaptive(g) = at /\ w \in Eligible(g)
  <2>1. Adaptive(g) = at
    BY <1>1, PackIs
  <2>2. Used(Adaptive(g)) \in SUBSET Eligible(g)
    BY <1>1, UsedAre
  <2> QED BY <2>1, <2>2
<1> HIDE DEF at
<1>3. ASSUME NEW x, Outdoes(g, x, w)
      PROVE  FALSE
  <2> DEFINE bt == Pack(g, x)
  <2>1. /\ x \in Eligible(g) /\ QueueTime(x) < QueueTime(w)
        /\ Prefill(x, g) <= Prefill(w, g) /\ PackTime(x, g) < PackTime(w, g)
        /\ \A t \in Nat : DecodeTime(x, t) <= DecodeTime(w, t)
    BY <1>3 DEF Outdoes
  <2>2. x \in Workers /\ w \in Workers
    BY <1>2, <2>1, EligibleAre
  <2>3. /\ Placement(g, at) /\ Placement(g, bt) /\ NoWorse(g, at, bt)
    BY <1>1, <1>2, <2>1, PackIn
  <2>4. /\ Used(at) = {w} /\ On(at, w) = Samples(g)
        /\ Used(bt) = {x} /\ On(bt, x) = Samples(g)
    BY PackIs DEF at
  <2> HIDE DEF bt
  <2>5. /\ Share(g, at) \in Nat /\ Total(g, at) \in Nat \ {0}
        /\ Share(g, at) = Loads(g, at)[w] /\ Loads(g, at)[w] <= Total(g, at)
        /\ Loads(g, at)[w] # 0 => Total(g, at) = Loads(g, at)[w]
    BY <2>3, <2>4, LoadsAre
  <2>6. /\ Share(g, bt) \in Nat /\ Total(g, bt) \in Nat \ {0}
        /\ Share(g, bt) = Loads(g, bt)[x] /\ Loads(g, bt)[x] <= Total(g, bt)
        /\ Loads(g, bt)[x] # 0 => Total(g, bt) = Loads(g, bt)[x]
    BY <2>3, <2>4, LoadsAre
  <2>7. Loads(g, bt)[x] <= Loads(g, at)[w]
    <3>1. /\ Loads(g, at)[w] = SumOf(g.p90, Samples(g)) + Prefill(w, g)
          /\ Loads(g, bt)[x] = SumOf(g.p90, Samples(g)) + Prefill(x, g)
      BY <2>4 DEF Loads
    <3>2. SumOf(g.p90, Samples(g)) \in Nat
      BY <2>3, <2>4, TokensOnAre
    <3>3. Prefill(x, g) \in Nat /\ Prefill(w, g) \in Nat
      BY <2>2, TimesAre, GroupIs
    <3> QED BY <2>1, <3>1, <3>2, <3>3
  <2>8. Share(g, bt) * Total(g, at) <= Share(g, at) * Total(g, bt)
    <3> DEFINE K == Share(g, at)
               L == Share(g, bt)
               T == Total(g, at)
               V == Total(g, bt)
    <3>1. /\ K \in Nat /\ L \in Nat /\ T \in Nat \ {0} /\ V \in Nat \ {0} /\ L <= K
          /\ (K # 0 => T = K) /\ (L # 0 => V = L)
      BY <2>5, <2>6, <2>7
    <3> HIDE DEF K, L, T, V
    <3>2. CASE L = 0
      <4>1. L * T = 0 /\ K * V >= 0
        BY <3>1, <3>2
      <4> QED BY <4>1 DEF K, L, T, V
    <3>3. CASE L # 0
      <4>1. T = K /\ V = L
        BY <3>1, <3>3
      <4>2. L * K <= K * L
        BY <3>1
      <4> QED BY <4>1, <4>2 DEF K, L, T, V
    <3> QED BY <3>2, <3>3
  <2>9. Cost(g, at) <= Cost(g, bt)
    BY <2>3, <2>8, CostsLess
  <2>10. /\ Makespan(g, at) = FinishTime(g, at, w) /\ Wait(at) = RiskUnit * QueueTime(w)
         /\ Cost(g, at) = WMakespan * Makespan(g, at) + WWait * Wait(at)
    BY <2>3, <2>4, PackCost
  <2>11. /\ Makespan(g, bt) = FinishTime(g, bt, x) /\ Wait(bt) = RiskUnit * QueueTime(x)
         /\ Cost(g, bt) = WMakespan * Makespan(g, bt) + WWait * Wait(bt)
    BY <2>3, <2>4, PackCost
  <2>12. WMakespan \in Nat \ {0} /\ WWait \in Nat /\ RiskUnit \in Nat \ {0}
    BY WeightAssumption
  <2>13. /\ PackTime(w, g) \in Nat /\ Expected(g, at, w) \in Nat
         /\ FinishTime(g, at, w) = RiskUnit * PackTime(w, g) + DecodeTime(w, Expected(g, at, w))
    BY <2>2, <2>3, FinishIs
  <2>14. /\ PackTime(x, g) \in Nat /\ Expected(g, bt, x) = Expected(g, at, w)
         /\ FinishTime(g, bt, x) = RiskUnit * PackTime(x, g) + DecodeTime(x, Expected(g, at, w))
    <3>1. Expected(g, bt, x) = Expected(g, at, w)
      BY <2>4 DEF Expected
    <3> QED BY <2>2, <2>3, <3>1, FinishIs
  <2> DEFINE f == DecodeTime(w, Expected(g, at, w))
             h == DecodeTime(x, Expected(g, at, w))
             p == RiskUnit * PackTime(w, g)
             q == RiskUnit * PackTime(x, g)
  <2>15. f \in Nat /\ h \in Nat /\ h <= f
    BY <2>1, <2>2, <2>13, TimesAre, GroupIs
  <2>16. p \in Nat /\ q \in Nat /\ q < p
    <3>1. PackTime(x, g) * RiskUnit < PackTime(w, g) * RiskUnit
      BY <2>1, <2>12, <2>13, <2>14, Cancel
    <3>2. \A a, b \in Nat : a * b = b * a /\ a * b \in Nat
      OBVIOUS
    <3> QED BY <2>12, <2>13, <2>14, <3>1, <3>2
  <2>17. /\ Makespan(g, bt) < Makespan(g, at)
         /\ Makespan(g, at) \in Nat /\ Makespan(g, bt) \in Nat
    <3>1. FinishTime(g, at, w) = p + f /\ FinishTime(g, bt, x) = q + h
      BY <2>13, <2>14
    <3> HIDE DEF p, q, f, h
    <3> QED BY <2>10, <2>11, <2>15, <2>16, <3>1
  <2>18. Wait(bt) <= Wait(at) /\ Wait(at) \in Nat /\ Wait(bt) \in Nat
    <3>1. QueueTime(x) \in Nat /\ QueueTime(w) \in Nat
      BY <2>2, TimesAre, GroupIs
    <3>2. QueueTime(x) * RiskUnit <= QueueTime(w) * RiskUnit
      BY <2>1, <2>12, <3>1, Cancel
    <3>3. \A a, b \in Nat : a * b = b * a /\ a * b \in Nat
      OBVIOUS
    <3> QED BY <2>10, <2>11, <2>12, <3>1, <3>2, <3>3
  <2> DEFINE m == WMakespan * Makespan(g, at)
             n == WMakespan * Makespan(g, bt)
             o == WWait * Wait(at)
             r == WWait * Wait(bt)
  <2>19. m \in Int /\ n \in Int /\ n < m
    <3>1. Makespan(g, bt) * WMakespan < Makespan(g, at) * WMakespan
      BY <2>12, <2>17, Cancel
    <3>2. \A a, b \in Nat : a * b = b * a /\ a * b \in Nat
      OBVIOUS
    <3> QED BY <2>12, <2>17, <3>1, <3>2
  <2>20. o \in Int /\ r \in Int /\ r <= o
    <3>1. \A a, b \in Nat : a * b \in Nat /\ a * b = b * a
      OBVIOUS
    <3>2. CASE WWait = 0
      <4>1. \A a \in Nat : 0 * a = 0
        OBVIOUS
      <4> QED BY <2>18, <3>2, <4>1
    <3>3. CASE WWait # 0
      <4>1. Wait(bt) * WWait <= Wait(at) * WWait
        BY <2>12, <2>18, <3>3, Cancel
      <4> QED BY <2>12, <2>18, <3>1, <4>1
    <3> QED BY <3>2, <3>3
  <2>21. Cost(g, at) = m + o /\ Cost(g, bt) = n + r
    BY <2>10, <2>11
  <2> HIDE DEF m, n, o, r
  <2> QED BY <2>9, <2>19, <2>20, <2>21
<1> QED BY <1>2, <1>3, OutdoneIs

\* The adaptive placement ends no later than a pack on one of the workers it uses.
LEMMA AdaptivePays ==
  ASSUME WorkersOk, NEW g, IsGroup(g), Eligible(g) # {},
         NEW w \in Used(Adaptive(g)), NEW x \in Used(Adaptive(g))
  PROVE  FinishTime(g, Adaptive(g), x) <= FinishTime(g, Pack(g, w), w)
<1> DEFINE at == Adaptive(g)
           bt == Pack(g, w)
<1>1. Placement(g, at) /\ \A v \in Eligible(g) : NoWorse(g, at, Pack(g, v))
  BY AdaptiveIs
<1> HIDE DEF at
<1>2. w \in Used(at) /\ w \in Eligible(g) /\ w \in Workers
  <2>1. Used(at) \in SUBSET Eligible(g) /\ Used(at) \in SUBSET Workers
    BY <1>1, UsedAre
  <2> QED BY <2>1 DEF at
<1>3. Placement(g, bt) /\ NoWorse(g, at, bt)
  BY <1>1, <1>2, PackIn
<1>4. Used(bt) = {w} /\ On(bt, w) = Samples(g)
  BY PackIs
<1> HIDE DEF bt
<1> DEFINE K == Share(g, at)
           L == Share(g, bt)
           T == Total(g, at)
           V == Total(g, bt)
           most == Max(Range(Loads(g, at)))
<1>5. /\ most \in Nat /\ K \in Nat /\ T \in Nat \ {0} /\ (most = 0 \/ T <= K)
      /\ \A v \in Used(at) : Loads(g, at)[v] \in Nat /\ Loads(g, at)[v] <= most
  BY <1>1, LoadsAre
<1>6. /\ L \in Nat /\ V \in Nat \ {0} /\ L = Loads(g, bt)[w] /\ (L # 0 => V = L)
  BY <1>3, <1>4, LoadsAre
<1> HIDE DEF K, T, L, V, most
\* Where a pack has a load, one of the workers of the split has one.
<1>7. L # 0 => most # 0
  <2> SUFFICES ASSUME most = 0 PROVE L = 0
    OBVIOUS
  <2>1. \A v \in Used(at) : SumOf(g.p90, On(at, v)) = 0 /\ Prefill(v, g) = 0
    <3> TAKE v \in Used(at)
    <3>1. Loads(g, at)[v] = SumOf(g.p90, On(at, v)) + Prefill(v, g) /\ Loads(g, at)[v] = 0
      BY <1>5 DEF Loads
    <3>2. Prefill(v, g) \in Nat
      <4>1. v \in Workers
        BY <1>1, UsedAre
      <4> QED BY <4>1, TimesAre, GroupIs
    <3>3. SumOf(g.p90, On(at, v)) \in Nat
      BY <1>1, TokensOnAre
    <3> QED BY <3>1, <3>2, <3>3
  <2>2. \A i \in Samples(g) : g.p90[i] \in Int /\ g.p90[i] <= 0
    <3> TAKE i \in Samples(g)
    <3>1. at[i] \in Used(at) /\ i \in On(at, at[i])
      BY <1>1 DEF Placement, Used, Range, On
    <3>2. On(at, at[i]) \in SUBSET Samples(g) /\ IsFiniteSet(On(at, at[i]))
      BY <1>1, UsedAre
    <3>3. \A j \in On(at, at[i]) : g.p90[j] \in Nat
      BY <3>2, GroupIs
    <3>4. g.p90[i] <= SumOf(g.p90, On(at, at[i]))
      BY <3>1, <3>2, <3>3, SumOfNaturals
    <3> QED BY <2>1, <3>1, <3>3, <3>4
  <2>3. IsFiniteSet(Samples(g)) /\ Cardinality(Samples(g)) \in Nat
    BY GroupIs, FS_CardinalityType
  <2>4. SumOf(g.p90, Samples(g)) <= 0 * Cardinality(Samples(g))
    BY <2>2, <2>3, SumOfAtMost
  <2>5. SumOf(g.p90, Samples(g)) \in Nat
    BY <1>3, <1>4, TokensOnAre
  <2>6. L = SumOf(g.p90, Samples(g)) + Prefill(w, g)
    BY <1>4, <1>6 DEF Loads
  <2>7. 0 * Cardinality(Samples(g)) = 0
    BY <2>3
  <2> QED BY <1>2, <2>1, <2>4, <2>5, <2>6, <2>7
<1>8. L * T <= K * V
  <2>1. CASE L = 0
    <3>1. L * T = 0 /\ K * V >= 0
      BY <1>5, <1>6, <2>1
    <3> QED BY <3>1
  <2>2. CASE L # 0
    <3>1. V = L /\ T <= K
      BY <1>5, <1>6, <1>7, <2>2
    <3>2. T * L <= K * L
      BY <1>5, <1>6, <2>2, <3>1, Cancel
    <3>3. L * T = T * L
      BY <1>5, <1>6
    <3> QED BY <3>1, <3>2, <3>3
  <2> QED BY <2>1, <2>2
<1>9. Cost(g, at) <= Cost(g, bt)
  BY <1>1, <1>3, <1>8, CostsLess DEF K, L, T, V
<1>10. /\ Makespan(g, bt) = FinishTime(g, bt, w) /\ Wait(bt) = RiskUnit * QueueTime(w)
       /\ Cost(g, bt) = WMakespan * Makespan(g, bt) + WWait * Wait(bt)
  BY <1>3, <1>4, PackCost
<1>11. /\ Makespan(g, at) \in Nat /\ FinishTime(g, at, x) <= Makespan(g, at)
       /\ FinishTime(g, at, x) \in Nat
  <2>1. x \in Used(at)
    BY DEF at
  <2>2. x \in Workers
    BY <1>1, <2>1, UsedAre
  <2> QED BY <1>1, <2>1, <2>2, MakespanIs, FinishIs
<1>12. Duplicated(g, at) \in Nat /\ Wait(at) \in Nat /\ RiskUnit * QueueTime(w) <= Wait(at)
  BY <1>1, <1>2, DuplicatedIs, WaitIs
<1>13. Makespan(g, bt) \in Nat /\ Wait(bt) \in Nat
  BY <1>3, MakespanIs, WaitIs
<1>14. /\ WMakespan \in Nat \ {0} /\ WPrefill \in Nat /\ WWait \in Nat
       /\ RiskUnit \in Nat /\ Unit \in Nat
  BY WeightAssumption, WorkerAssumption
<1> DEFINE m == WMakespan * Makespan(g, at)
           n == WMakespan * Makespan(g, bt)
           d == WPrefill * Duplicated(g, at) * RiskUnit * Unit
           o == WWait * Wait(at)
           r == WWait * Wait(bt)
<1>15. m \in Nat /\ n \in Nat /\ d \in Nat /\ o \in Nat /\ r \in Nat
  <2>1. \A a, b \in Nat : a * b \in Nat
    OBVIOUS
  <2> QED BY <1>11, <1>12, <1>13, <1>14, <2>1
<1>16. r <= o
  <2>1. Wait(bt) <= Wait(at)
    BY <1>10, <1>12
  <2>2. CASE WWait = 0
    <3>1. \A a \in Nat : 0 * a = 0
      OBVIOUS
    <3> QED BY <1>12, <1>13, <2>2, <3>1
  <2>3. CASE WWait # 0
    <3>1. Wait(bt) * WWait <= Wait(at) * WWait
      BY <1>12, <1>13, <1>14, <2>1, <2>3, Cancel
    <3>2. \A a, b \in Nat : a * b = b * a
      OBVIOUS
    <3> QED BY <1>12, <1>13, <1>14, <3>1, <3>2
  <2> QED BY <2>2, <2>3
<1>17. Cost(g, at) = m + d + o /\ Cost(g, bt) = n + r
  BY <1>10 DEF Cost
<1>18. m <= n
  <2> HIDE DEF m, n, d, o, r
  <2> QED BY <1>9, <1>15, <1>16, <1>17
<1>19. Makespan(g, at) <= Makespan(g, bt)
  <2>1. \A a, b \in Nat : a * b = b * a
    OBVIOUS
  <2>2. Makespan(g, at) * WMakespan <= Makespan(g, bt) * WMakespan
    BY <1>11, <1>13, <1>14, <1>18, <2>1
  <2> QED BY <1>11, <1>13, <1>14, <2>2, Cancel
<1>20. FinishTime(g, at, x) <= FinishTime(g, bt, w)
  BY <1>10, <1>11, <1>13, <1>19
<1> QED BY <1>20 DEF at, bt

-------------------------------------------------------------------------------
(* The decisions of a run. *)

Packing == {"fixed-pack", "adaptive-group", "offline-oracle"}

\* What holds of a decision, as long as the workers it was made for do not change.
Sound(policy, g, at) ==
    /\ Placement(g, at)
    /\ policy \in Balancing => Balanced(policy, g, at)
    /\ policy \in Packing => \A w : Used(at) = {w} => ~Outdone(g, w)
    /\ policy = "adaptive-group" =>
          \A w, x \in Used(at) : FinishTime(g, at, x) <= FinishTime(g, Pack(g, w), w)

LEMMA StillSound ==
  ASSUME NEW policy, NEW g, NEW at, UNCHANGED workers, Sound(policy, g, at)
  PROVE  Sound(policy, g, at)'
<1>1. Eligible(g)' = Eligible(g)
  BY DEF Eligible
<1>2. Placement(g, at)' <=> Placement(g, at)
  BY <1>1 DEF Placement
<1>3. \A w : /\ QueueTime(w)' = QueueTime(w) /\ LoadBefore(policy, w)' = LoadBefore(policy, w)
             /\ \A i : LoadAdded(policy, w, g, i)' = LoadAdded(policy, w, g, i)
  <2>1. \A w : \A t : DecodeTime(w, t)' = DecodeTime(w, t)
    BY DEF DecodeTime
  <2>2. \A w : QueueTime(w)' = QueueTime(w)
    BY DEF QueueTime, PrefillTime, DecodeTime
  <2>3. \A w : LoadBefore(policy, w)' = LoadBefore(policy, w)
    BY <2>2 DEF LoadBefore
  <2>4. \A w : \A i : LoadAdded(policy, w, g, i)' = LoadAdded(policy, w, g, i)
    BY <2>1 DEF LoadAdded
  <2> QED BY <2>2, <2>3, <2>4
<1>4. Balanced(policy, g, at)' <=> Balanced(policy, g, at)
  <2> DEFINE added(w) == [i \in Samples(g) |-> LoadAdded(policy, w, g, i)]
  <2>1. \A w : added(w)' = added(w)
    BY <1>3
  <2>2. \A w : SumOf(added(w), On(at, w))' = SumOf(added(w), On(at, w))
    BY <2>1
  <2>3. LoadAfter(policy, g, at)' = LoadAfter(policy, g, at)
    BY <1>1, <1>3, <2>2 DEF LoadAfter
  <2> QED BY <1>1, <1>3, <2>3 DEF Balanced
<1>5. \A w : Outdone(g, w)' <=> Outdone(g, w)
  BY <1>1 DEF Outdone
<1>6. \A bt, w : FinishTime(g, bt, w)' = FinishTime(g, bt, w)
  BY DEF FinishTime, QueueTime, PrefillTime, DecodeTime, Prefill, Matched
<1> QED BY <1>2, <1>4, <1>5, <1>6 DEF Sound

\* Each policy decides soundly.
LEMMA PoliciesSound ==
  ASSUME WorkersOk, NEW g, IsGroup(g), Eligible(g) # {}
  PROVE  /\ Sound("fixed-pack", g, FixedPack(g))
         /\ Sound("fixed-even-split", g, EvenSplit(g))
         /\ Sound("least-queued-tokens", g, LeastQueuedTokens(g))
         /\ Sound("least-requests", g, LeastRequests(g))
         /\ Sound("cache-aware-group", g, CacheAwareGroup(g))
         /\ Sound("load-proportional-split", g, LoadProportional(g))
         /\ Sound("adaptive-group", g, Adaptive(g))
<1>1. Sound("fixed-pack", g, FixedPack(g))
  <2>1. Placement(g, FixedPack(g))
    BY FixedPackIs, PackIn
  <2>2. \A w : Used(FixedPack(g)) = {w} => ~Outdone(g, w)
    BY FixedPackNotOutdone
  <2> QED BY <2>1, <2>2 DEF Sound, Balancing
<1>2. Sound("fixed-even-split", g, EvenSplit(g))
  BY EvenSplitIn DEF Sound, Balancing, Packing
<1>3. Sound("least-queued-tokens", g, LeastQueuedTokens(g))
  BY LeastQueuedTokensIs DEF Sound, Balancing, Packing
<1>4. Sound("least-requests", g, LeastRequests(g))
  BY LeastRequestsIs DEF Sound, Balancing, Packing
<1>5. Sound("cache-aware-group", g, CacheAwareGroup(g))
  BY CacheAwareIn DEF Sound, Balancing, Packing
<1>6. Sound("load-proportional-split", g, LoadProportional(g))
  BY LoadProportionalIs DEF Sound, Balancing, Packing
<1>7. Sound("adaptive-group", g, Adaptive(g))
  <2>1. Placement(g, Adaptive(g))
    BY AdaptiveIs
  <2>2. \A w : Used(Adaptive(g)) = {w} => ~Outdone(g, w)
    BY AdaptiveNotOutdone
  <2>3. \A w, x \in Used(Adaptive(g)) :
           FinishTime(g, Adaptive(g), x) <= FinishTime(g, Pack(g, w), w)
    BY AdaptivePays
  <2> QED BY <2>1, <2>2, <2>3 DEF Sound, Balancing
<1> QED BY <1>1, <1>2, <1>3, <1>4, <1>5, <1>6, <1>7

\* The oracle decides as the adaptive policy does for a group that it knows better.
LEMMA OracleSound ==
  ASSUME WorkersOk, NEW g, IsGroup(g), Eligible(g) # {}
  PROVE  Sound("offline-oracle", g, Oracle(g))
<1> DEFINE h == [g EXCEPT !.mean = g.p90]
<1>1. /\ IsGroup(h) /\ h.version = g.version /\ h.prompt = g.prompt /\ h.p90 = g.p90
  BY DEF IsGroup, Requests
<1>2. Oracle(g) = Adaptive(h)
  BY DEF Oracle
<1> HIDE DEF h
<1>3. Eligible(h) = Eligible(g) /\ Samples(h) = Samples(g)
  BY <1>1 DEF Eligible, Samples
<1>4. Placement(g, Oracle(g))
  <2>1. Placement(h, Adaptive(h))
    BY <1>1, <1>3, AdaptiveIs
  <2> QED BY <1>2, <1>3, <2>1 DEF Placement
<1>5. \A w : Used(Oracle(g)) = {w} => ~Outdone(g, w)
  <2> TAKE w
  <2> HAVE Used(Oracle(g)) = {w}
  <2>1. ~Outdone(h, w)
    BY <1>1, <1>2, <1>3, AdaptiveNotOutdone
  <2> QED BY <1>3, <2>1 DEF Outdone
<1> QED BY <1>4, <1>5 DEF Sound, Balancing

LEMMA PowerOfTwoSound ==
  ASSUME WorkersOk, NEW g, IsGroup(g), Eligible(g) # {}, NEW draw \in Seq(Nat \X Nat),
         Len(draw) = Requests(g)
  PROVE  Sound("power-of-two", g, PowerOfTwo(g, draw))
BY PowerOfTwoIs DEF Sound, Balancing, Packing

LEMMA RoundRobinSound ==
  ASSUME NEW g, IsGroup(g), Eligible(g) # {}, counter \in Nat
  PROVE  Sound("round-robin", g, Rotate(g, counter))
BY RotateIn DEF Sound, Balancing, Packing

-------------------------------------------------------------------------------
\* The last decision is sound for the workers as they are.
Decisions ==
    placed # Nothing =>
        \E policy, at : \E g \in Rollouts :
            placed = [policy |-> policy, group |-> g, at |-> at] /\ Sound(policy, g, at)

PlacementInv == WorkersOk /\ counter \in Nat /\ Decisions

LEMMA RolloutIs ==
  ASSUME NEW g \in Rollouts
  PROVE  IsGroup(g) /\ \A draw \in Digests : draw \in Seq(Nat \X Nat) /\ Len(draw) = Requests(g)
BY GroupAssumption DEF IsGroup

LEMMA DecidesSoundly ==
  ASSUME PlacementInv, NEW policy, NEW g \in Rollouts, NEW at,
         Decide(policy, g, at), Sound(policy, g, at)
  PROVE  WorkersOk' /\ Decisions'
<1>1. placed' = [policy |-> policy, group |-> g, at |-> at] /\ UNCHANGED workers
  BY DEF Decide
<1>2. WorkersOk'
  BY <1>1 DEF PlacementInv, WorkersOk
<1>3. Sound(policy, g, at)'
  BY <1>1, StillSound
<1>4. Decisions'
  BY <1>1, <1>3 DEF Decisions
<1> QED BY <1>2, <1>4

LEMMA PlacesSoundly ==
  ASSUME PlacementInv, NEW policy, NEW g \in Rollouts, NEW at,
         Place(policy, g, at), Sound(policy, g, at)
  PROVE  PlacementInv'
<1>1. Decide(policy, g, at) /\ counter' = counter
  BY DEF Place
<1>2. WorkersOk' /\ Decisions'
  BY <1>1, DecidesSoundly
<1> QED BY <1>1, <1>2 DEF PlacementInv

\* Every decision is sound, and stays so until a worker changes.
THEOREM PlacementInvariant == Spec => []PlacementInv
<1>1. Init => PlacementInv
  BY DEF Init, PlacementInv, WorkersOk, Decisions
<1>2. PlacementInv /\ [Next]_placementVars => PlacementInv'
  <2> SUFFICES ASSUME PlacementInv, [Next]_placementVars
               PROVE  PlacementInv'
    OBVIOUS
  <2> USE DEF PlacementInv
  <2>1. ASSUME NEW w \in Workers, NEW state \in WorkerStates, Report(w, state)
        PROVE  PlacementInv'
    BY <2>1 DEF Report, WorkersOk, Decisions
  <2>2. ASSUME NEW g \in Rollouts, RoundRobin(g)
        PROVE  PlacementInv'
    <3>1. /\ Eligible(g) # {} /\ Decide("round-robin", g, Rotate(g, counter))
          /\ counter' = (counter + 1) % TurnCap
      BY <2>2 DEF RoundRobin
    <3>2. counter' \in Nat
      BY <3>1, TurnAssumption, DivMod
    <3>3. Sound("round-robin", g, Rotate(g, counter))
      BY <3>1, RolloutIs, RoundRobinSound
    <3> QED BY <3>1, <3>2, <3>3, DecidesSoundly
  <2>3. ASSUME NEW g \in Rollouts, NEW policy, NEW at, Place(policy, g, at)
        PROVE  Eligible(g) # {} /\ IsGroup(g)
    BY <2>3, RolloutIs DEF Place
  <2>4. ASSUME NEW g \in Rollouts, Place("fixed-pack", g, FixedPack(g))
        PROVE  PlacementInv'
    BY <2>3, <2>4, PoliciesSound, PlacesSoundly
  <2>5. ASSUME NEW g \in Rollouts, Place("fixed-even-split", g, EvenSplit(g))
        PROVE  PlacementInv'
    BY <2>3, <2>5, PoliciesSound, PlacesSoundly
  <2>6. ASSUME NEW g \in Rollouts, Place("least-queued-tokens", g, LeastQueuedTokens(g))
        PROVE  PlacementInv'
    BY <2>3, <2>6, PoliciesSound, PlacesSoundly
  <2>7. ASSUME NEW g \in Rollouts, Place("least-requests", g, LeastRequests(g))
        PROVE  PlacementInv'
    BY <2>3, <2>7, PoliciesSound, PlacesSoundly
  <2>8. ASSUME NEW g \in Rollouts, Place("cache-aware-group", g, CacheAwareGroup(g))
        PROVE  PlacementInv'
    BY <2>3, <2>8, PoliciesSound, PlacesSoundly
  <2>9. ASSUME NEW g \in Rollouts, NEW draw \in Digests, Place("power-of-two", g, PowerOfTwo(g, draw))
        PROVE  PlacementInv'
    <3>1. Sound("power-of-two", g, PowerOfTwo(g, draw))
      BY <2>3, <2>9, RolloutIs, PowerOfTwoSound
    <3> QED BY <2>9, <3>1, PlacesSoundly
  <2>10. ASSUME NEW g \in Rollouts, Place("load-proportional-split", g, LoadProportional(g))
         PROVE  PlacementInv'
    BY <2>3, <2>10, PoliciesSound, PlacesSoundly
  <2>11. ASSUME NEW g \in Rollouts, Place("adaptive-group", g, Adaptive(g))
         PROVE  PlacementInv'
    BY <2>3, <2>11, PoliciesSound, PlacesSoundly
  <2>12. ASSUME NEW g \in Rollouts, Place("offline-oracle", g, Oracle(g))
         PROVE  PlacementInv'
    BY <2>3, <2>12, OracleSound, PlacesSoundly
  <2>13. CASE UNCHANGED placementVars
    <3>1. workers' = workers /\ counter' = counter /\ placed' = placed
      BY <2>13 DEF placementVars
    <3>2. ASSUME NEW policy, NEW at, NEW g \in Rollouts,
                 placed = [policy |-> policy, group |-> g, at |-> at], Sound(policy, g, at)
          PROVE  /\ placed' = [policy |-> policy, group |-> g, at |-> at]
                 /\ Sound(policy, g, at)'
      BY <3>1, <3>2, StillSound
    <3>3. Decisions'
      BY <3>1, <3>2 DEF Decisions
    <3> QED BY <3>1, <3>3 DEF WorkersOk
  <2> QED BY <2>1, <2>2, <2>4, <2>5, <2>6, <2>7, <2>8, <2>9, <2>10, <2>11, <2>12, <2>13 DEF Next
<1> QED BY <1>1, <1>2, PTL DEF Spec

\* Whatever the policy, a request goes to a worker that serves it.
THEOREM DecisionsServe == Spec => []PlacedOnServing
<1>1. PlacementInv => PlacedOnServing
  <2> SUFFICES ASSUME PlacementInv, placed # Nothing, NEW i \in Samples(placed.group)
               PROVE  \E w \in Workers : /\ placed.at[i] = w
                                         /\ workers[w].ready /\ workers[w].fresh
                                         /\ workers[w].version = placed.group.version
    BY DEF PlacedOnServing
  <2>1. PICK policy, at, g : /\ placed = [policy |-> policy, group |-> g, at |-> at]
                             /\ Sound(policy, g, at)
    BY DEF PlacementInv, Decisions
  <2>2. at[i] \in Eligible(g)
    BY <2>1 DEF Sound, Placement
  <2> QED BY <2>1, <2>2 DEF Eligible
<1> QED BY <1>1, PlacementInvariant, PTL

\* The four balancing policies leave no worker more than one request ahead.
THEOREM DecisionsBalance == Spec => []GreedyBalanced
<1>1. PlacementInv => GreedyBalanced
  <2> SUFFICES ASSUME PlacementInv, placed # Nothing, placed.policy \in Balancing
               PROVE  Balanced(placed.policy, placed.group, placed.at)
    BY DEF GreedyBalanced
  <2>1. PICK policy, at, g : /\ placed = [policy |-> policy, group |-> g, at |-> at]
                             /\ Sound(policy, g, at)
    BY DEF PlacementInv, Decisions
  <2>2. placed.policy = policy /\ placed.group = g /\ placed.at = at
    BY <2>1
  <2> QED BY <2>1, <2>2 DEF Sound
<1> QED BY <1>1, PlacementInvariant, PTL

\* No group is packed on a worker that another one outdoes.
THEOREM PacksNotOutdone == Spec => []PackNotOutdone
<1>1. PlacementInv => PackNotOutdone
  <2> SUFFICES ASSUME PlacementInv, placed # Nothing,
                      placed.policy \in {"fixed-pack", "adaptive-group", "offline-oracle"},
                      NEW w \in Workers, Used(placed.at) = {w}
               PROVE  ~Outdone(placed.group, w)
    BY DEF PackNotOutdone
  <2>1. PICK policy, at, g : /\ placed = [policy |-> policy, group |-> g, at |-> at]
                             /\ Sound(policy, g, at)
    BY DEF PlacementInv, Decisions
  <2>2. placed.policy = policy /\ placed.group = g /\ placed.at = at
    BY <2>1
  <2> QED BY <2>1, <2>2 DEF Sound, Packing
<1> QED BY <1>1, PlacementInvariant, PTL

\* What the adaptive policy splits ends no later than it would on one worker.
THEOREM SplitsPay == Spec => []SplitPays
<1>1. PlacementInv => SplitPays
  <2> SUFFICES ASSUME PlacementInv, placed # Nothing, placed.policy = "adaptive-group",
                      NEW w \in Used(placed.at), NEW x \in Used(placed.at)
               PROVE  FinishTime(placed.group, placed.at, x) <=
                         FinishTime(placed.group, Pack(placed.group, w), w)
    BY DEF SplitPays
  <2>1. PICK policy, at, g : /\ placed = [policy |-> policy, group |-> g, at |-> at]
                             /\ Sound(policy, g, at)
    BY DEF PlacementInv, Decisions
  <2>2. placed.policy = policy /\ placed.group = g /\ placed.at = at
    BY <2>1
  <2> QED BY <2>1, <2>2 DEF Sound
<1> QED BY <1>1, PlacementInvariant, PTL

-------------------------------------------------------------------------------
(* The turns of the round robin. *)

\* The requests a group places on the worker of rank r, in a round of n workers that
\* begins at c: one in each full round, and one more if the rest gets as far.
Ahead(n, c, r) == IF c <= r THEN r - c ELSE r - c + n

Positive(x) == IF x > 0 THEN x ELSE 0
Lesser(x, y) == IF x <= y THEN x ELSE y

\* Of t groups that began one after the other, and leave over requests each, those
\* that reached a worker that is d ahead of the next beginning.
Extra(n, over, t, d) ==
    Positive(Lesser(d + t, over - 1) - d) + Positive(Lesser(d + t, n + over - 1) - (n - 1))

\* What even the worker with the fewest has of them.
Fewest(n, over, t) == Positive(t + over - n)

LEMMA ExtraNext ==
  ASSUME NEW n \in Nat \ {0}, NEW over \in 0..(n - 1), NEW t \in 0..(n - 1), NEW d \in 0..(n - 1)
  PROVE  Extra(n, over, t + 1, IF d = 0 THEN n - 1 ELSE d - 1)
            = Extra(n, over, t, d) + (IF d < over THEN 1 ELSE 0)
BY DEF Extra, Positive, Lesser

LEMMA ExtraBounds ==
  ASSUME NEW n \in Nat \ {0}, NEW over \in 0..(n - 1), NEW t \in 0..n, NEW d \in 0..(n - 1)
  PROVE  /\ Extra(n, over, t, d) \in Int /\ Fewest(n, over, t) \in Int
         /\ Fewest(n, over, t) <= Extra(n, over, t, d)
         /\ Extra(n, over, t, d) - Fewest(n, over, t) <= over
         /\ Extra(n, over, t, d) - Fewest(n, over, t) <= n - over
         /\ d = (IF over = 0 THEN n - 1 ELSE over - 1) => Extra(n, over, t, d) = Fewest(n, over, t)
         /\ t = 0 => Extra(n, over, t, d) = 0 /\ Fewest(n, over, t) = 0
         /\ t = n => Extra(n, over, t, d) = Fewest(n, over, t)
BY DEF Extra, Positive, Lesser, Fewest

LEMMA AheadIs ==
  ASSUME NEW n \in Nat \ {0}, NEW c \in 0..(n - 1), NEW r \in 0..(n - 1)
  PROVE  /\ Ahead(n, c, r) \in 0..(n - 1)
         /\ Ahead(n, IF c + 1 = n THEN 0 ELSE c + 1, r)
               = IF Ahead(n, c, r) = 0 THEN n - 1 ELSE Ahead(n, c, r) - 1
         /\ \A d \in 0..(n - 1) : \E s \in 0..(n - 1) : Ahead(n, c, s) = d
<1>1. /\ Ahead(n, c, r) \in 0..(n - 1)
      /\ Ahead(n, IF c + 1 = n THEN 0 ELSE c + 1, r)
            = IF Ahead(n, c, r) = 0 THEN n - 1 ELSE Ahead(n, c, r) - 1
  BY DEF Ahead
<1>2. ASSUME NEW d \in 0..(n - 1)
      PROVE  \E s \in 0..(n - 1) : Ahead(n, c, s) = d
  <2> DEFINE s == IF c + d < n THEN c + d ELSE c + d - n
  <2>1. s \in 0..(n - 1) /\ Ahead(n, c, s) = d
    BY DEF Ahead
  <2> QED BY <2>1
<1> QED BY <1>1, <1>2

\* The requests that go to the worker of rank r.
Reached(n, c, j, r) == (c + j) % n = r <=> j % n = Ahead(n, c % n, r)

LEMMA TurnIs ==
  ASSUME NEW n \in Nat \ {0}, NEW c \in Nat, NEW j \in Nat, NEW r \in 0..(n - 1)
  PROVE  Reached(n, c, j, r)
<1> USE DEF Reached
<1> DEFINE x == c \div n
           y == j \div n
           a == c % n
           b == j % n
<1>1. /\ c = n * x + a /\ a \in 0..(n - 1) /\ x \in Int
      /\ j = n * y + b /\ b \in 0..(n - 1) /\ y \in Int
  BY DivMod
<1> HIDE DEF x, y, a, b
<1>2. CASE a + b < n
  <2>1. c + j = n * (x + y) + (a + b)
    BY <1>1
  <2>2. (n * (x + y) + (a + b)) % n = a + b
    <3>1. x + y \in Int /\ a + b \in 0..(n - 1)
      BY <1>1, <1>2
    <3> QED BY <3>1, ModUnique
  <2>3. (c + j) % n = a + b
    BY <2>1, <2>2
  <2>4. a + b = r <=> b = Ahead(n, a, r)
    BY <1>1, <1>2 DEF Ahead
  <2> QED BY <2>3, <2>4 DEF a, b
<1>3. CASE a + b >= n
  <2>1. c + j = n * (x + y + 1) + (a + b - n)
    BY <1>1
  <2>2. (n * (x + y + 1) + (a + b - n)) % n = a + b - n
    <3>1. x + y + 1 \in Int /\ a + b - n \in 0..(n - 1)
      BY <1>1, <1>3
    <3> QED BY <3>1, ModUnique
  <2>3. (c + j) % n = a + b - n
    BY <2>1, <2>2
  <2>4. a + b - n = r <=> b = Ahead(n, a, r)
    BY <1>1, <1>3 DEF Ahead
  <2> QED BY <2>3, <2>4 DEF a, b
<1> QED BY <1>1, <1>2, <1>3

\* The numbers up to m that leave d when divided by n.
LEMMA Residues ==
  ASSUME NEW n \in Nat \ {0}, NEW m \in Nat, NEW d \in 0..(n - 1)
  PROVE  Cardinality({i \in 1..m : (i - 1) % n = d})
            = (m \div n) + (IF d < m % n THEN 1 ELSE 0)
<1> DEFINE a == m \div n
           over == m % n
           K == a + (IF d < over THEN 1 ELSE 0)
           S == {i \in 1..m : (i - 1) % n = d}
           f == [k \in 1..K |-> n * (k - 1) + d + 1]
<1>1. m = n * a + over /\ over \in 0..(n - 1) /\ a \in Int
  BY DivMod
<1> HIDE DEF a, over
<1>2. a \in Nat
  <2> SUFFICES ASSUME a < 0 PROVE FALSE
    BY <1>1
  <2>1. -a - 1 \in Nat
    BY <1>1
  <2>2. n * (-a - 1) >= 0
    BY <2>1
  <2>3. n * a = -(n * (-a - 1)) - n
    BY <1>1
  <2> DEFINE p == n * (-a - 1)
             q == n * a
  <2>4. p \in Int /\ q \in Int /\ p >= 0 /\ q = -p - n /\ m = q + over
    BY <1>1, <2>1, <2>2, <2>3
  <2> HIDE DEF p, q
  <2> QED BY <1>1, <2>4
<1>3. K \in Nat
  BY <1>1, <1>2
<1>4. \A x, y \in Int : (x <= y => n * x <= n * y) /\ (x < y => n * x + n <= n * y)
  <2> TAKE x, y \in Int
  <2>1. n * x = x * n /\ n * y = y * n /\ n * (x + 1) = (x + 1) * n /\ n * (x + 1) = n * x + n
    OBVIOUS
  <2>2. x <= y => x * n <= y * n
    BY Cancel
  <2>3. x + 1 <= y => (x + 1) * n <= y * n
    BY Cancel
  <2> QED BY <2>1, <2>2, <2>3
<1>5. \A k \in 1..K : f[k] \in S
  <2> TAKE k \in 1..K
  <2> HIDE DEF K
  <2> DEFINE p == n * (k - 1)
             q == n * a
  <2>1. k \in Int /\ k - 1 \in Int /\ 0 <= k - 1 /\ k <= K
    BY <1>3
  <2>2. p \in Int /\ q \in Int /\ 0 <= p /\ m = q + over
    BY <1>1, <2>1
  <2>3. k - 1 <= a - (IF d < over THEN 0 ELSE 1)
    BY <1>1, <2>1 DEF K
  <2>4. p + d < m
    <3>1. CASE d < over
      <4>1. p <= q
        BY <1>1, <1>4, <2>1, <2>3, <3>1
      <4> HIDE DEF p, q
      <4> QED BY <1>1, <2>2, <3>1, <4>1
    <3>2. CASE ~(d < over)
      <4>1. p + n <= q
        BY <1>1, <1>4, <2>1, <2>3, <3>2
      <4> HIDE DEF p, q
      <4> QED BY <1>1, <2>2, <4>1
    <3> QED BY <3>1, <3>2
  <2>5. (p + d) % n = d
    BY <2>1, ModUnique
  <2>6. f[k] = p + d + 1
    OBVIOUS
  <2> HIDE DEF f, p, q
  <2>7. f[k] \in 1..m /\ f[k] - 1 = p + d
    BY <2>2, <2>4, <2>6
  <2> QED BY <2>5, <2>7
<1>6. \A j, k \in 1..K : f[j] = f[k] => j = k
  <2> TAKE j, k \in 1..K
  <2> HAVE f[j] = f[k]
  <2>1. j - 1 \in Int /\ k - 1 \in Int /\ j \in Int /\ k \in Int
    BY <1>3
  <2> DEFINE p == n * (j - 1)
             q == n * (k - 1)
  <2>2. p + d + 1 = q + d + 1 /\ p \in Int /\ q \in Int
    BY <2>1
  <2>3. /\ j - 1 < k - 1 => p + n <= q
        /\ k - 1 < j - 1 => q + n <= p
    BY <1>4, <2>1
  <2> HIDE DEF p, q
  <2> QED BY <2>1, <2>2, <2>3
<1>7. \A i \in S : \E k \in 1..K : f[k] = i
  <2> TAKE i \in S
  <2> DEFINE e == (i - 1) \div n
             p == n * e
             q == n * a
  <2>1. i \in 1..m /\ (i - 1) % n = d
    OBVIOUS
  <2>2. i - 1 = p + d /\ e \in Int
    BY <2>1, DivMod
  <2> HIDE DEF e
  <2>3. e >= 0
    <3> SUFFICES ASSUME e < 0 PROVE FALSE
      BY <2>2
    <3>1. p + n <= n * 0 /\ n * 0 = 0
      BY <1>4, <2>2
    <3>2. p \in Int
      BY <2>2
    <3> HIDE DEF p
    <3> QED BY <2>1, <2>2, <3>1, <3>2
  <2>4. e + 1 <= K
    <3>1. p \in Int /\ q \in Int /\ m = q + over /\ p + d < m
      BY <1>1, <2>1, <2>2
    <3>2. a < e => q + n <= p
      BY <1>1, <1>4, <2>2
    <3>3. a = e => p = q
      OBVIOUS
    <3> HIDE DEF p, q, S, f
    <3> QED BY <1>1, <2>2, <3>1, <3>2, <3>3
  <2>5. e + 1 \in 1..K
    <3> HIDE DEF K
    <3> QED BY <1>3, <2>2, <2>3, <2>4
  <2>6. f[e + 1] = i
    <3>1. (e + 1) - 1 = e
      BY <2>2
    <3> HIDE DEF K, S
    <3>2. f[e + 1] = n * e + d + 1
      BY <2>5, <3>1
    <3> QED BY <2>1, <2>2, <3>2
  <2> QED BY <2>5, <2>6
<1> HIDE DEF K, S
<1>8. f \in Bijection(1..K, S)
  <2>1. f \in [1..K -> S]
    BY <1>5
  <2> HIDE DEF f
  <2> QED BY <1>6, <1>7, <2>1 DEF Bijection, Injection, Surjection, IsInjective
<1>9. IsFiniteSet(1..K) /\ Cardinality(1..K) = K
  BY <1>3, FS_Interval
<1>10. Cardinality(S) = K
  <2> HIDE DEF f
  <2> QED BY <1>8, <1>9, FS_Bijection DEF ExistsBijection
<1> QED BY <1>10 DEF K, S, a, over

\* The rank of a worker among the eligible ones, and how far it is ahead of the next
\* beginning.
Index(g, w) == Cardinality({x \in Eligible(g) : x < w})
Distance(g, w) == Ahead(Cardinality(Eligible(g)), counter % Cardinality(Eligible(g)), Index(g, w))

\* The tally is what t groups leave, that began one after the other.
TurnsTaken(g, t) ==
    LET n == Cardinality(Eligible(g))
        over == Requests(g) % n
    IN  \A w \in Eligible(g) : tally[w] = Extra(n, over, t, Distance(g, w)) - Fewest(n, over, t)

TurnsInv ==
    /\ counter \in 0..(TurnCap - 1) /\ tally \in [Workers -> Int]
    /\ \A g \in Rollouts : \A w \in Workers \ Eligible(g) : tally[w] = 0
    /\ \A g \in Rollouts : Eligible(g) # {} =>
          \E t \in 0..(Cardinality(Eligible(g)) - 1) : TurnsTaken(g, t)

LEMMA CounterNext ==
  ASSUME counter \in 0..(TurnCap - 1), NEW n \in 1..NumWorkers
  PROVE  /\ (counter + 1) % TurnCap \in 0..(TurnCap - 1)
         /\ ((counter + 1) % TurnCap) % n = IF (counter % n) + 1 = n THEN 0 ELSE (counter % n) + 1
<1>1. TurnCap \in Nat \ {0} /\ TurnCap % n = 0 /\ n \in Nat \ {0} /\ counter \in Nat
  <2>1. NumWorkers \in Nat
    BY WorkerAssumption
  <2>2. TurnCap \in Nat \ {0} /\ TurnCap % n = 0
    BY TurnAssumption, Zenon
  <2> QED BY <2>1, <2>2
<1>2. (counter + 1) % n = IF (counter % n) + 1 = n THEN 0 ELSE (counter % n) + 1
  BY <1>1, NextMod
<1>3. CASE counter + 1 = TurnCap
  <2>1. TurnCap * 1 + 0 = TurnCap /\ n * 0 + 0 = 0
    BY <1>1
  <2>2. (TurnCap * 1 + 0) % TurnCap = 0 /\ (n * 0 + 0) % n = 0
    BY <1>1, ModUnique
  <2>3. TurnCap % TurnCap = 0 /\ 0 % n = 0
    BY <2>1, <2>2
  <2>4. (counter % n) + 1 = n
    <3> counter \in Int
      OBVIOUS
    <3>1. counter % n \in 0..(n - 1)
      BY <1>1, DivMod, Zenon
    <3>2. (counter + 1) % n = 0
      BY <1>1, <1>3
    <3> DEFINE a == counter % n
               b == (counter + 1) % n
    <3>3. a \in 0..(n - 1) /\ b = 0 /\ b = IF a + 1 = n THEN 0 ELSE a + 1
      BY <1>2, <3>1, <3>2
    <3> HIDE DEF a, b
    <3>4. a + 1 = n
      BY <1>1, <3>3
    <3> QED BY <3>4 DEF a
  <2> QED BY <1>1, <1>3, <2>3, <2>4
<1>4. CASE counter + 1 # TurnCap
  <2>1. counter + 1 \in 0..(TurnCap - 1)
    BY <1>1, <1>4
  <2>2. TurnCap * 0 + (counter + 1) = counter + 1
    BY <1>1
  <2>3. (TurnCap * 0 + (counter + 1)) % TurnCap = counter + 1
    BY <1>1, <2>1, ModUnique
  <2> QED BY <1>2, <2>1, <2>2, <2>3
<1> QED BY <1>3, <1>4

LEMMA IndexIs ==
  ASSUME NEW g, Eligible(g) # {}
  PROVE  LET n == Cardinality(Eligible(g))
         IN  /\ n \in 1..NumWorkers /\ n \in Nat \ {0}
             /\ \A w \in Eligible(g) : Index(g, w) \in 0..(n - 1) /\ Ready(g)[Index(g, w) + 1] = w
             /\ \A r \in 0..(n - 1) : \E w \in Eligible(g) : Index(g, w) = r
             /\ \A r \in 0..(n - 1) : \A w \in Eligible(g) :
                   Ready(g)[r + 1] = w <=> r = Index(g, w)
<1> DEFINE n == Cardinality(Eligible(g))
           ready == Ready(g)
<1>1. n \in Nat \ {0}
  BY EligibleAre
<1>2. n <= NumWorkers
  <2>1. IsFiniteSet(Workers) /\ Cardinality(Workers) = NumWorkers
    BY WorkerAssumption, FS_Interval DEF Workers
  <2>2. Eligible(g) \in SUBSET Workers
    BY EligibleAre
  <2> QED BY <2>1, <2>2, FS_Subset
<1>3. /\ \A k \in 1..n : ready[k] \in Eligible(g) /\ Index(g, ready[k]) = k - 1
      /\ \A j, k \in 1..n : ready[j] = ready[k] => j = k
      /\ \A w \in Eligible(g) : \E k \in 1..n : ready[k] = w
  BY ReadyIs DEF Index
<1> HIDE DEF ready, n
<1>4. \A w \in Eligible(g) : Index(g, w) \in 0..(n - 1) /\ ready[Index(g, w) + 1] = w
  <2> TAKE w \in Eligible(g)
  <2>1. PICK k \in 1..n : ready[k] = w
    BY <1>3
  <2>2. Index(g, w) = k - 1
    BY <1>3, <2>1
  <2>3. k - 1 \in 0..(n - 1) /\ (k - 1) + 1 = k
    BY <1>1
  <2> QED BY <2>1, <2>2, <2>3
<1>5. \A r \in 0..(n - 1) : ready[r + 1] \in Eligible(g) /\ Index(g, ready[r + 1]) = r
  <2> TAKE r \in 0..(n - 1)
  <2>1. r + 1 \in 1..n /\ (r + 1) - 1 = r
    BY <1>1
  <2> QED BY <1>3, <2>1
<1>6. \A r \in 0..(n - 1) : \E w \in Eligible(g) : Index(g, w) = r
  BY <1>5
<1>7. \A r \in 0..(n - 1) : \A w \in Eligible(g) : ready[r + 1] = w <=> r = Index(g, w)
  BY <1>4, <1>5
<1>8. n \in 1..NumWorkers
  BY <1>1, <1>2, WorkerAssumption
<1> QED BY <1>1, <1>4, <1>6, <1>7, <1>8 DEF n, ready

\* What the round robin gives to a worker.
LEMMA RotateCount ==
  ASSUME NEW g, IsGroup(g), counter \in Nat, NEW w \in Eligible(g)
  PROVE  LET n == Cardinality(Eligible(g))
         IN  Cardinality(On(Rotate(g, counter), w))
                = (Requests(g) \div n) + (IF Distance(g, w) < Requests(g) % n THEN 1 ELSE 0)
<1> DEFINE n == Cardinality(Eligible(g))
           q == Requests(g)
           d == Distance(g, w)
           r == Index(g, w)
<1>1. n \in Nat \ {0} /\ r \in 0..(n - 1) /\ counter % n \in 0..(n - 1)
  <2>1. n \in Nat \ {0} /\ r \in 0..(n - 1)
    BY IndexIs
  <2> QED BY <2>1, DivMod
<1>2. d \in 0..(n - 1) /\ d = Ahead(n, counter % n, r)
  <2> HIDE DEF n, r
  <2>1. Ahead(n, counter % n, r) \in 0..(n - 1)
    BY <1>1, AheadIs
  <2> QED BY <2>1 DEF Distance, n, r
<1>3. q \in Nat /\ Samples(g) = 1..q
  BY GroupIs
<1>4. \A i \in 1..q : Rotate(g, counter)[i] = w <=> (i - 1) % n = d
  <2> TAKE i \in 1..q
  <2> DEFINE c == counter + i - 1
  <2>1. c \in Nat /\ i - 1 \in Nat /\ c = counter + (i - 1)
    BY <1>3
  <2>2. Rotate(g, counter)[i] = Nth(Ready(g), c)
    BY <1>3 DEF Rotate
  <2>3. Nth(Ready(g), c) = Ready(g)[(c % n) + 1]
    <3> HIDE DEF c
    <3> QED BY <2>1, NthIs
  <2>4. c % n \in 0..(n - 1)
    <3>1. c \in Int
      BY <2>1
    <3> HIDE DEF c, n
    <3> QED BY <1>1, <3>1, DivMod, Zenon
  <2>5. Ready(g)[(c % n) + 1] = w <=> c % n = r
    <3> DEFINE s == c % n
    <3>1. s \in 0..(n - 1)
      BY <2>4
    <3> HIDE DEF s
    <3>2. Ready(g)[s + 1] = w <=> s = r
      BY <3>1, IndexIs
    <3> QED BY <3>2 DEF s
  <2>6. c % n = r <=> (i - 1) % n = d
    <3> DEFINE j == i - 1
    <3>1. j \in Nat /\ c = counter + j
      BY <2>1
    <3> HIDE DEF n, r, d, c, j
    <3>2. Reached(n, counter, j, r)
      BY <1>1, <3>1, TurnIs
    <3>3. c % n = r <=> j % n = d
      BY <1>2, <3>1, <3>2 DEF Reached
    <3> QED BY <3>3 DEF j
  <2> QED BY <2>2, <2>3, <2>5, <2>6
<1>5. On(Rotate(g, counter), w) = {i \in 1..q : (i - 1) % n = d}
  <2>1. DOMAIN Rotate(g, counter) = 1..q
    BY <1>3 DEF Rotate
  <2> HIDE DEF n, q, d
  <2> QED BY <1>4, <2>1 DEF On
<1> HIDE DEF n, q, d
<1>6. Cardinality({i \in 1..q : (i - 1) % n = d}) = (q \div n) + (IF d < q % n THEN 1 ELSE 0)
  BY <1>1, <1>2, <1>3, Residues
<1> QED BY <1>5, <1>6 DEF n, q, d

\* Every group may go to the same workers, and leaves the same rest.
LEMMA SameForAll ==
  ASSUME NEW g \in Rollouts, NEW h \in Rollouts
  PROVE  /\ Eligible(h) = Eligible(g) /\ Requests(h) = Requests(g)
         /\ \A t : TurnsTaken(h, t) <=> TurnsTaken(g, t)
<1>1. h.version = g.version /\ Requests(h) = Requests(g)
  BY GroupAssumption
<1>2. Eligible(h) = Eligible(g)
  BY <1>1 DEF Eligible
<1>3. \A w : Index(h, w) = Index(g, w)
  BY <1>2 DEF Index
<1>4. \A w : Distance(h, w) = Distance(g, w)
  BY <1>2, <1>3 DEF Distance
<1> QED BY <1>1, <1>2, <1>4 DEF TurnsTaken

\* No turn taken leaves nothing.
LEMMA NoTurns ==
  ASSUME NEW g \in Rollouts, Eligible(g) # {}, counter \in Nat,
         \A w \in Eligible(g) : tally[w] = 0
  PROVE  0 \in 0..(Cardinality(Eligible(g)) - 1) /\ TurnsTaken(g, 0)
<1> DEFINE n == Cardinality(Eligible(g))
           over == Requests(g) % n
<1>1. n \in Nat \ {0} /\ \A w \in Eligible(g) : Index(g, w) \in 0..(n - 1)
  BY IndexIs
<1>2. over \in 0..(n - 1) /\ counter % n \in 0..(n - 1)
  <2>1. Requests(g) \in Int /\ counter \in Int
    BY RolloutIs, GroupIs
  <2> HIDE DEF n
  <2>2. over \in 0..(n - 1)
    BY <1>1, <2>1, DivMod, Zenon
  <2>3. counter % n \in 0..(n - 1)
    BY <1>1, <2>1, DivMod, Zenon
  <2> QED BY <2>2, <2>3
<1>3. ASSUME NEW w \in Eligible(g)
      PROVE  tally[w] = Extra(n, over, 0, Distance(g, w)) - Fewest(n, over, 0)
  <2>1. Distance(g, w) = Ahead(n, counter % n, Index(g, w))
    BY DEF Distance
  <2> HIDE DEF n
  <2>2. Distance(g, w) \in 0..(n - 1)
    BY <1>1, <1>2, <2>1, AheadIs
  <2> HIDE DEF over
  <2>3. Extra(n, over, 0, Distance(g, w)) = 0 /\ Fewest(n, over, 0) = 0
    <3>1. 0 \in 0..n
      BY <1>1
    <3> QED BY <1>1, <1>2, <2>2, <3>1, ExtraBounds
  <2> QED BY <2>3
<1>4. 0 \in 0..(n - 1)
  BY <1>1
<1> QED BY <1>3, <1>4 DEF TurnsTaken

\* After a turn, every worker has moved one nearer to the next beginning.
LEMMA TurnTaken ==
  ASSUME WorkersOk, TurnsInv, NEW g \in Rollouts, RoundRobin(g),
         NEW t \in 0..(Cardinality(Eligible(g)) - 1), TurnsTaken(g, t)
  PROVE  LET n == Cardinality(Eligible(g))
             over == Requests(g) % n
         IN  /\ tally' \in [Workers -> Int] /\ counter' \in 0..(TurnCap - 1)
             /\ \A w \in Workers \ Eligible(g) : tally'[w] = 0
             /\ \A w \in Eligible(g) :
                   /\ Distance(g, w)' \in 0..(n - 1)
                   /\ tally'[w] = Extra(n, over, t + 1, Distance(g, w)') - Fewest(n, over, t + 1)
<1> DEFINE E == Eligible(g)
           n == Cardinality(E)
           q == Requests(g)
           over == q % n
           a == q \div n
           at == Rotate(g, counter)
           sum == [w \in Workers |-> tally[w] + Cardinality(On(at, w))]
           m == Min({sum[x] : x \in E})
<1>1. /\ E # {} /\ workers' = workers /\ placed'.at = at
      /\ counter' = (counter + 1) % TurnCap
      /\ tally' = [w \in Workers |-> IF w \in E THEN sum[w] - m ELSE 0]
  BY DEF RoundRobin, Decide
<1>2. IsGroup(g) /\ counter \in Nat /\ counter \in 0..(TurnCap - 1) /\ tally \in [Workers -> Int]
  BY RolloutIs, TurnAssumption DEF TurnsInv
<1>3. /\ n \in Nat \ {0} /\ n \in 1..NumWorkers /\ E \in SUBSET Workers /\ IsFiniteSet(E)
      /\ \A w \in E : Index(g, w) \in 0..(n - 1)
      /\ \A r \in 0..(n - 1) : \E w \in E : Index(g, w) = r
  BY <1>1, IndexIs, EligibleAre
<1>4. q \in Nat /\ over \in 0..(n - 1) /\ a \in Int /\ counter % n \in 0..(n - 1)
  <2>1. q \in Int /\ q \in Nat /\ counter \in Int
    BY <1>2, GroupIs
  <2> HIDE DEF n, q
  <2>2. over \in 0..(n - 1) /\ a \in Int
    BY <1>3, <2>1, DivMod, Zenon
  <2>3. counter % n \in 0..(n - 1)
    BY <1>3, <2>1, DivMod, Zenon
  <2> QED BY <2>1, <2>2, <2>3
<1>5. \A w \in E : /\ Cardinality(On(at, w)) = a + (IF Distance(g, w) < over THEN 1 ELSE 0)
                   /\ tally[w] = Extra(n, over, t, Distance(g, w)) - Fewest(n, over, t)
  BY <1>2, RotateCount DEF TurnsTaken
<1>6. counter' \in 0..(TurnCap - 1)
      /\ counter' % n = IF (counter % n) + 1 = n THEN 0 ELSE (counter % n) + 1
  <2> HIDE DEF n
  <2> QED BY <1>1, <1>2, <1>3, CounterNext
<1>7. \A w : Index(g, w)' = Index(g, w)
  BY <1>1 DEF Index, Eligible
<1>8. Eligible(g)' = E
  BY <1>1 DEF Eligible
<1> DEFINE ahead(w) == Distance(g, w)
           next(w) == IF ahead(w) = 0 THEN n - 1 ELSE ahead(w) - 1
<1>9. \A w \in E : ahead(w) \in 0..(n - 1) /\ Distance(g, w)' = next(w)
  <2> TAKE w \in E
  <2> DEFINE r == Index(g, w)
             c == counter % n
  <2>1. /\ Ahead(n, c, r) \in 0..(n - 1)
        /\ Ahead(n, IF c + 1 = n THEN 0 ELSE c + 1, r)
              = IF Ahead(n, c, r) = 0 THEN n - 1 ELSE Ahead(n, c, r) - 1
    <3>1. n \in Nat \ {0} /\ c \in 0..(n - 1) /\ r \in 0..(n - 1)
      BY <1>3, <1>4
    <3> HIDE DEF n, c, r
    <3> QED BY <3>1, AheadIs
  <2>2. ahead(w) = Ahead(n, c, r)
    BY DEF Distance
  <2>3. Distance(g, w)' = Ahead(n, counter' % n, r)
    BY <1>7, <1>8 DEF Distance
  <2> QED BY <1>6, <2>1, <2>2, <2>3
<1>10. \A d \in 0..(n - 1) : \E w \in E : ahead(w) = d
  <2> TAKE d \in 0..(n - 1)
  <2> DEFINE c == counter % n
  <2>1. PICK s \in 0..(n - 1) : Ahead(n, c, s) = d
    <3>1. n \in Nat \ {0} /\ c \in 0..(n - 1) /\ 0 \in 0..(n - 1)
      BY <1>3, <1>4
    <3> HIDE DEF n, c
    <3>2. \E s \in 0..(n - 1) : Ahead(n, c, s) = d
      BY <3>1, AheadIs
    <3> QED BY <3>2
  <2>2. PICK w \in E : Index(g, w) = s
    BY <1>3
  <2>3. ahead(w) = Ahead(n, c, Index(g, w))
    BY DEF Distance
  <2> QED BY <2>1, <2>2, <2>3
<1> HIDE DEF ahead
<1>11. t \in 0..(n - 1) /\ t \in 0..n /\ t + 1 \in 0..n
  BY <1>3
<1> HIDE DEF E, n, q, over, a, at, sum, m
<1>12. ASSUME NEW w \in E
       PROVE  /\ next(w) \in 0..(n - 1)
              /\ sum[w] = Extra(n, over, t + 1, next(w)) - Fewest(n, over, t) + a
              /\ sum[w] \in Int
  <2>1. sum[w] = tally[w] + Cardinality(On(at, w))
    BY <1>3 DEF sum
  <2>2. /\ Cardinality(On(at, w)) = a + (IF ahead(w) < over THEN 1 ELSE 0)
        /\ tally[w] = Extra(n, over, t, ahead(w)) - Fewest(n, over, t)
    BY <1>5 DEF ahead
  <2>3. ahead(w) \in 0..(n - 1) /\ next(w) \in 0..(n - 1)
    BY <1>3, <1>9
  <2>4. Extra(n, over, t + 1, next(w)) = Extra(n, over, t, ahead(w)) + (IF ahead(w) < over THEN 1 ELSE 0)
    BY <1>3, <1>4, <1>11, <2>3, ExtraNext
  <2>5. Extra(n, over, t, ahead(w)) \in Int /\ Fewest(n, over, t) \in Int
    BY <1>3, <1>4, <1>11, <2>3, ExtraBounds
  <2> HIDE DEF next
  <2> QED BY <1>4, <2>1, <2>2, <2>3, <2>4, <2>5
<1>13. m = Fewest(n, over, t + 1) - Fewest(n, over, t) + a
  <2>1. m = Min(Values(sum, E))
    BY DEF m, Values
  <2>2. /\ m \in Int /\ \A x \in E : m <= sum[x]
        /\ \E x \in E : sum[x] = m
    <3>1. \A x \in E : sum[x] \in Int
      BY <1>12
    <3> QED BY <1>1, <1>3, <2>1, <3>1, Extremes
  <2> DEFINE d == IF over = 0 THEN n - 1 ELSE over - 1
             b == IF d + 1 = n THEN 0 ELSE d + 1
  <2>3. b \in 0..(n - 1) /\ d \in 0..(n - 1) /\ d = IF b = 0 THEN n - 1 ELSE b - 1
    BY <1>3, <1>4
  <2>4. PICK w \in E : next(w) = d
    <3>1. PICK w \in E : ahead(w) = b
      BY <1>10, <2>3
    <3>2. next(w) = d
      BY <2>3, <3>1
    <3> QED BY <3>2
  <2>5. Extra(n, over, t + 1, d) = Fewest(n, over, t + 1)
    <3>1. d \in 0..(n - 1) /\ d = IF over = 0 THEN n - 1 ELSE over - 1
      BY <2>3
    <3> HIDE DEF d
    <3> QED BY <1>3, <1>4, <1>11, <3>1, ExtraBounds
  <2> HIDE DEF d, b, next
  <2>6. /\ Fewest(n, over, t) \in Int /\ Fewest(n, over, t + 1) \in Int
        /\ \A x \in E : /\ Extra(n, over, t + 1, next(x)) \in Int
                        /\ Fewest(n, over, t + 1) <= Extra(n, over, t + 1, next(x))
    <3>1. Fewest(n, over, t) \in Int
      BY <1>3, <1>4, <1>11, <2>3, ExtraBounds
    <3>2. Fewest(n, over, t + 1) \in Int
      BY <1>3, <1>4, <1>11, <2>3, ExtraBounds
    <3>3. \A x \in E : /\ Extra(n, over, t + 1, next(x)) \in Int
                       /\ Fewest(n, over, t + 1) <= Extra(n, over, t + 1, next(x))
      BY <1>3, <1>4, <1>11, <1>12, ExtraBounds
    <3> QED BY <3>1, <3>2, <3>3
  <2>7. sum[w] = Fewest(n, over, t + 1) - Fewest(n, over, t) + a
    BY <1>12, <2>4, <2>5
  <2>8. \A x \in E : sum[w] <= sum[x]
    <3> TAKE x \in E
    <3>1. sum[x] = Extra(n, over, t + 1, next(x)) - Fewest(n, over, t) + a
      BY <1>12
    <3> QED BY <1>4, <2>6, <2>7, <3>1
  <2>9. m <= sum[w] /\ sum[w] <= m /\ sum[w] \in Int
    BY <1>12, <2>2, <2>8
  <2> QED BY <2>2, <2>7, <2>9
<1>14. \A w \in E : tally'[w] = Extra(n, over, t + 1, next(w)) - Fewest(n, over, t + 1)
                    /\ tally'[w] \in Int
  <2> TAKE w \in E
  <2>1. tally'[w] = sum[w] - m
    BY <1>1, <1>3
  <2>2. Extra(n, over, t + 1, next(w)) \in Int /\ Fewest(n, over, t + 1) \in Int
    BY <1>3, <1>4, <1>11, <1>12, ExtraBounds
  <2>3. Fewest(n, over, t) \in Int
    <3>1. 0 \in 0..(n - 1)
      BY <1>3
    <3> QED BY <1>3, <1>4, <1>11, <3>1, ExtraBounds
  <2> HIDE DEF next
  <2> QED BY <1>4, <1>12, <1>13, <2>1, <2>2, <2>3
<1>15. \A w \in Workers \ E : tally'[w] = 0
  BY <1>1
<1>16. tally' \in [Workers -> Int]
  <2>1. \A w \in Workers : tally'[w] \in Int
    BY <1>14, <1>15
  <2>2. tally' = [w \in Workers |-> tally'[w]]
    BY <1>1
  <2> QED BY <2>1, <2>2
<1> QED BY <1>6, <1>9, <1>12, <1>14, <1>15, <1>16 DEF E, n, q, over

AllSame ==
    \A g, h \in Rollouts : /\ Eligible(h) = Eligible(g)
                          /\ \A t : TurnsTaken(h, t) <=> TurnsTaken(g, t)

NoneTaken ==
    counter \in Nat => \A g \in Rollouts :
        Eligible(g) # {} /\ (\A w \in Eligible(g) : tally[w] = 0) =>
            0 \in 0..(Cardinality(Eligible(g)) - 1) /\ TurnsTaken(g, 0)

\* The two facts of the state after a step.
LEMMA AfterStep == AllSame /\ NoneTaken /\ AllSame' /\ NoneTaken'
<1>1. AllSame
  BY SameForAll DEF AllSame
<1>2. NoneTaken
  BY NoTurns DEF NoneTaken
<1> QED BY <1>1, <1>2, PTL

\* The tally is always what some number of groups leave, less than a round of them.
THEOREM TurnsInvariant == Spec => [](PlacementInv /\ TurnsInv)
<1>1. Init => TurnsInv
  <2> SUFFICES ASSUME Init PROVE TurnsInv
    OBVIOUS
  <2>1. /\ counter \in 0..(TurnCap - 1) /\ counter \in Nat
        /\ tally \in [Workers -> Int] /\ \A w \in Workers : tally[w] = 0
    BY TurnAssumption DEF Init
  <2>2. \A g \in Rollouts : \A w \in Workers \ Eligible(g) : tally[w] = 0
    BY <2>1
  <2>3. ASSUME NEW g \in Rollouts, Eligible(g) # {}
        PROVE  0 \in 0..(Cardinality(Eligible(g)) - 1) /\ TurnsTaken(g, 0)
    <3>1. \A w \in Eligible(g) : tally[w] = 0
      BY <2>1, EligibleAre
    <3> QED BY <2>1, <2>3, <3>1, NoTurns
  <2> QED BY <2>1, <2>2, <2>3 DEF TurnsInv
<1>2. PlacementInv /\ TurnsInv /\ [Next]_placementVars => TurnsInv'
  <2> SUFFICES ASSUME PlacementInv, TurnsInv, [Next]_placementVars
               PROVE  TurnsInv'
    OBVIOUS
  <2>1. ASSUME NEW w \in Workers, NEW state \in WorkerStates, Report(w, state)
        PROVE  TurnsInv'
    <3>1. /\ counter' \in 0..(TurnCap - 1) /\ counter' \in Nat
          /\ tally' \in [Workers -> Int] /\ \A x \in Workers : tally'[x] = 0
      BY <2>1, TurnAssumption DEF TurnsInv, Report
    <3>2. \A g \in Rollouts : \A x \in Workers \ Eligible(g)' : tally'[x] = 0
      BY <3>1
    <3>3. \A g \in Rollouts : Eligible(g)' \in SUBSET Workers
      BY DEF Eligible
    <3>4. ASSUME NEW g \in Rollouts, Eligible(g)' # {}
          PROVE  (0 \in 0..(Cardinality(Eligible(g)) - 1) /\ TurnsTaken(g, 0))'
      <4>1. \A x \in Eligible(g)' : tally'[x] = 0
        BY <3>1, <3>3
      <4>2. counter' \in Nat
        BY <3>1
      <4> QED BY <3>4, <4>1, <4>2, AfterStep DEF NoneTaken
    <3> QED BY <3>1, <3>2, <3>4 DEF TurnsInv
  <2>2. ASSUME NEW g \in Rollouts, RoundRobin(g)
        PROVE  TurnsInv'
    <3> DEFINE n == Cardinality(Eligible(g))
               over == Requests(g) % n
    <3>1. Eligible(g) # {} /\ workers' = workers
      BY <2>2 DEF RoundRobin, Decide
    <3>2. PICK t \in 0..(n - 1) : TurnsTaken(g, t)
      BY <3>1 DEF TurnsInv
    <3>3. /\ tally' \in [Workers -> Int] /\ counter' \in 0..(TurnCap - 1)
          /\ \A w \in Workers \ Eligible(g) : tally'[w] = 0
          /\ \A w \in Eligible(g) :
                /\ Distance(g, w)' \in 0..(n - 1)
                /\ tally'[w] = Extra(n, over, t + 1, Distance(g, w)') - Fewest(n, over, t + 1)
      BY <2>2, <3>2, TurnTaken DEF PlacementInv
    <3>4. \A h \in Rollouts : Eligible(h)' = Eligible(h)
      BY <3>1 DEF Eligible
    <3>5. n \in Nat \ {0} /\ over \in 0..(n - 1)
      <4>1. n \in Nat \ {0}
        BY <3>1, IndexIs
      <4>2. Requests(g) \in Int
        BY RolloutIs, GroupIs
      <4> HIDE DEF n
      <4> QED BY <4>1, <4>2, DivMod, Zenon
    <3>6. \E s \in 0..(n - 1) : TurnsTaken(g, s)'
      <4>1. CASE t + 1 < n
        <5>1. t + 1 \in 0..(n - 1)
          BY <3>5, <4>1
        <5>2. TurnsTaken(g, t + 1)'
          BY <3>3, <3>4 DEF TurnsTaken
        <5> QED BY <5>1, <5>2
      <4>2. CASE t + 1 = n
        <5>1. \A w \in Eligible(g) :
                 tally'[w] = Extra(n, over, 0, Distance(g, w)') - Fewest(n, over, 0)
          <6> TAKE w \in Eligible(g)
          <6>1. PICK d \in 0..(n - 1) : d = Distance(g, w)'
            BY <3>3
          <6>2. tally'[w] = Extra(n, over, n, d) - Fewest(n, over, n)
            BY <3>3, <4>2, <6>1
          <6> HIDE DEF n, over
          <6>3. n \in 0..n /\ 0 \in 0..n
            BY <3>5
          <6>4. /\ Extra(n, over, n, d) = Fewest(n, over, n) /\ Fewest(n, over, n) \in Int
                /\ Extra(n, over, 0, d) = 0 /\ Fewest(n, over, 0) = 0
            <7>1. Extra(n, over, n, d) = Fewest(n, over, n) /\ Fewest(n, over, n) \in Int
              BY <3>5, <6>3, ExtraBounds
            <7>2. Extra(n, over, 0, d) = 0 /\ Fewest(n, over, 0) = 0
              BY <3>5, <6>3, ExtraBounds
            <7> QED BY <7>1, <7>2
          <6> QED BY <6>1, <6>2, <6>4
        <5>2. TurnsTaken(g, 0)'
          BY <3>4, <5>1 DEF TurnsTaken
        <5>3. 0 \in 0..(n - 1)
          BY <3>5
        <5> QED BY <5>2, <5>3
      <4> QED BY <3>5, <4>1, <4>2
    <3> HIDE DEF n
    <3>7. ASSUME NEW h \in Rollouts
          PROVE  /\ Eligible(h)' = Eligible(g)
                 /\ \A s : TurnsTaken(h, s)' <=> TurnsTaken(g, s)'
      <4>1. Eligible(h) = Eligible(g)
        BY SameForAll
      <4>2. \A s : TurnsTaken(h, s)' <=> TurnsTaken(g, s)'
        BY AfterStep DEF AllSame
      <4> QED BY <3>4, <4>1, <4>2
    <3>8. \A h \in Rollouts : \A w \in Workers \ Eligible(h)' : tally'[w] = 0
      BY <3>3, <3>7
    <3>9. \A h \in Rollouts : \E s \in 0..(Cardinality(Eligible(h)') - 1) : TurnsTaken(h, s)'
      BY <3>6, <3>7 DEF n
    <3> QED BY <3>3, <3>8, <3>9 DEF TurnsInv
  <2>3. CASE UNCHANGED <<workers, counter, tally>>
    <3>1. \A g \in Rollouts : Eligible(g)' = Eligible(g)
      BY <2>3 DEF Eligible
    <3>2. \A g \in Rollouts : \A w : Distance(g, w)' = Distance(g, w)
      BY <2>3, <3>1 DEF Distance, Index
    <3>3. \A g \in Rollouts : \A t : TurnsTaken(g, t)' <=> TurnsTaken(g, t)
      BY <2>3, <3>1, <3>2 DEF TurnsTaken
    <3> QED BY <2>3, <3>1, <3>3 DEF TurnsInv
  <2> QED BY <2>1, <2>2, <2>3 DEF Next, Place, Decide, placementVars
<1> QED BY <1>1, <1>2, PlacementInvariant, PTL DEF Spec

\* While the READY workers stay the same, no one of them is ahead of another by more
\* requests than a group leaves over.
THEOREM TurnsFair == Spec => []RoundRobinFair
<1>1. PlacementInv /\ TurnsInv => RoundRobinFair
  <2> SUFFICES ASSUME PlacementInv, TurnsInv, placed # Nothing, NEW w \in Workers
               PROVE  LET n == Cardinality(Eligible(placed.group))
                          over == Len(placed.group.p90) % n
                      IN  tally[w] <= Min({over, n - over})
    BY DEF RoundRobinFair
  <2>1. PICK policy, at : \E h \in Rollouts : /\ placed = [policy |-> policy, group |-> h, at |-> at]
                                              /\ Sound(policy, h, at)
    BY DEF PlacementInv, Decisions
  <2>2. PICK g \in Rollouts : placed.group = g /\ Placement(g, at)
    BY <2>1 DEF Sound
  <2> DEFINE n == Cardinality(Eligible(g))
             over == Requests(g) % n
             limits == {over, n - over}
  <2>3. Eligible(g) # {}
    <3>1. Samples(g) # {}
      BY RolloutIs, GroupIs
    <3> QED BY <2>2, <3>1 DEF Placement
  <2>4. n \in Nat \ {0} /\ over \in 0..(n - 1) /\ counter % n \in 0..(n - 1)
    <3>1. n \in Nat \ {0}
      BY <2>3, IndexIs
    <3>2. Requests(g) \in Int /\ counter \in Int
      BY RolloutIs, GroupIs DEF PlacementInv
    <3> HIDE DEF n
    <3>3. over \in 0..(n - 1)
      BY <3>1, <3>2, DivMod, Zenon
    <3>4. counter % n \in 0..(n - 1)
      BY <3>1, <3>2, DivMod, Zenon
    <3> QED BY <3>1, <3>3, <3>4
  <2>5. tally[w] \in Int /\ tally[w] <= over /\ tally[w] <= n - over
    <3>1. CASE w \notin Eligible(g)
      <4>1. tally[w] = 0
        BY <3>1 DEF TurnsInv
      <4> HIDE DEF over, n
      <4> QED BY <2>4, <4>1
    <3>2. CASE w \in Eligible(g)
      <4>1. PICK t \in 0..(n - 1) : TurnsTaken(g, t)
        BY <2>3 DEF TurnsInv
      <4>2. tally[w] = Extra(n, over, t, Distance(g, w)) - Fewest(n, over, t)
        BY <3>2, <4>1 DEF TurnsTaken
      <4>3. Index(g, w) \in 0..(n - 1) /\ Distance(g, w) = Ahead(n, counter % n, Index(g, w))
        BY <2>3, <3>2, IndexIs DEF Distance
      <4> HIDE DEF n, over
      <4>4. Distance(g, w) \in 0..(n - 1)
        BY <2>4, <4>3, AheadIs
      <4>5. t \in 0..n
        BY <2>4
      <4>6. /\ Extra(n, over, t, Distance(g, w)) \in Int /\ Fewest(n, over, t) \in Int
            /\ Extra(n, over, t, Distance(g, w)) - Fewest(n, over, t) <= over
            /\ Extra(n, over, t, Distance(g, w)) - Fewest(n, over, t) <= n - over
        BY <2>4, <4>4, <4>5, ExtraBounds
      <4> QED BY <4>2, <4>6
    <3> QED BY <3>1, <3>2
  <2>6. Min(limits) \in limits
    <3> HIDE DEF n, over
    <3>1. limits \in SUBSET Int /\ limits # {}
      BY <2>4
    <3>2. IsFiniteSet(limits)
      <4>1. limits = {over} \union {n - over} /\ IsFiniteSet({over})
        BY FS_Singleton
      <4> QED BY <4>1, FS_AddElement
    <3> HIDE DEF limits
    <3> QED BY <3>1, <3>2, MinIs
  <2>7. tally[w] <= Min(limits)
    <3> DEFINE m == Min(limits)
    <3>1. m = over \/ m = n - over
      BY <2>6
    <3> HIDE DEF m, n, over
    <3> QED BY <2>5, <3>1 DEF m
  <2>8. Len(placed.group.p90) = Requests(g)
    BY <2>2 DEF Requests
  <2> QED BY <2>2, <2>7, <2>8
<1> QED BY <1>1, TurnsInvariant, PTL
===============================================================================
