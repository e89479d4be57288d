---------------------------- MODULE RecordsProofs ----------------------------
(***************************************************************************)
(* Proofs about what a school records of a student, for any number of      *)
(* students, records, requests, components, pupils and calls:              *)
(* WarningLetters, StudentLeave and Grading.  The points of a student and  *)
(* the mean of his marks are sums over finite sets, about which the first  *)
(* section proves what the others need.                                    *)
(***************************************************************************)
EXTENDS WarningLetters, StudentLeave, Grading, FiniteSetTheorems, TLAPS

-----------------------------------------------------------------------------
(* Sums over finite sets. *)

\* A set to which a subset of S belongs as soon as all its proper subsets do has them all:
\* the proper subsets of a finite set are well-founded, and X takes the place of a predicate.
LEMMA SubsetInduction ==
    ASSUME NEW S, IsFiniteSet(S), NEW X,
           \A T \in SUBSET S : (\A U \in SUBSET T : U # T => U \in X) => T \in X
    PROVE  \A T \in SUBSET S : T \in X
<1> DEFINE Bad == {T \in SUBSET S : T \notin X}
<1> SUFFICES ASSUME Bad # {} PROVE FALSE
  OBVIOUS
<1>1. IsWellFoundedOn(StrictSubsetOrdering(S), SUBSET S)
  <2>1. IsWellFoundedOn(StrictSubsetOrdering(S), FiniteSubsetsOf(S))
    BY FS_StrictSubsetOrderingWellFounded
  <2> QED BY <2>1, FS_FiniteSubsetsOfFinite
<1>2. \E T \in Bad : \A U \in Bad : ~(<<U, T>> \in StrictSubsetOrdering(S))
  <2>1. Bad \subseteq SUBSET S
    OBVIOUS
  <2> DEFINE R == StrictSubsetOrdering(S)
  <2> HIDE DEF Bad, R
  <2>2. IsWellFoundedOn(R, SUBSET S)
    BY <1>1 DEF R
  <2>3. \E T \in Bad : \A U \in Bad : ~(<<U, T>> \in R)
    BY <2>1, <2>2, WFMin
  <2> QED BY <2>3 DEF R
<1>3. PICK T \in Bad : \A U \in Bad : ~(<<U, T>> \in StrictSubsetOrdering(S))
  BY <1>2
<1>4. ASSUME NEW U \in SUBSET T, U # T PROVE U \in X
  BY <1>3, <1>4 DEF StrictSubsetOrdering
<1> QED BY <1>4

\* ... and so has one to which a subset belongs together with each that has one element more.
LEMMA GrowingInduction ==
    ASSUME NEW S, IsFiniteSet(S), NEW X, {} \in X,
           \A T \in SUBSET S : \A x \in S \ T : T \in X => T \cup {x} \in X
    PROVE  S \in X
<1>1. ASSUME NEW T \in SUBSET S, \A U \in SUBSET T : U # T => U \in X PROVE T \in X
  <2>1. CASE T = {}
    BY <2>1
  <2>2. ASSUME NEW x \in T PROVE T \in X
    <3>1. T \ {x} \in X
      BY <1>1
    <3>2. (T \ {x}) \cup {x} = T
      OBVIOUS
    <3> QED BY <3>1, <3>2
  <2> QED BY <2>1, <2>2
<1> QED BY <1>1, SubsetInduction

\* The recursive function behind a sum over S, which takes off one element after the other.
Sums(f, S, sum) ==
    sum = [T \in SUBSET S |-> IF T = {} THEN 0 ELSE f[CHOOSE x \in T : TRUE] + sum[T \ {CHOOSE x \in T : TRUE}]]

\* It does what it should on the subsets of up to n elements.
Upto(f, S, n, g) ==
    /\ g \in [SUBSET S -> Nat]
    /\ \A T \in SUBSET S : Cardinality(T) <= n =>
         g[T] = IF T = {} THEN 0 ELSE f[CHOOSE x \in T : TRUE] + g[T \ {CHOOSE x \in T : TRUE}]

\* There is such a function, for values that are natural numbers.
LEMMA SumsExist ==
    ASSUME NEW S, IsFiniteSet(S), NEW f, \A x \in S : f[x] \in Nat
    PROVE  \E sum \in [SUBSET S -> Nat] : Sums(f, S, sum)
<1> DEFINE X == {T \in SUBSET S : \E g : Upto(f, S, Cardinality(T), g)}
<1>0. \A T \in SUBSET S : IsFiniteSet(T) /\ Cardinality(T) \in Nat
  BY FS_Subset, FS_CardinalityType
<1>1. {} \in X
  <2> DEFINE g == [T \in SUBSET S |-> 0]
  <2>1. \A T \in SUBSET S : Cardinality(T) <= Cardinality({}) => T = {}
    BY <1>0, FS_EmptySet
  <2>2. Upto(f, S, Cardinality({}), g)
    BY <2>1 DEF Upto
  <2> QED BY <2>2
<1>2. ASSUME NEW T \in SUBSET S, NEW x \in S \ T, T \in X PROVE T \cup {x} \in X
  <2> DEFINE n == Cardinality(T)
  <2>1. PICK g : Upto(f, S, n, g)
    BY <1>2
  <2>2. n \in Nat /\ Cardinality(T \cup {x}) = n + 1
    BY <1>0, FS_AddElement
  <2> DEFINE h == [U \in SUBSET S |->
                     IF U = {} THEN 0 ELSE f[CHOOSE y \in U : TRUE] + g[U \ {CHOOSE y \in U : TRUE}]]
  <2>3. \A U \in SUBSET S : Cardinality(U) <= n => h[U] = g[U]
    BY <2>1 DEF Upto
  <2>4. h \in [SUBSET S -> Nat]
    <3> SUFFICES ASSUME NEW U \in SUBSET S, U # {} PROVE f[CHOOSE y \in U : TRUE] + g[U \ {CHOOSE y \in U : TRUE}] \in Nat
      OBVIOUS
    <3>1. (CHOOSE y \in U : TRUE) \in U
      OBVIOUS
    <3>2. g[U \ {CHOOSE y \in U : TRUE}] \in Nat
      BY <2>1 DEF Upto
    <3> QED BY <3>1, <3>2
  <2>5. ASSUME NEW U \in SUBSET S, Cardinality(U) <= n + 1, U # {}
        PROVE  h[U] = f[CHOOSE y \in U : TRUE] + h[U \ {CHOOSE y \in U : TRUE}]
    <3> DEFINE y == CHOOSE y \in U : TRUE
    <3>1. y \in U
      BY <2>5
    <3>2. Cardinality(U \ {y}) <= n
      <4>1. Cardinality(U \ {y}) = Cardinality(U) - 1
        BY <1>0, <3>1, FS_RemoveElement
      <4>2. Cardinality(U) \in Nat
        BY <1>0
      <4> QED BY <2>2, <2>5, <4>1, <4>2
    <3>3. h[U \ {y}] = g[U \ {y}]
      BY <2>3, <3>2
    <3> QED BY <2>5, <3>3
  <2>6. Upto(f, S, n + 1, h)
    <3>1. h[{}] = 0
      OBVIOUS
    <3> HIDE DEF h
    <3> QED BY <2>4, <2>5, <3>1 DEF Upto
  <2> HIDE DEF h
  <2> QED BY <2>2, <2>6
<1>3. S \in X
  <2> HIDE DEF X
  <2> QED BY <1>1, <1>2, GrowingInduction
<1>4. PICK g : Upto(f, S, Cardinality(S), g)
  BY <1>3
<1>5. \A T \in SUBSET S : Cardinality(T) <= Cardinality(S)
  BY FS_Subset
<1>6. Sums(f, S, g)
  BY <1>4, <1>5 DEF Sums, Upto
<1> QED BY <1>4, <1>6 DEF Upto

\* The sum over S is its value at S.
LEMMA FoldIsSums ==
    ASSUME NEW f, NEW S, IsFiniteSet(S), \A x \in S : f[x] \in Nat
    PROVE  \E sum : Sums(f, S, sum) /\ SumFunctionOnSet(f, S) = sum[S]
<1>1. PICK g : Sums(f, S, g)
  BY SumsExist
<1> QED BY <1>1 DEF Sums, SumFunctionOnSet, FoldFunctionOnSet, MapThenFoldSet

\* Whichever element is taken off, the rest of the sum is that of the rest of the set.
Additive(f, S, sum) ==
    \A T \in SUBSET S : /\ sum[T] \in Nat
                        /\ \A x \in T : sum[T] = f[x] + sum[T \ {x}]

\* The order in which elements are taken off does not matter.
LEMMA SumsSplit ==
    ASSUME NEW S, IsFiniteSet(S), NEW f, \A x \in S : f[x] \in Nat, NEW sum, Sums(f, S, sum)
    PROVE  Additive(f, S, sum)
<1> DEFINE X == {T \in SUBSET S : sum[T] \in Nat /\ \A x \in T : sum[T] = f[x] + sum[T \ {x}]}
<1>1. ASSUME NEW T \in SUBSET S, \A U \in SUBSET T : U # T => U \in X
      PROVE  T \in X
  <2>1. CASE T = {}
    BY <2>1 DEF Sums
  <2>2. CASE T # {}
    <3> DEFINE c == CHOOSE x \in T : TRUE
    <3>1. c \in T /\ f[c] \in Nat
      BY <2>2
    <3>2. sum[T] = f[c] + sum[T \ {c}]
      BY <2>2 DEF Sums
    <3> HIDE DEF c
    <3>3. T \ {c} \in X
      BY <1>1, <3>1
    <3>4. sum[T] \in Nat
      BY <3>1, <3>2, <3>3
    <3>5. ASSUME NEW x \in T, x # c PROVE sum[T] = f[x] + sum[T \ {x}]
      <4>1. T \ {x} \in X /\ x \in T \ {c} /\ c \in T \ {x} /\ f[x] \in Nat
        BY <1>1, <3>1, <3>5
      <4>2. (T \ {c}) \ {x} = (T \ {x}) \ {c}
        OBVIOUS
      <4>3. (T \ {c}) \ {x} \in X
        <5>1. (T \ {c}) \ {x} \in SUBSET T /\ (T \ {c}) \ {x} # T
          BY <3>1
        <5> QED BY <1>1, <5>1
      <4>4. sum[T \ {c}] = f[x] + sum[(T \ {c}) \ {x}]
        BY <3>3, <4>1
      <4>5. sum[T \ {x}] = f[c] + sum[(T \ {x}) \ {c}]
        BY <4>1
      <4>6. sum[(T \ {c}) \ {x}] \in Nat
        BY <4>3
      <4> DEFINE others == sum[(T \ {c}) \ {x}]
      <4>7. sum[T] = f[c] + (f[x] + others) /\ sum[T \ {x}] = f[c] + others
        BY <3>2, <4>2, <4>4, <4>5
      <4> HIDE DEF others
      <4>8. others \in Nat
        BY <4>6 DEF others
      <4> QED BY <3>1, <4>1, <4>7, <4>8
    <3> QED BY <3>2, <3>4, <3>5
  <2> QED BY <2>1, <2>2
<1>2. \A T \in SUBSET S : T \in X
  <2> HIDE DEF X
  <2> QED BY <1>1, SubsetInduction
<1> QED BY <1>2 DEF Additive

\* A sum over a part does not depend on the set it is a part of.
LEMMA SumsAgree ==
    ASSUME NEW S, IsFiniteSet(S), NEW f, \A x \in S : f[x] \in Nat, NEW sum, Sums(f, S, sum),
           NEW T \in SUBSET S, NEW g, \A x \in T : g[x] = f[x], NEW part, Sums(g, T, part)
    PROVE  part[T] = sum[T]
<1> DEFINE X == {U \in SUBSET T : part[U] = sum[U]}
<1>0. IsFiniteSet(T)
  BY FS_Subset
<1>1. {} \in X
  BY DEF Sums
<1>2. ASSUME NEW U \in SUBSET T, NEW x \in T \ U, U \in X PROVE U \cup {x} \in X
  <2>1. (U \cup {x}) \ {x} = U
    OBVIOUS
  <2>2. part[U \cup {x}] = g[x] + part[U]
    <3>1. \A y \in T : g[y] \in Nat
      OBVIOUS
    <3>2. Additive(g, T, part)
      BY <1>0, <3>1, SumsSplit
    <3>3. part[U \cup {x}] = g[x] + part[(U \cup {x}) \ {x}]
      BY <3>2 DEF Additive
    <3> QED BY <2>1, <3>3
  <2>3. sum[U \cup {x}] = f[x] + sum[U]
    <3>1. Additive(f, S, sum)
      BY SumsSplit
    <3>2. sum[U \cup {x}] = f[x] + sum[(U \cup {x}) \ {x}]
      BY <3>1 DEF Additive
    <3> QED BY <2>1, <3>2
  <2>4. part[U] = sum[U] /\ g[x] = f[x]
    BY <1>2
  <2> QED BY <2>2, <2>3, <2>4
<1>3. T \in X
  <2> HIDE DEF X
  <2> QED BY <1>0, <1>1, <1>2, GrowingInduction
<1> QED BY <1>3

\* Sums: over nothing, 0 ...
LEMMA SumEmpty == ASSUME NEW f PROVE SumFunctionOnSet(f, {}) = 0
<1>1. IsFiniteSet({})
  BY FS_EmptySet
<1>2. PICK sum : Sums(f, {}, sum) /\ SumFunctionOnSet(f, {}) = sum[{}]
  BY <1>1, FoldIsSums
<1> QED BY <1>2 DEF Sums

\* ... of natural numbers, a natural number ...
LEMMA SumNat ==
    ASSUME NEW S, IsFiniteSet(S), NEW f, \A x \in S : f[x] \in Nat
    PROVE  SumFunctionOnSet(f, S) \in Nat
<1>1. PICK sum : Sums(f, S, sum) /\ SumFunctionOnSet(f, S) = sum[S]
  BY FoldIsSums
<1> QED BY <1>1, SumsSplit DEF Additive

\* ... of the same values, the same ...
LEMMA SumSame ==
    ASSUME NEW S, IsFiniteSet(S), NEW f, \A x \in S : f[x] \in Nat, NEW g, \A x \in S : g[x] = f[x]
    PROVE  SumFunctionOnSet(g, S) = SumFunctionOnSet(f, S)
<1>1. PICK sum : Sums(f, S, sum) /\ SumFunctionOnSet(f, S) = sum[S]
  BY FoldIsSums
<1>2. \A x \in S : g[x] \in Nat
  OBVIOUS
<1>3. PICK part : Sums(g, S, part) /\ SumFunctionOnSet(g, S) = part[S]
  BY <1>2, FoldIsSums
<1> QED BY <1>1, <1>3, SumsAgree

\* ... of an element and the rest ...
LEMMA SumSplit ==
    ASSUME NEW S, IsFiniteSet(S), NEW f, \A x \in S : f[x] \in Nat, NEW x \in S
    PROVE  SumFunctionOnSet(f, S) = f[x] + SumFunctionOnSet(f, S \ {x})
<1>1. PICK sum : Sums(f, S, sum) /\ SumFunctionOnSet(f, S) = sum[S]
  BY FoldIsSums
<1>2. IsFiniteSet(S \ {x})
  BY FS_RemoveElement
<1>3. PICK part : Sums(f, S \ {x}, part) /\ SumFunctionOnSet(f, S \ {x}) = part[S \ {x}]
  BY <1>2, FoldIsSums
<1>4. part[S \ {x}] = sum[S \ {x}]
  BY <1>1, <1>3, SumsAgree
<1>5. Additive(f, S, sum)
  BY <1>1, SumsSplit
<1>6. sum[S] = f[x] + sum[S \ {x}]
  BY <1>5 DEF Additive
<1> QED BY <1>1, <1>3, <1>4, <1>6

\* ... over fewer elements, no more ...
LEMMA SumFewer ==
    ASSUME NEW S, IsFiniteSet(S), NEW f, \A x \in S : f[x] \in Nat, NEW T \in SUBSET S
    PROVE  SumFunctionOnSet(f, T) <= SumFunctionOnSet(f, S)
<1> DEFINE X == {U \in SUBSET (S \ T) : SumFunctionOnSet(f, T) <= SumFunctionOnSet(f, T \cup U)}
<1>0. IsFiniteSet(T) /\ IsFiniteSet(S \ T)
  BY FS_Subset
<1>1. {} \in X
  <2>1. SumFunctionOnSet(f, T) \in Nat
    BY <1>0, SumNat
  <2>2. T \cup {} = T
    OBVIOUS
  <2> QED BY <2>1, <2>2
<1>2. ASSUME NEW U \in SUBSET (S \ T), NEW x \in (S \ T) \ U, U \in X PROVE U \cup {x} \in X
  <2>1. IsFiniteSet(T \cup (U \cup {x}))
    BY FS_Subset
  <2>2. \A y \in T \cup (U \cup {x}) : f[y] \in Nat
    OBVIOUS
  <2>3. (T \cup (U \cup {x})) \ {x} = T \cup U /\ x \in T \cup (U \cup {x})
    OBVIOUS
  <2>4. SumFunctionOnSet(f, T \cup (U \cup {x})) = f[x] + SumFunctionOnSet(f, (T \cup (U \cup {x})) \ {x})
    <3> HIDE DEF X
    <3> QED BY <2>1, <2>2, <2>3, SumSplit
  <2>5. SumFunctionOnSet(f, T \cup U) \in Nat /\ SumFunctionOnSet(f, T) \in Nat
    <3>1. IsFiniteSet(T \cup U)
      BY FS_Subset
    <3> QED BY <1>0, <3>1, SumNat
  <2>6. f[x] \in Nat /\ SumFunctionOnSet(f, T) <= SumFunctionOnSet(f, T \cup U)
    BY <1>2
  <2>7. SumFunctionOnSet(f, T) <= SumFunctionOnSet(f, T \cup (U \cup {x}))
    BY <2>3, <2>4, <2>5, <2>6
  <2> QED BY <2>7
<1>3. S \ T \in X
  <2> HIDE DEF X
  <2> QED BY <1>0, <1>1, <1>2, GrowingInduction
<1>4. T \cup (S \ T) = S
  OBVIOUS
<1> QED BY <1>3, <1>4

\* ... over other names of the elements, the same ...
LEMMA SumRenamed ==
    ASSUME NEW S, IsFiniteSet(S), NEW f, \A x \in S : f[x] \in Nat,
           NEW T, IsFiniteSet(T), NEW g,
           NEW h \in [S -> T], \A y \in T : \E x \in S : y = h[x],
           \A x, y \in S : h[x] = h[y] => x = y,
           \A x \in S : f[x] = g[h[x]]
    PROVE  SumFunctionOnSet(f, S) = SumFunctionOnSet(g, T)
<1> DEFINE Image(U) == {h[x] : x \in U}
           X == {U \in SUBSET S : SumFunctionOnSet(f, U) = SumFunctionOnSet(g, Image(U))}
<1>0. \A U \in SUBSET S : IsFiniteSet(U) /\ IsFiniteSet(Image(U)) /\ \A y \in Image(U) : g[y] \in Nat
  <2> SUFFICES ASSUME NEW U \in SUBSET S PROVE IsFiniteSet(U) /\ IsFiniteSet(Image(U)) /\ \A y \in Image(U) : g[y] \in Nat
    OBVIOUS
  <2>1. Image(U) \in SUBSET T
    OBVIOUS
  <2>2. IsFiniteSet(U) /\ IsFiniteSet(Image(U))
    <3> HIDE DEF Image
    <3> QED BY <2>1, FS_Subset
  <2> QED BY <2>2
<1>1. {} \in X
  <2>1. Image({}) = {}
    OBVIOUS
  <2> QED BY <2>1, SumEmpty
<1>2. ASSUME NEW U \in SUBSET S, NEW x \in S \ U, U \in X PROVE U \cup {x} \in X
  <2> DEFINE V == U \cup {x}
  <2>1. V \ {x} = U /\ x \in V /\ V \in SUBSET S
    OBVIOUS
  <2>2. Image(V) \ {h[x]} = Image(U) /\ h[x] \in Image(V)
    OBVIOUS
  <2>3. SumFunctionOnSet(f, U) = SumFunctionOnSet(g, Image(U))
    BY <1>2
  <2> HIDE DEF V, Image, X
  <2>4. SumFunctionOnSet(f, V) = f[x] + SumFunctionOnSet(f, V \ {x})
    <3>1. IsFiniteSet(V) /\ \A y \in V : f[y] \in Nat
      BY <1>0, <2>1
    <3> QED BY <2>1, <3>1, SumSplit
  <2>5. SumFunctionOnSet(g, Image(V)) = g[h[x]] + SumFunctionOnSet(g, Image(V) \ {h[x]})
    <3>1. IsFiniteSet(Image(V)) /\ \A y \in Image(V) : g[y] \in Nat
      BY <1>0, <2>1
    <3> QED BY <2>2, <3>1, SumSplit
  <2>6. SumFunctionOnSet(f, V) = SumFunctionOnSet(g, Image(V))
    BY <2>1, <2>2, <2>3, <2>4, <2>5
  <2> QED BY <2>1, <2>6 DEF X, V
<1>3. S \in X
  <2> HIDE DEF X
  <2> QED BY <1>1, <1>2, GrowingInduction
<1>4. Image(S) = T
  OBVIOUS
<1> QED BY <1>3, <1>4

\* ... of values up to a hundred times others, up to a hundred times their sum ...
LEMMA SumAtMost ==
    ASSUME NEW S, IsFiniteSet(S), NEW f, \A x \in S : f[x] \in Nat,
           NEW g, \A x \in S : g[x] \in Nat, \A x \in S : f[x] <= 100 * g[x]
    PROVE  SumFunctionOnSet(f, S) <= 100 * SumFunctionOnSet(g, S)
<1> DEFINE X == {U \in SUBSET S : SumFunctionOnSet(f, U) <= 100 * SumFunctionOnSet(g, U)}
<1>0. \A U \in SUBSET S : IsFiniteSet(U)
  BY FS_Subset
<1>1. {} \in X
  BY SumEmpty
<1>2. ASSUME NEW U \in SUBSET S, NEW x \in S \ U, U \in X PROVE U \cup {x} \in X
  <2> DEFINE V == U \cup {x}
  <2>1. V \ {x} = U /\ x \in V /\ V \in SUBSET S
    OBVIOUS
  <2>2. SumFunctionOnSet(f, U) <= 100 * SumFunctionOnSet(g, U)
    BY <1>2
  <2> HIDE DEF V, X
  <2>3. IsFiniteSet(V) /\ (\A y \in V : f[y] \in Nat) /\ (\A y \in V : g[y] \in Nat)
    BY <1>0, <2>1
  <2>4. SumFunctionOnSet(f, V) = f[x] + SumFunctionOnSet(f, U)
    BY <2>1, <2>3, SumSplit
  <2>5. SumFunctionOnSet(g, V) = g[x] + SumFunctionOnSet(g, U)
    BY <2>1, <2>3, SumSplit
  <2>6. SumFunctionOnSet(f, U) \in Nat /\ SumFunctionOnSet(g, U) \in Nat
    <3>1. IsFiniteSet(U) /\ (\A y \in U : f[y] \in Nat) /\ (\A y \in U : g[y] \in Nat)
      BY <1>0
    <3> QED BY <3>1, SumNat
  <2>7. f[x] \in Nat /\ g[x] \in Nat /\ f[x] <= 100 * g[x]
    OBVIOUS
  <2>8. SumFunctionOnSet(f, V) <= 100 * SumFunctionOnSet(g, V)
    BY <2>2, <2>4, <2>5, <2>6, <2>7
  <2> QED BY <2>1, <2>8 DEF X, V
<1>3. S \in X
  <2> HIDE DEF X
  <2> QED BY <1>1, <1>2, GrowingInduction
<1> QED BY <1>3

\* ... and of positive values, positive unless there are none.
LEMMA SumPositive ==
    ASSUME NEW S, IsFiniteSet(S), NEW f, \A x \in S : f[x] \in Nat \ {0}
    PROVE  SumFunctionOnSet(f, S) > 0 <=> S # {}
<1>1. CASE S = {}
  BY <1>1, SumEmpty
<1>2. ASSUME NEW x \in S PROVE SumFunctionOnSet(f, S) > 0
  <2>1. SumFunctionOnSet(f, S) = f[x] + SumFunctionOnSet(f, S \ {x})
    BY SumSplit
  <2>2. SumFunctionOnSet(f, S \ {x}) \in Nat
    <3>1. IsFiniteSet(S \ {x})
      BY FS_RemoveElement
    <3> QED BY <3>1, SumNat
  <2> QED BY <2>1, <2>2
<1> QED BY <1>1, <1>2

-----------------------------------------------------------------------------
(* The warning letters of WarningLetters. *)

Recorded == {r \in Records : ofStudent[r] # NoStudent}

RecordsOf(s) == {r \in Records : ofStudent[r] = s}

\* There are finitely many records, and each has its type.
RecordsTyped ==
    /\ IsFiniteSet(Recorded)
    /\ \A r \in Records : ofStudent[r] \in Students => ofType[r] \in Types

\* Who is at a stage has what the stage needs.
RecordersReady ==
    \A c \in Recorders :
        /\ doing[c] # "idle" => pupil[c] \in Students /\ offence[c] \in Types
        /\ doing[c] = "idle" => pupil[c] = NoStudent
        /\ doing[c] \in {"number", "letter"} => level[c] \in Levels
        /\ doing[c] = "letter" => drawn[c] \in 1..lastSeq

\* A letter of this level, or of a higher one.
HasLetter(s, l) == \E m \in l..3 : letters[<<s, m>>] # 0

\* The call has yet to read what this student has reached, or has read it and will act on it.
WillWarn(c, s) ==
    /\ pupil[c] = s
    /\ \/ doing[c] = "list"
       \/ doing[c] = "settings" /\ Points(s) <= total[c]
       \/ doing[c] = "letters" /\ Reached(Points(s)) \subseteq reached[c]
       \/ doing[c] \in {"number", "letter"} /\ \A l \in Reached(Points(s)) : l <= level[c] \/ HasLetter(s, l)

\* The student is warned, or will be.
Evaluated(s) ==
    \/ \A l \in Reached(Points(s)) : HasLetter(s, l)
    \/ \E c \in Recorders : WillWarn(c, s)

\* A number is drawn once and carried by one letter.
NumbersApart ==
    /\ \A k \in Students \X Levels : letters[k] <= lastSeq
    /\ \A j, k \in Students \X Levels : letters[j] # 0 /\ letters[j] = letters[k] => j = k
    /\ \A c \in Recorders : doing[c] = "letter" =>
         /\ \A k \in Students \X Levels : letters[k] # drawn[c]
         /\ \A b \in Recorders : doing[b] = "letter" /\ drawn[b] = drawn[c] => b = c

WarningInv ==
    /\ WarningTypeOK /\ RecordsTyped /\ RecordersReady /\ NumbersApart
    /\ \A s \in Students \ overdue : Evaluated(s)

\* The points of a student add up.
LEMMA PointsNat ==
    ASSUME WarningTypeOK, RecordsTyped, NEW s \in Students
    PROVE  /\ Points(s) \in Nat
           /\ IsFiniteSet(RecordsOf(s))
           /\ \A r \in RecordsOf(s) : worth[ofType[r]] \in Nat
<1> USE LettersAssumption
<1>1. IsFiniteSet(RecordsOf(s))
  <2>1. RecordsOf(s) \subseteq Recorded
    BY DEF RecordsOf, Recorded
  <2> QED BY <2>1, FS_Subset DEF RecordsTyped
<1>2. \A r \in RecordsOf(s) : worth[ofType[r]] \in Nat
  <2>1. \A t \in Types : worth[t] \in PointValues \cup {0}
    BY DEF WarningTypeOK
  <2>2. \A r \in RecordsOf(s) : ofType[r] \in Types
    BY DEF RecordsOf, RecordsTyped
  <2>3. PointValues \cup {0} \subseteq Nat
    BY LettersAssumption
  <2> QED BY <2>1, <2>2, <2>3
<1> DEFINE f == [r \in RecordsOf(s) |-> worth[ofType[r]]]
<1>3. SumFunctionOnSet(f, RecordsOf(s)) \in Nat
  <2>1. \A r \in RecordsOf(s) : f[r] \in Nat
    BY <1>2
  <2> HIDE DEF f
  <2> QED BY <1>1, <2>1, SumNat
<1>4. Points(s) = SumFunctionOnSet(f, RecordsOf(s))
  BY DEF Points, RecordsOf, SumFunction
<1> QED BY <1>1, <1>2, <1>3, <1>4

\* The same as an implication.
LEMMA PointsTyped == WarningTypeOK /\ RecordsTyped => \A p \in Students : Points(p) \in Nat
BY PointsNat

\* The points of a student are those of his records: nothing else changes them.
LEMMA PointsFrame ==
    ASSUME NEW s, RecordsOf(s)' = RecordsOf(s),
           \A r \in RecordsOf(s) : worth'[ofType'[r]] = worth[ofType[r]]
    PROVE  Points(s)' = Points(s)
<1>1. [r \in RecordsOf(s) |-> worth[ofType[r]]]' = [r \in RecordsOf(s) |-> worth[ofType[r]]]
  OBVIOUS
<1>2. Points(s) = SumFunction([r \in RecordsOf(s) |-> worth[ofType[r]]])
  BY DEF Points, RecordsOf
<1>3. Points(s)' = SumFunction([r \in RecordsOf(s) |-> worth[ofType[r]]]')
  BY DEF Points, RecordsOf
<1> QED BY <1>1, <1>2, <1>3

\* The deletion of a record takes points away.
LEMMA PointsFewer ==
    ASSUME WarningTypeOK, RecordsTyped, NEW s \in Students,
           RecordsOf(s)' \subseteq RecordsOf(s),
           \A r \in RecordsOf(s)' : worth'[ofType'[r]] = worth[ofType[r]]
    PROVE  Points(s)' <= Points(s)
<1> DEFINE f == [r \in RecordsOf(s) |-> worth[ofType[r]]]
           g == [r \in RecordsOf(s)' |-> worth'[ofType'[r]]]
<1>1. IsFiniteSet(RecordsOf(s)) /\ IsFiniteSet(RecordsOf(s)')
  BY PointsNat, FS_Subset
<1>2. /\ \A r \in RecordsOf(s) : f[r] \in Nat
      /\ \A r \in RecordsOf(s)' : f[r] \in Nat /\ g[r] = f[r]
  BY PointsNat
<1>3. Points(s) = SumFunctionOnSet(f, RecordsOf(s)) /\ Points(s)' = SumFunctionOnSet(g, RecordsOf(s)')
  BY DEF Points, RecordsOf, SumFunction
<1> HIDE DEF f, g
<1>4. SumFunctionOnSet(g, RecordsOf(s)') = SumFunctionOnSet(f, RecordsOf(s)')
  BY <1>1, <1>2, SumSame
<1>5. SumFunctionOnSet(f, RecordsOf(s)') <= SumFunctionOnSet(f, RecordsOf(s))
  BY <1>1, <1>2, SumFewer
<1> QED BY <1>3, <1>4, <1>5

\* Nothing is recorded to begin with.
LEMMA WarningInitially == WarningInit => WarningInv
<1> USE LettersAssumption
<1> SUFFICES ASSUME WarningInit PROVE WarningInv
  OBVIOUS
<1>1. WarningTypeOK
  BY DEF WarningInit, WarningTypeOK, Levels, Stages
<1>2. RecordsTyped
  <2>1. Recorded = {}
    BY DEF WarningInit, Recorded
  <2> QED BY <2>1, FS_EmptySet DEF WarningInit, RecordsTyped
<1>3. RecordersReady /\ NumbersApart
  BY DEF WarningInit, RecordersReady, NumbersApart
<1>4. ASSUME NEW s \in Students PROVE Evaluated(s)
  <2>1. RecordsOf(s) = {}
    BY DEF WarningInit, RecordsOf
  <2>2. Points(s) = 0
    <3> DEFINE f == [r \in RecordsOf(s) |-> worth[ofType[r]]]
    <3>1. Points(s) = SumFunctionOnSet(f, RecordsOf(s))
      BY DEF Points, RecordsOf, SumFunction
    <3> HIDE DEF f
    <3> QED BY <2>1, <3>1, SumEmpty
  <2>3. \A l \in Levels : limits[l] \in Nat \ {0}
    BY DEF WarningInit
  <2>4. Reached(Points(s)) = {}
    BY <2>2, <2>3 DEF Reached
  <2> QED BY <2>4 DEF Evaluated
<1> QED BY <1>1, <1>2, <1>3, <1>4 DEF WarningInv

\* Types are kept.
LEMMA WarningTypesStep ==
    ASSUME WarningInv, [WarningNext]_warningVars
    PROVE  WarningTypeOK'
<1> USE LettersAssumption DEF Stages, Levels
<1>1. ASSUME NEW c \in Recorders, NEW s \in Students, NEW t \in Types, RecordViolation(c, s, t) PROVE WarningTypeOK'
  BY <1>1 DEF RecordViolation, Go, typeVars, recordVars, letterVars, WarningInv, WarningTypeOK, RecordersReady
<1>2. ASSUME NEW c \in Recorders, CreateStudentViolation(c) PROVE WarningTypeOK'
  BY <1>2 DEF CreateStudentViolation, Go, typeVars, letterVars, caller, WarningInv, WarningTypeOK, RecordersReady
<1>3. ASSUME NEW c \in Recorders, ListViolations(c) PROVE WarningTypeOK'
  <2>1. Points(pupil[c]) \in Nat
    BY <1>3, PointsNat DEF ListViolations, WarningInv, RecordersReady
  <2> QED BY <1>3, <2>1 DEF WarningInv, WarningTypeOK, RecordersReady, ListViolations, Go, typeVars, recordVars, letterVars, caller
<1>4. ASSUME NEW c \in Recorders, GetSPSettings(c) PROVE WarningTypeOK'
  BY <1>4 DEF GetSPSettings, Reached, Go, typeVars, recordVars, letterVars, caller, WarningInv, WarningTypeOK, RecordersReady
<1>5. ASSUME NEW c \in Recorders, ListWarningLetters(c) PROVE WarningTypeOK'
  <2> USE <1>5 DEF ListWarningLetters, Go, typeVars, recordVars, letterVars, caller, WarningInv, WarningTypeOK
  <2>1. CASE HighestMissing(pupil[c], reached[c]) = {}
    BY <2>1 DEF Leave
  <2>2. CASE HighestMissing(pupil[c], reached[c]) # {}
    <3>1. HighestMissing(pupil[c], reached[c]) \subseteq 1..3
      BY DEF HighestMissing
    <3>2. PICK l \in 1..3 : level' = [level EXCEPT ![c] = l]
      BY <2>2, <3>1
    <3> QED BY <2>2, <3>2
  <2> QED BY <2>1, <2>2
<1>6. ASSUME NEW c \in Recorders, NextLetterNumber(c) PROVE WarningTypeOK'
  BY <1>6 DEF NextLetterNumber, Go, typeVars, recordVars, caller, WarningInv, WarningTypeOK, RecordersReady
<1>7. ASSUME NEW c \in Recorders, CreateWarningLetter(c) PROVE WarningTypeOK'
  BY <1>7 DEF CreateWarningLetter, Leave, Go, typeVars, recordVars, WarningInv, WarningTypeOK, RecordersReady
<1>8. ASSUME NEW c \in Recorders, CallFails(c) PROVE WarningTypeOK'
  BY <1>8 DEF CallFails, Leave, Go, typeVars, recordVars, letterVars, WarningInv, WarningTypeOK, RecordersReady
<1>9. ASSUME NEW r \in Records, DeleteRecord(r) PROVE WarningTypeOK'
  BY <1>9 DEF DeleteRecord, typeVars, letterVars, recorder, caller, WarningInv, WarningTypeOK, RecordersReady
<1>10. ASSUME NEW t \in Types, NEW p \in PointValues, NEW b \in BOOLEAN, SaveViolationType(t, p, b) PROVE WarningTypeOK'
  BY <1>10 DEF SaveViolationType, Edit, recordVars, letterVars, recorder, caller, WarningInv, WarningTypeOK, RecordersReady
<1>11. ASSUME NEW t \in Types, DeleteViolationType(t) PROVE WarningTypeOK'
  BY <1>11 DEF DeleteViolationType, Edit, recordVars, letterVars, recorder, caller, WarningInv, WarningTypeOK, RecordersReady
<1>12. ASSUME NEW T \in Thresholds, PutSPSettings(T) PROVE WarningTypeOK'
  BY <1>12 DEF PutSPSettings, Edit, typeVars, recordVars, letterVars, recorder, caller, WarningInv, WarningTypeOK, RecordersReady
<1>13. CASE UNCHANGED warningVars
  BY <1>13 DEF warningVars, typeVars, recordVars, letterVars, recorder, caller, WarningInv, WarningTypeOK, RecordersReady
<1> QED BY <1>1, <1>2, <1>3, <1>4, <1>5, <1>6, <1>7, <1>8, <1>9, <1>10, <1>11, <1>12, <1>13 DEF WarningNext

\* One record is written or deleted at a time.
LEMMA RecordsTypedStep ==
    ASSUME WarningInv, [WarningNext]_warningVars
    PROVE  RecordsTyped'
<1> USE DEF WarningInv, RecordsTyped
<1>1. CASE UNCHANGED recordVars
  BY <1>1 DEF recordVars, Recorded
<1>2. ASSUME NEW c \in Recorders, CreateStudentViolation(c) PROVE RecordsTyped'
  <2>1. pupil[c] \in Students /\ offence[c] \in Types
    BY <1>2 DEF CreateStudentViolation, RecordersReady
  <2>2. PICK r \in Records : /\ ofStudent' = [ofStudent EXCEPT ![r] = pupil[c]]
                             /\ ofType' = [ofType EXCEPT ![r] = offence[c]]
    BY <1>2 DEF CreateStudentViolation
  <2>3. Recorded' = Recorded \cup {r}
    <3>1. pupil[c] # NoStudent
      BY <2>1, LettersAssumption
    <3> QED BY <2>2, <3>1 DEF Recorded, WarningTypeOK
  <2>4. IsFiniteSet(Recorded')
    BY <2>3, FS_AddElement
  <2> QED BY <2>1, <2>2, <2>4 DEF WarningTypeOK
<1>3. ASSUME NEW r \in Records, DeleteRecord(r) PROVE RecordsTyped'
  <2>1. Recorded' = Recorded \ {r}
    BY <1>3 DEF DeleteRecord, Recorded, WarningTypeOK
  <2>2. IsFiniteSet(Recorded')
    BY <2>1, FS_RemoveElement
  <2>3. NoStudent \notin Students
    BY LettersAssumption
  <2> QED BY <1>3, <2>2, <2>3 DEF DeleteRecord, WarningTypeOK
<1>4. [WarningNext]_warningVars => \/ UNCHANGED recordVars
                                   \/ \E c \in Recorders : CreateStudentViolation(c)
                                   \/ \E r \in Records : DeleteRecord(r)
  BY DEF WarningNext, RecordViolation, ListViolations, GetSPSettings, ListWarningLetters, NextLetterNumber,
         CreateWarningLetter, CallFails, SaveViolationType, DeleteViolationType, PutSPSettings, Edit, warningVars
<1> QED BY <1>1, <1>2, <1>3, <1>4

\* What the calls carry.
LEMMA RecordersStep ==
    ASSUME WarningInv, [WarningNext]_warningVars
    PROVE  RecordersReady' /\ NumbersApart'
<1> USE LettersAssumption DEF Stages, Levels, Go
<1>1. ASSUME NEW c \in Recorders, NEW s \in Students, NEW t \in Types, RecordViolation(c, s, t)
      PROVE  RecordersReady' /\ NumbersApart'
  BY <1>1 DEF RecordViolation, letterVars, WarningInv, WarningTypeOK, RecordersReady, NumbersApart
<1>2. ASSUME NEW c \in Recorders, CreateStudentViolation(c) PROVE RecordersReady' /\ NumbersApart'
  BY <1>2 DEF CreateStudentViolation, letterVars, caller, WarningInv, WarningTypeOK, RecordersReady, NumbersApart
<1>3. ASSUME NEW c \in Recorders, ListViolations(c) PROVE RecordersReady' /\ NumbersApart'
  BY <1>3 DEF ListViolations, letterVars, caller, WarningInv, WarningTypeOK, RecordersReady, NumbersApart
<1>4. ASSUME NEW c \in Recorders, GetSPSettings(c) PROVE RecordersReady' /\ NumbersApart'
  BY <1>4 DEF GetSPSettings, letterVars, caller, WarningInv, WarningTypeOK, RecordersReady, NumbersApart
<1>5. ASSUME NEW c \in Recorders, ListWarningLetters(c) PROVE RecordersReady' /\ NumbersApart'
  <2> USE <1>5 DEF ListWarningLetters, letterVars, caller, WarningInv, WarningTypeOK, RecordersReady, NumbersApart
  <2>1. CASE HighestMissing(pupil[c], reached[c]) = {}
    BY <2>1 DEF Leave
  <2>2. CASE HighestMissing(pupil[c], reached[c]) # {}
    <3>1. HighestMissing(pupil[c], reached[c]) \subseteq Levels
      BY DEF HighestMissing
    <3> QED BY <2>2, <3>1
  <2> QED BY <2>1, <2>2
<1>6. ASSUME NEW c \in Recorders, NextLetterNumber(c) PROVE RecordersReady' /\ NumbersApart'
  BY <1>6 DEF NextLetterNumber, caller, WarningInv, WarningTypeOK, RecordersReady, NumbersApart
<1>7. ASSUME NEW c \in Recorders, CreateWarningLetter(c) PROVE RecordersReady' /\ NumbersApart'
  BY <1>7 DEF CreateWarningLetter, Leave, WarningInv, WarningTypeOK, RecordersReady, NumbersApart
<1>8. ASSUME NEW c \in Recorders, CallFails(c) PROVE RecordersReady' /\ NumbersApart'
  BY <1>8 DEF CallFails, Leave, letterVars, WarningInv, WarningTypeOK, RecordersReady, NumbersApart
<1>9. CASE UNCHANGED <<letterVars, recorder>>
  BY <1>9 DEF letterVars, recorder, caller, WarningInv, RecordersReady, NumbersApart
<1>10. [WarningNext]_warningVars =>
         \/ UNCHANGED <<letterVars, recorder>>
         \/ \E c \in Recorders :
              \/ \E s \in Students, t \in Types : RecordViolation(c, s, t)
              \/ CreateStudentViolation(c) \/ ListViolations(c) \/ GetSPSettings(c) \/ ListWarningLetters(c)
              \/ NextLetterNumber(c) \/ CreateWarningLetter(c) \/ CallFails(c)
  BY DEF WarningNext, DeleteRecord, SaveViolationType, DeleteViolationType, PutSPSettings, Edit, warningVars
<1> QED BY <1>1, <1>2, <1>3, <1>4, <1>5, <1>6, <1>7, <1>8, <1>9, <1>10

\* What remains of a step for the evaluation of a student: the points have not grown,
\* no letter has gone, and a call that would warn him still will, or need not.
LEMMA EvaluatedStays ==
    ASSUME WarningInv, WarningTypeOK', RecordsTyped', NEW s \in Students, s \notin overdue,
           limits' = limits, Points(s)' <= Points(s),
           \A l \in Levels : HasLetter(s, l) => HasLetter(s, l)',
           \A b \in Recorders : WillWarn(b, s) =>
               \/ /\ doing'[b] = doing[b] /\ pupil'[b] = pupil[b] /\ total'[b] = total[b]
                  /\ reached'[b] = reached[b] /\ level'[b] = level[b]
               \/ Evaluated(s)'
    PROVE  Evaluated(s)'
<1>1. Points(s) \in Nat /\ Points(s)' \in Nat
  <2>1. Points(s) \in Nat
    BY PointsNat DEF WarningInv
  <2>2. Points(s)' \in Nat
    <3>1. (WarningTypeOK /\ RecordsTyped => \A p \in Students : Points(p) \in Nat)'
      BY PointsTyped, PTL
    <3> QED BY <3>1
  <2> QED BY <2>1, <2>2
<1>2. \A l \in Levels : limits[l] \in Nat
  BY LettersAssumption DEF WarningInv, WarningTypeOK
<1>3. Reached(Points(s))' \subseteq Reached(Points(s)) /\ Reached(Points(s)) \subseteq Levels
  BY <1>1, <1>2 DEF Reached
<1>4. CASE \A l \in Reached(Points(s)) : HasLetter(s, l)
  BY <1>3, <1>4 DEF Evaluated
<1>5. ASSUME NEW b \in Recorders, WillWarn(b, s),
             doing'[b] = doing[b], pupil'[b] = pupil[b], total'[b] = total[b],
             reached'[b] = reached[b], level'[b] = level[b]
      PROVE  Evaluated(s)'
  <2>1. total[b] \in Nat
    BY DEF WarningInv, WarningTypeOK
  <2>2. WillWarn(b, s)'
    BY <1>1, <1>3, <1>5, <2>1 DEF WillWarn
  <2> QED BY <2>2 DEF Evaluated
<1> QED BY <1>4, <1>5 DEF WarningInv, Evaluated

\* Who writes no record and edits no type changes no points.
LEMMA PointsUnchanged ==
    ASSUME WarningInv, NEW s \in Students, UNCHANGED <<worth, recordVars>>
    PROVE  Points(s)' = Points(s) /\ Points(s)' <= Points(s)
<1>1. Points(s)' = Points(s)
  <2>1. RecordsOf(s)' = RecordsOf(s)
    BY DEF RecordsOf, recordVars
  <2> QED BY <2>1, PointsFrame DEF recordVars
<1>2. Points(s) \in Nat
  BY PointsNat DEF WarningInv
<1> QED BY <1>1, <1>2

\* A student who is not overdue is warned, or will be, after every step.
LEMMA EvaluatedStep ==
    ASSUME WarningInv, WarningTypeOK', RecordsTyped', [WarningNext]_warningVars,
           NEW s \in Students, s \notin overdue'
    PROVE  Evaluated(s)'
<1> USE DEF Go
<1>1. ASSUME NEW c \in Recorders, NEW p \in Students, NEW t \in Types, RecordViolation(c, p, t) PROVE Evaluated(s)'
  <2>1. Points(s)' <= Points(s)
    BY <1>1, PointsUnchanged DEF RecordViolation, typeVars
  <2>2. \A b \in Recorders : WillWarn(b, s) => b # c
    BY <1>1 DEF RecordViolation, WillWarn
  <2>3. \A l \in Levels : HasLetter(s, l)' = HasLetter(s, l)
    BY <1>1 DEF RecordViolation, HasLetter, letterVars
  <2> QED BY <1>1, <2>1, <2>2, <2>3, EvaluatedStays DEF RecordViolation, WarningInv, WarningTypeOK
<1>2. ASSUME NEW c \in Recorders, CreateStudentViolation(c) PROVE Evaluated(s)'
  <2>1. CASE pupil[c] = s
    <3>1. WillWarn(c, s)'
      BY <1>2, <2>1 DEF CreateStudentViolation, WillWarn, caller, WarningInv, WarningTypeOK
    <3> QED BY <3>1 DEF Evaluated
  <2>2. CASE pupil[c] # s
    <3>1. PICK r \in Records : /\ ofStudent[r] = NoStudent
                               /\ ofStudent' = [ofStudent EXCEPT ![r] = pupil[c]]
                               /\ ofType' = [ofType EXCEPT ![r] = offence[c]]
      BY <1>2 DEF CreateStudentViolation
    <3>2. r \notin RecordsOf(s) /\ RecordsOf(s)' = RecordsOf(s)
      BY <2>2, <3>1, LettersAssumption DEF RecordsOf, WarningInv, WarningTypeOK
    <3>3. \A q \in RecordsOf(s) : worth'[ofType'[q]] = worth[ofType[q]]
      BY <1>2, <3>1, <3>2 DEF CreateStudentViolation, RecordsOf, typeVars, WarningInv, WarningTypeOK
    <3>4. Points(s)' = Points(s)
      BY <3>2, <3>3, PointsFrame
    <3>5. Points(s)' <= Points(s)
      BY <3>4, PointsNat DEF WarningInv
    <3>6. \A l \in Levels : HasLetter(s, l)' = HasLetter(s, l)
      BY <1>2 DEF CreateStudentViolation, HasLetter, letterVars
    <3>7. \A b \in Recorders : WillWarn(b, s) => b # c
      BY <2>2 DEF WillWarn
    <3> QED BY <1>2, <3>5, <3>6, <3>7, EvaluatedStays DEF CreateStudentViolation, caller, WarningInv, WarningTypeOK
  <2> QED BY <2>1, <2>2
<1>3. ASSUME NEW c \in Recorders, ListViolations(c) PROVE Evaluated(s)'
  <2>1. Points(s)' = Points(s) /\ Points(s)' <= Points(s)
    BY <1>3, PointsUnchanged DEF ListViolations, typeVars
  <2>2. CASE pupil[c] = s
    <3>1. Points(s) \in Nat
      BY PointsNat DEF WarningInv
    <3>2. WillWarn(c, s)'
      BY <1>3, <2>1, <2>2, <3>1 DEF ListViolations, WillWarn, caller, WarningInv, WarningTypeOK
    <3> QED BY <3>2 DEF Evaluated
  <2>3. CASE pupil[c] # s
    <3>1. \A l \in Levels : HasLetter(s, l)' = HasLetter(s, l)
      BY <1>3 DEF ListViolations, HasLetter, letterVars
    <3>2. s \notin overdue
      BY <1>3, <2>3 DEF ListViolations
    <3>3. \A b \in Recorders : WillWarn(b, s) => b # c
      BY <2>3 DEF WillWarn
    <3> QED BY <1>3, <2>1, <3>1, <3>2, <3>3, EvaluatedStays DEF ListViolations, caller, WarningInv, WarningTypeOK
  <2> QED BY <2>2, <2>3
<1>4. ASSUME NEW c \in Recorders, GetSPSettings(c) PROVE Evaluated(s)'
  <2>1. Points(s)' = Points(s) /\ Points(s)' <= Points(s)
    BY <1>4, PointsUnchanged DEF GetSPSettings, typeVars
  <2>2. \A l \in Levels : HasLetter(s, l)' = HasLetter(s, l)
    BY <1>4 DEF GetSPSettings, HasLetter, letterVars
  <2>3. ASSUME WillWarn(c, s) PROVE Evaluated(s)'
    <3>1. Points(s) \in Nat /\ total[c] \in Nat /\ \A l \in Levels : limits[l] \in Nat
      BY PointsNat, LettersAssumption DEF WarningInv, WarningTypeOK
    <3>2. Reached(Points(s)) \subseteq Reached(total[c])
      BY <1>4, <2>3, <3>1 DEF WillWarn, GetSPSettings, Reached
    <3>3. Reached(Points(s))' = Reached(Points(s))
      BY <1>4, <2>1 DEF GetSPSettings, Reached
    <3>4. WillWarn(c, s)'
      BY <1>4, <2>3, <3>2, <3>3 DEF WillWarn, GetSPSettings, caller, WarningInv, WarningTypeOK
    <3> QED BY <3>4 DEF Evaluated
  <2> QED BY <1>4, <2>1, <2>2, <2>3, EvaluatedStays DEF GetSPSettings, caller, WarningInv, WarningTypeOK
<1>5. ASSUME NEW c \in Recorders, ListWarningLetters(c) PROVE Evaluated(s)'
  <2>1. Points(s)' = Points(s) /\ Points(s)' <= Points(s)
    BY <1>5, PointsUnchanged DEF ListWarningLetters, typeVars
  <2>2. \A l \in Levels : HasLetter(s, l)' = HasLetter(s, l)
    BY <1>5 DEF ListWarningLetters, HasLetter, letterVars
  <2>3. Reached(Points(s))' = Reached(Points(s))
    BY <1>5, <2>1 DEF ListWarningLetters, Reached
  <2>4. ASSUME WillWarn(c, s) PROVE Evaluated(s)'
    <3>1. pupil[c] = s /\ reached[c] \subseteq Levels /\ Reached(Points(s)) \subseteq reached[c]
      BY <1>5, <2>4 DEF WillWarn, ListWarningLetters, WarningInv, WarningTypeOK
    <3>2. CASE HighestMissing(s, reached[c]) = {}
      <4>1. \A l \in reached[c] : letters[<<s, l>>] # 0
        BY <3>1, <3>2 DEF HighestMissing, Levels
      <4>2. \A l \in Reached(Points(s)) : HasLetter(s, l)
        BY <3>1, <4>1 DEF HasLetter, Levels
      <4> QED BY <2>2, <2>3, <3>1, <4>2 DEF Evaluated
    <3>3. CASE HighestMissing(s, reached[c]) # {}
      <4>1. PICK l \in HighestMissing(s, reached[c]) : level' = [level EXCEPT ![c] = l]
        BY <1>5, <3>1, <3>3 DEF ListWarningLetters
      <4>2. \A m \in Reached(Points(s)) : m <= l \/ HasLetter(s, m)
        BY <3>1, <4>1 DEF HighestMissing, HasLetter, Levels
      <4>3. WillWarn(c, s)'
        BY <1>5, <2>2, <2>3, <3>1, <3>3, <4>1, <4>2 DEF WillWarn, ListWarningLetters, caller, WarningInv, WarningTypeOK
      <4> QED BY <4>3 DEF Evaluated
    <3> QED BY <3>2, <3>3
  <2>5. \A b \in Recorders \ {c} : /\ doing'[b] = doing[b] /\ pupil'[b] = pupil[b] /\ total'[b] = total[b]
                                   /\ reached'[b] = reached[b] /\ level'[b] = level[b]
    <3>1. CASE HighestMissing(pupil[c], reached[c]) = {}
      BY <1>5, <3>1 DEF ListWarningLetters, Leave, WarningInv, WarningTypeOK
    <3>2. CASE HighestMissing(pupil[c], reached[c]) # {}
      BY <1>5, <3>2 DEF ListWarningLetters, caller, WarningInv, WarningTypeOK
    <3> QED BY <3>1, <3>2
  <2> QED BY <1>5, <2>1, <2>2, <2>4, <2>5, EvaluatedStays DEF ListWarningLetters
<1>6. ASSUME NEW c \in Recorders, NextLetterNumber(c) PROVE Evaluated(s)'
  <2>1. Points(s)' = Points(s) /\ Points(s)' <= Points(s)
    BY <1>6, PointsUnchanged DEF NextLetterNumber, typeVars
  <2>2. \A l \in Levels : HasLetter(s, l)' = HasLetter(s, l)
    BY <1>6 DEF NextLetterNumber, HasLetter
  <2>3. Reached(Points(s))' = Reached(Points(s)) /\ Reached(Points(s)) \subseteq Levels
    BY <1>6, <2>1 DEF NextLetterNumber, Reached
  <2>4. ASSUME WillWarn(c, s) PROVE Evaluated(s)'
    <3>1. WillWarn(c, s)'
      BY <1>6, <2>2, <2>3, <2>4 DEF WillWarn, NextLetterNumber, caller, WarningInv, WarningTypeOK
    <3> QED BY <3>1 DEF Evaluated
  <2> QED BY <1>6, <2>1, <2>2, <2>4, EvaluatedStays DEF NextLetterNumber, caller, WarningInv, WarningTypeOK
<1>7. ASSUME NEW c \in Recorders, CreateWarningLetter(c) PROVE Evaluated(s)'
  <2>1. Points(s)' = Points(s) /\ Points(s)' <= Points(s)
    BY <1>7, PointsUnchanged DEF CreateWarningLetter, typeVars
  <2>2. pupil[c] \in Students /\ level[c] \in Levels /\ drawn[c] # 0
    BY <1>7 DEF CreateWarningLetter, WarningInv, RecordersReady
  <2>3. letters'[<<pupil[c], level[c]>>] # 0 /\ \A k \in Students \X Levels : letters[k] # 0 => letters'[k] # 0
    BY <1>7, <2>2 DEF CreateWarningLetter, WarningInv, WarningTypeOK
  <2>4. \A l \in Levels : HasLetter(s, l) => HasLetter(s, l)'
    BY <2>3 DEF HasLetter, Levels
  <2>5. Reached(Points(s))' = Reached(Points(s)) /\ Reached(Points(s)) \subseteq Levels
    BY <1>7, <2>1 DEF CreateWarningLetter, Reached
  <2>6. ASSUME WillWarn(c, s) PROVE Evaluated(s)'
    <3>1. \A l \in Reached(Points(s)) : HasLetter(s, l)'
      BY <1>7, <2>2, <2>3, <2>4, <2>5, <2>6 DEF WillWarn, CreateWarningLetter, HasLetter, Levels
    <3> QED BY <2>5, <3>1 DEF Evaluated
  <2> QED BY <1>7, <2>1, <2>4, <2>6, EvaluatedStays DEF CreateWarningLetter, Leave, WarningInv, WarningTypeOK
<1>8. ASSUME NEW c \in Recorders, CallFails(c) PROVE Evaluated(s)'
  <2>1. Points(s)' <= Points(s)
    BY <1>8, PointsUnchanged DEF CallFails, typeVars
  <2>2. \A l \in Levels : HasLetter(s, l)' = HasLetter(s, l)
    BY <1>8 DEF CallFails, HasLetter, letterVars
  <2>3. s \notin overdue /\ (WillWarn(c, s) => FALSE)
    BY <1>8 DEF CallFails, WillWarn
  <2>4. \A b \in Recorders : WillWarn(b, s) => b # c
    BY <2>3
  <2> QED BY <1>8, <2>1, <2>2, <2>3, <2>4, EvaluatedStays DEF CallFails, Leave, WarningInv, WarningTypeOK
<1>9. ASSUME NEW r \in Records, DeleteRecord(r) PROVE Evaluated(s)'
  <2>1. RecordsOf(s)' \subseteq RecordsOf(s) /\ r \notin RecordsOf(s)'
    BY <1>9, LettersAssumption DEF DeleteRecord, RecordsOf, WarningInv, WarningTypeOK
  <2>2. \A q \in RecordsOf(s)' : worth'[ofType'[q]] = worth[ofType[q]]
    BY <1>9, <2>1 DEF DeleteRecord, RecordsOf, typeVars, WarningInv, WarningTypeOK
  <2>3. Points(s)' <= Points(s)
    BY <2>1, <2>2, PointsFewer DEF WarningInv
  <2>4. \A l \in Levels : HasLetter(s, l)' = HasLetter(s, l)
    BY <1>9 DEF DeleteRecord, HasLetter, letterVars
  <2> QED BY <1>9, <2>3, <2>4, EvaluatedStays DEF DeleteRecord, recorder, caller
<1>10. CASE Edit
  BY <1>10 DEF Edit
<1>11. CASE UNCHANGED warningVars
  <2>1. Points(s)' <= Points(s)
    BY <1>11, PointsUnchanged DEF warningVars, typeVars
  <2>2. \A l \in Levels : HasLetter(s, l)' = HasLetter(s, l)
    BY <1>11 DEF warningVars, HasLetter, letterVars
  <2> QED BY <1>11, <2>1, <2>2, EvaluatedStays DEF warningVars, recorder, caller
<1> QED BY <1>1, <1>2, <1>3, <1>4, <1>5, <1>6, <1>7, <1>8, <1>9, <1>10, <1>11
        DEF WarningNext, SaveViolationType, DeleteViolationType, PutSPSettings

\* The invariant of the warning letters.
LEMMA WarningInductive == WarningSpec => []WarningInv
<1>1. WarningInv /\ [WarningNext]_warningVars => WarningInv'
  <2> SUFFICES ASSUME WarningInv, [WarningNext]_warningVars PROVE WarningInv'
    OBVIOUS
  <2>1. WarningTypeOK' /\ RecordsTyped' /\ RecordersReady' /\ NumbersApart'
    BY WarningTypesStep, RecordsTypedStep, RecordersStep
  <2>2. \A s \in Students \ overdue' : Evaluated(s)'
    BY <2>1, EvaluatedStep
  <2> QED BY <2>1, <2>2 DEF WarningInv
<1> QED BY <1>1, WarningInitially, PTL DEF WarningSpec

\* Once no call of a student is under way he has a letter of the highest level his points
\* reach, or of a higher one, however many students, records, types and calls there are,
\* unless a call failed or an edit came since they were added up (evaluateAndIssueLetter).
THEOREM ReachedAlwaysWarned == WarningSpec => []ReachedIsWarned
<1>1. WarningInv => ReachedIsWarned
  <2> SUFFICES ASSUME WarningInv, NEW s \in Students \ overdue, \A c \in Recorders : pupil[c] # s,
                      NEW l \in Reached(Points(s))
               PROVE  HasLetter(s, l)
    BY DEF ReachedIsWarned, HasLetter
  <2>1. Evaluated(s)
    BY DEF WarningInv
  <2> QED BY <2>1 DEF Evaluated, WillWarn
<1> QED BY <1>1, WarningInductive, PTL

\* No two letters have a number in common, though calls overlap and may fail between the
\* number and the letter (NextLetterNumber, CreateWarningLetter).
THEOREM LettersNumberedApart == WarningSpec => []OneLetterPerNumber
<1>1. WarningInv => OneLetterPerNumber
  BY DEF WarningInv, NumbersApart, OneLetterPerNumber
<1> QED BY <1>1, WarningInductive, PTL

-----------------------------------------------------------------------------
(* The leave letters of StudentLeave. *)

\* A number is carried by a call that issues, and it is nobody else's.
LettersApart ==
    /\ \A d \in Deciders : carries[d] # 0 <=> phase[d] = "issue" /\ approves[d]
    /\ \A d \in Deciders : phase[d] = "number" => approves[d]
    /\ \A d \in Deciders : phase[d] # "idle" => about[d] \in Requests
    /\ \A d, e \in Deciders : carries[d] = carries[e] /\ d # e => carries[d] = 0
    /\ \A d \in Deciders, r \in Requests : carries[d] = letterNumber[r] => carries[d] = 0
    /\ \A r \in Requests : letterNumber[r] <= letterSeq
    /\ \A d \in Deciders : carries[d] <= letterSeq

LeaveInv == StudentLeaveTypeOK /\ LettersApart /\ AnswerStands

LEMMA LeaveInit == StudentLeaveInit => LeaveInv
BY StudentLeaveAssumption
   DEF StudentLeaveInit, LeaveInv, StudentLeaveTypeOK, LettersApart, AnswerStands, Pending, Final

\* The guarded update keeps the invariant when it issues from the call that carries.
LEMMA SettleKeeps ==
    ASSUME LeaveInv, NEW d \in Deciders, NEW S \in SUBSET Pending, NEW outcome \in Pending \cup Final,
           phase[d] # "idle", outcome = "issued" <=> carries[d] # 0, Settle(d, S, outcome)
    PROVE  LeaveInv'
<1> DEFINE r == about[d]
<1> USE StudentLeaveAssumption DEF LeaveInv
<1>1. r \in Requests
  BY DEF LettersApart
<1>2. /\ phase' = [phase EXCEPT ![d] = "idle"] /\ about' = [about EXCEPT ![d] = NoRequest]
      /\ approves' = [approves EXCEPT ![d] = FALSE] /\ carries' = [carries EXCEPT ![d] = 0]
      /\ letterSeq' = letterSeq
  BY DEF Settle, Reply
<1>3. CASE status[r] \notin S
  <2>1. UNCHANGED <<status, letterNumber, told>>
    BY <1>1, <1>3 DEF Settle, requestVars
  <2>2. StudentLeaveTypeOK'
    BY <1>2, <2>1 DEF StudentLeaveTypeOK
  <2>3. LettersApart' /\ AnswerStands'
    BY <1>2, <2>1 DEF StudentLeaveTypeOK, LettersApart, AnswerStands
  <2> QED BY <2>2, <2>3
<1>4. CASE status[r] \in S
  <2>1. /\ status' = [status EXCEPT ![r] = outcome]
        /\ letterNumber' = [letterNumber EXCEPT ![r] = carries[d]]
        /\ told' = told \cup ({r} \X ({outcome} \cap Final))
    BY <1>4 DEF Settle
  <2>2. StudentLeaveTypeOK'
    BY <1>1, <1>2, <2>1 DEF StudentLeaveTypeOK, Pending, Final
  <2>3. LettersApart'
    <3>1. status[r] # "issued" /\ letterNumber[r] = 0
      BY <1>1, <1>4 DEF AnswerStands, Pending
    <3>2. \A e \in Deciders : carries'[e] = IF e = d THEN 0 ELSE carries[e]
      BY <1>2 DEF StudentLeaveTypeOK
    <3>3. \A q \in Requests : letterNumber'[q] = IF q = r THEN carries[d] ELSE letterNumber[q]
      BY <2>1 DEF StudentLeaveTypeOK
    <3>4. carries[d] \in Nat /\ carries[d] <= letterSeq
      BY DEF LettersApart, StudentLeaveTypeOK
    <3> QED BY <1>1, <1>2, <3>1, <3>2, <3>3, <3>4 DEF LettersApart, StudentLeaveTypeOK
  <2>4. AnswerStands'
    <3>1. \A q \in Requests : status'[q] = IF q = r THEN outcome ELSE status[q]
      BY <2>1 DEF StudentLeaveTypeOK
    <3>2. \A q \in Requests : letterNumber'[q] = IF q = r THEN carries[d] ELSE letterNumber[q]
      BY <2>1 DEF StudentLeaveTypeOK
    <3>3. \A q \in Requests, s \in Final :
            <<q, s>> \in told' => <<q, s>> \in told \/ (q = r /\ s = outcome)
      BY <2>1
    <3>4. \A s \in Final : <<r, s>> \notin told
      BY <1>1, <1>4 DEF AnswerStands, Pending, Final
    <3>5. \A q \in Requests : q # r => letterNumber[q] # carries[d] \/ carries[d] = 0
      BY DEF LettersApart
    <3> QED BY <1>1, <3>1, <3>2, <3>3, <3>4, <3>5 DEF AnswerStands
  <2> QED BY <2>2, <2>3, <2>4
<1> QED BY <1>3, <1>4

\* The three updates.
LEMMA UpdatesKeep ==
    ASSUME LeaveInv, NEW d \in Deciders,
           UpdateHomeroomDecision(d) \/ UpdateBKDecision(d) \/ CancelRequestExec(d)
    PROVE  LeaveInv'
<1>1. CASE UpdateHomeroomDecision(d)
  <2>1. phase[d] = "review" /\ carries[d] = 0
    BY <1>1 DEF UpdateHomeroomDecision, LeaveInv, LettersApart
  <2>2. CASE approves[d]
    <3>1. Settle(d, {"pending_homeroom"}, "pending_bk")
      BY <1>1, <2>2 DEF UpdateHomeroomDecision
    <3> QED BY <2>1, <3>1, SettleKeeps DEF Pending
  <2>3. CASE ~approves[d]
    <3>1. Settle(d, {"pending_homeroom"}, "rejected")
      BY <1>1, <2>3 DEF UpdateHomeroomDecision
    <3> QED BY <2>1, <3>1, SettleKeeps DEF Pending, Final
  <2> QED BY <2>2, <2>3
<1>2. CASE UpdateBKDecision(d)
  <2>1. phase[d] = "issue" /\ (carries[d] # 0 <=> approves[d])
    BY <1>2 DEF UpdateBKDecision, LeaveInv, LettersApart
  <2>2. CASE approves[d]
    <3>1. Settle(d, {"pending_bk"}, "issued")
      BY <1>2, <2>2 DEF UpdateBKDecision
    <3> QED BY <2>1, <2>2, <3>1, SettleKeeps DEF Pending, Final
  <2>3. CASE ~approves[d]
    <3>1. Settle(d, {"pending_bk"}, "rejected")
      BY <1>2, <2>3 DEF UpdateBKDecision
    <3> QED BY <2>1, <2>3, <3>1, SettleKeeps DEF Pending, Final
  <2> QED BY <2>2, <2>3
<1>3. CASE CancelRequestExec(d)
  <2>1. phase[d] = "cancel" /\ carries[d] = 0 /\ Settle(d, Pending, "canceled")
    BY <1>3 DEF CancelRequestExec, LeaveInv, LettersApart
  <2> QED BY <2>1, SettleKeeps DEF Final
<1> QED BY <1>1, <1>2, <1>3

\* A decision that is read, or whose caller gets an error, changes no request.
LEMMA LeaveStep == LeaveInv /\ [StudentLeaveNext]_studentLeaveVars => LeaveInv'
<1> SUFFICES ASSUME LeaveInv, [StudentLeaveNext]_studentLeaveVars PROVE LeaveInv'
  OBVIOUS
<1> USE StudentLeaveAssumption DEF requestVars, decider
<1>1. ASSUME NEW r \in Requests, SubmitRequest(r) PROVE LeaveInv'
  <2>1. \A q \in Requests : status'[q] = IF q = r THEN "pending_homeroom" ELSE status[q]
    BY <1>1 DEF SubmitRequest, LeaveInv, StudentLeaveTypeOK
  <2>2. StudentLeaveTypeOK'
    BY <1>1 DEF SubmitRequest, LeaveInv, StudentLeaveTypeOK, Pending
  <2>3. LettersApart'
    BY <1>1 DEF SubmitRequest, LeaveInv, LettersApart
  <2>4. AnswerStands'
    <3>1. status[r] = "none" /\ letterNumber' = letterNumber /\ told' = told
      BY <1>1 DEF SubmitRequest
    <3>2. "none" \notin Final
      BY DEF Final
    <3> QED BY <2>1, <3>1, <3>2 DEF LeaveInv, AnswerStands, Final
  <2> QED BY <2>2, <2>3, <2>4 DEF LeaveInv
<1>2. ASSUME NEW d \in Deciders, NEW s \in {"review", "number", "issue", "cancel"},
             NEW r \in Requests, NEW approve \in BOOLEAN,
             s = "issue" => ~approve, s = "number" => approve, Enter(d, s, r, approve)
      PROVE  LeaveInv'
  <2>1. carries[d] = 0
    BY <1>2 DEF Enter, LeaveInv, LettersApart
  <2>2. StudentLeaveTypeOK'
    BY <1>2 DEF Enter, LeaveInv, StudentLeaveTypeOK
  <2>3. LettersApart'
    BY <1>2, <2>1 DEF Enter, LeaveInv, StudentLeaveTypeOK, LettersApart
  <2>4. AnswerStands'
    BY <1>2 DEF Enter, LeaveInv, AnswerStands
  <2> QED BY <2>2, <2>3, <2>4 DEF LeaveInv
<1>3. ASSUME NEW d \in Deciders, NextLetterSeq(d) PROVE LeaveInv'
  <2>1. StudentLeaveTypeOK'
    BY <1>3 DEF NextLetterSeq, LeaveInv, StudentLeaveTypeOK
  <2>2. LettersApart'
    <3>1. \A e \in Deciders : carries'[e] = IF e = d THEN letterSeq + 1 ELSE carries[e]
      BY <1>3 DEF NextLetterSeq, LeaveInv, StudentLeaveTypeOK
    <3>2. approves[d]
      BY <1>3 DEF NextLetterSeq, LeaveInv, LettersApart
    <3>3. \A e \in Deciders : carries[e] < letterSeq + 1 /\ carries[e] \in Nat
      BY DEF LeaveInv, StudentLeaveTypeOK, LettersApart
    <3>4. \A r \in Requests : letterNumber[r] < letterSeq + 1 /\ letterNumber[r] \in Nat
      BY DEF LeaveInv, StudentLeaveTypeOK, LettersApart
    <3> QED BY <1>3, <3>1, <3>2, <3>3, <3>4 DEF NextLetterSeq, LeaveInv, StudentLeaveTypeOK, LettersApart
  <2>3. AnswerStands'
    BY <1>3 DEF NextLetterSeq, LeaveInv, AnswerStands
  <2> QED BY <2>1, <2>2, <2>3 DEF LeaveInv
<1>4. ASSUME NEW d \in Deciders, DecisionFails(d) PROVE LeaveInv'
  <2>1. StudentLeaveTypeOK'
    BY <1>4 DEF DecisionFails, Reply, LeaveInv, StudentLeaveTypeOK
  <2>2. LettersApart'
    BY <1>4 DEF DecisionFails, Reply, LeaveInv, StudentLeaveTypeOK, LettersApart
  <2>3. AnswerStands'
    BY <1>4 DEF DecisionFails, Reply, LeaveInv, AnswerStands
  <2> QED BY <2>1, <2>2, <2>3 DEF LeaveInv
<1>5. ASSUME NEW d \in Deciders, NEW r \in Requests, NEW approve \in BOOLEAN,
             ReviewHomeroom(d, r, approve) \/ IssueBK(d, r, approve) \/ CancelRequest(d, r)
      PROVE  LeaveInv'
  <2>1. CASE ReviewHomeroom(d, r, approve)
    BY <1>2, <2>1 DEF ReviewHomeroom
  <2>2. CASE IssueBK(d, r, approve)
    <3>1. CASE approve
      BY <1>2, <2>2, <3>1 DEF IssueBK
    <3>2. CASE ~approve
      BY <1>2, <2>2, <3>2 DEF IssueBK
    <3> QED BY <3>1, <3>2
  <2>3. CASE CancelRequest(d, r)
    BY <1>2, <2>3 DEF CancelRequest
  <2> QED BY <1>5, <2>1, <2>2, <2>3
<1>6. CASE UNCHANGED studentLeaveVars
  BY <1>6 DEF studentLeaveVars, LeaveInv, StudentLeaveTypeOK, LettersApart, AnswerStands
<1> QED BY <1>1, <1>3, <1>4, <1>5, <1>6, UpdatesKeep DEF StudentLeaveNext

LEMMA LeaveInductive == StudentLeaveSpec => []LeaveInv
BY LeaveInit, LeaveStep, PTL DEF StudentLeaveSpec

\* The values that the handlers of the leave letters write are well typed.
THEOREM StudentLeaveTypeCorrect == StudentLeaveSpec => []StudentLeaveTypeOK
<1>1. LeaveInv => StudentLeaveTypeOK
  BY DEF LeaveInv
<1> QED BY LeaveInductive, <1>1, PTL

\* What callers were told stays true, and numbers are the numbers of one letter.
THEOREM AnswersAlwaysStand == StudentLeaveSpec => []AnswerStands
<1>1. LeaveInv => AnswerStands
  BY DEF LeaveInv
<1> QED BY LeaveInductive, <1>1, PTL

-----------------------------------------------------------------------------
\* How a status reads as a request of LeaveDecision.
StateOf(s) == CASE s \in Pending -> "pending" [] s = "issued" -> "approved" [] OTHER -> s
RequiredOf(s) == IF s = "none" THEN {} ELSE {1, 2}
GrantedOf(s) == CASE s = "pending_bk" -> {1} [] s = "issued" -> {1, 2} [] OTHER -> {}

\* The changes of a status.
Moves(from, next) ==
    \/ from = "none" /\ next = "pending_homeroom"
    \/ from = "pending_homeroom" /\ next = "pending_bk"
    \/ from = "pending_bk" /\ next = "issued"
    \/ from \in Pending /\ next \in {"rejected", "canceled"}

\* Each of them is a step of LeaveDecision.
LEMMA MoveDecides ==
    ASSUME StudentLeaveTypeOK, NEW r \in Requests, NEW s,
           Moves(status[r], s), status' = [status EXCEPT ![r] = s]
    PROVE  Decision!DecisionNext
<1> DEFINE St == [q \in Requests |-> StateOf(status[q])]
           Rq == [q \in Requests |-> RequiredOf(status[q])]
           Gr == [q \in Requests |-> GrantedOf(status[q])]
<1>1. \A q \in Requests : status'[q] = IF q = r THEN s ELSE status[q]
  BY DEF StudentLeaveTypeOK
<1>2. /\ St' = [St EXCEPT ![r] = StateOf(s)]
      /\ Rq' = [Rq EXCEPT ![r] = RequiredOf(s)]
      /\ Gr' = [Gr EXCEPT ![r] = GrantedOf(s)]
  <2>1. \A q \in Requests : StateOf(status'[q]) = IF q = r THEN StateOf(s) ELSE StateOf(status[q])
    BY <1>1
  <2>2. \A q \in Requests : RequiredOf(status'[q]) = IF q = r THEN RequiredOf(s) ELSE RequiredOf(status[q])
    BY <1>1
  <2>3. \A q \in Requests : GrantedOf(status'[q]) = IF q = r THEN GrantedOf(s) ELSE GrantedOf(status[q])
    BY <1>1
  <2>4. St' = [St EXCEPT ![r] = StateOf(s)]
    BY <2>1
  <2>5. Rq' = [Rq EXCEPT ![r] = RequiredOf(s)]
    BY <2>2
  <2>6. Gr' = [Gr EXCEPT ![r] = GrantedOf(s)]
    BY <2>3
  <2> QED BY <2>4, <2>5, <2>6
<1>3. St[r] = StateOf(status[r]) /\ Rq[r] = RequiredOf(status[r]) /\ Gr[r] = GrantedOf(status[r])
  OBVIOUS
<1>4. /\ Decision!Submit(r, {1, 2}) =
           (/\ St[r] = "none"
            /\ Rq' = [Rq EXCEPT ![r] = {1, 2}]
            /\ St' = [St EXCEPT ![r] = IF {1, 2} = {} THEN "approved" ELSE "pending"]
            /\ Gr' = Gr)
      /\ \A i \in {1, 2} : Decision!Grant(r, i) =
           (/\ St[r] = "pending"
            /\ i \in Rq[r]
            /\ Gr[r] = {j \in Rq[r] : j < i}
            /\ Gr' = [Gr EXCEPT ![r] = Gr[r] \cup {i}]
            /\ St' = [St EXCEPT ![r] = IF Gr[r] \cup {i} = Rq[r] THEN "approved" ELSE "pending"]
            /\ Rq' = Rq)
      /\ Decision!End(r) =
           (/\ St[r] = "pending"
            /\ \E outcome \in {"rejected", "canceled"} : St' = [St EXCEPT ![r] = outcome]
            /\ Gr' = [Gr EXCEPT ![r] = {}]
            /\ Rq' = Rq)
  BY DEF Decision!Submit, Decision!Grant, Decision!End, StateOf, RequiredOf, GrantedOf
<1>5. St \in [Requests -> {StateOf(status[q]) : q \in Requests}]
      /\ Rq \in [Requests -> {RequiredOf(status[q]) : q \in Requests}]
      /\ Gr \in [Requests -> {GrantedOf(status[q]) : q \in Requests}]
  OBVIOUS
<1> HIDE DEF St, Rq, Gr
<1>6. CASE status[r] = "none" /\ s = "pending_homeroom"
  <2>1. Gr' = Gr
    BY <1>2, <1>3, <1>5, <1>6 DEF GrantedOf
  <2>2. Decision!Submit(r, {1, 2})
    BY <1>2, <1>3, <1>4, <1>6, <2>1 DEF StateOf, RequiredOf, Pending
  <2> QED BY <2>2 DEF Decision!DecisionNext
<1>7. CASE status[r] = "pending_homeroom" /\ s = "pending_bk"
  <2>1. Rq' = Rq
    BY <1>2, <1>3, <1>5, <1>7 DEF RequiredOf
  <2>2. Gr[r] = {j \in Rq[r] : j < 1} /\ Gr[r] \cup {1} # Rq[r] /\ 1 \in Rq[r] /\ Gr[r] \cup {1} = {1}
    BY <1>3, <1>7 DEF GrantedOf, RequiredOf
  <2>3. Decision!Grant(r, 1)
    BY <1>2, <1>3, <1>4, <1>7, <2>1, <2>2 DEF StateOf, GrantedOf, Pending
  <2> QED BY <2>3 DEF Decision!DecisionNext
<1>8. CASE status[r] = "pending_bk" /\ s = "issued"
  <2>1. Rq' = Rq
    BY <1>2, <1>3, <1>5, <1>8 DEF RequiredOf
  <2>2. Gr[r] = {j \in Rq[r] : j < 2} /\ Gr[r] \cup {2} = Rq[r] /\ 2 \in Rq[r] /\ Gr[r] \cup {2} = {1, 2}
    BY <1>3, <1>8 DEF GrantedOf, RequiredOf
  <2>3. Decision!Grant(r, 2)
    BY <1>2, <1>3, <1>4, <1>8, <2>1, <2>2 DEF StateOf, GrantedOf, Pending
  <2> QED BY <2>3 DEF Decision!DecisionNext
<1>9. CASE status[r] \in Pending /\ s \in {"rejected", "canceled"}
  <2>1. Rq' = Rq
    BY <1>2, <1>3, <1>5, <1>9 DEF RequiredOf, Pending
  <2>2. St[r] = "pending" /\ GrantedOf(s) = {} /\ StateOf(s) = s
    BY <1>3, <1>9 DEF StateOf, GrantedOf, Pending
  <2>3. Decision!End(r)
    BY <1>2, <1>4, <1>9, <2>1, <2>2
  <2> QED BY <2>3 DEF Decision!DecisionNext
<1> QED BY <1>6, <1>7, <1>8, <1>9 DEF Moves

\* Where the status of no request changes, nothing is decided.
LEMMA NoMove == status' = status => UNCHANGED Decision!decisionVars
BY DEF Decision!decisionVars

\* A guarded update moves the request, or changes nothing.
LEMMA SettleDecides ==
    ASSUME LeaveInv, NEW d \in Deciders, phase[d] # "idle", NEW S, NEW outcome,
           \A s \in S : Moves(s, outcome), Settle(d, S, outcome)
    PROVE  [Decision!DecisionNext]_(Decision!decisionVars)
<1>1. about[d] \in Requests
  BY DEF LeaveInv, LettersApart
<1>2. CASE status[about[d]] \in S
  BY <1>1, <1>2, MoveDecides DEF Settle, LeaveInv
<1>3. CASE status[about[d]] \notin S
  BY <1>3, NoMove DEF Settle, requestVars
<1> QED BY <1>2, <1>3

LEMMA StudentLeaveDecides ==
    LeaveInv /\ [StudentLeaveNext]_studentLeaveVars => [Decision!DecisionNext]_(Decision!decisionVars)
<1> SUFFICES ASSUME LeaveInv, [StudentLeaveNext]_studentLeaveVars
             PROVE  [Decision!DecisionNext]_(Decision!decisionVars)
  OBVIOUS
<1>1. ASSUME NEW r \in Requests, SubmitRequest(r) PROVE [Decision!DecisionNext]_(Decision!decisionVars)
  BY <1>1, MoveDecides DEF SubmitRequest, Moves, LeaveInv
<1>2. ASSUME NEW d \in Deciders, UpdateHomeroomDecision(d)
      PROVE  [Decision!DecisionNext]_(Decision!decisionVars)
  <2>1. PICK outcome \in {"pending_bk", "rejected"} : Settle(d, {"pending_homeroom"}, outcome)
    BY <1>2 DEF UpdateHomeroomDecision
  <2>2. phase[d] # "idle" /\ \A s \in {"pending_homeroom"} : Moves(s, outcome)
    BY <1>2 DEF UpdateHomeroomDecision, Moves, Pending
  <2> QED BY <2>1, <2>2, SettleDecides
<1>3. ASSUME NEW d \in Deciders, UpdateBKDecision(d)
      PROVE  [Decision!DecisionNext]_(Decision!decisionVars)
  <2>1. PICK outcome \in {"issued", "rejected"} : Settle(d, {"pending_bk"}, outcome)
    BY <1>3 DEF UpdateBKDecision
  <2>2. phase[d] # "idle" /\ \A s \in {"pending_bk"} : Moves(s, outcome)
    BY <1>3 DEF UpdateBKDecision, Moves, Pending
  <2> QED BY <2>1, <2>2, SettleDecides
<1>4. ASSUME NEW d \in Deciders, CancelRequestExec(d)
      PROVE  [Decision!DecisionNext]_(Decision!decisionVars)
  <2>1. phase[d] # "idle" /\ Settle(d, Pending, "canceled") /\ \A s \in Pending : Moves(s, "canceled")
    BY <1>4 DEF CancelRequestExec, Moves
  <2> QED BY <2>1, SettleDecides
<1>5. ASSUME NEW d \in Deciders, NextLetterSeq(d) \/ DecisionFails(d)
      PROVE  [Decision!DecisionNext]_(Decision!decisionVars)
  BY <1>5, NoMove DEF NextLetterSeq, DecisionFails, requestVars
<1>6. ASSUME NEW d \in Deciders, NEW r \in Requests, NEW approve \in BOOLEAN,
             ReviewHomeroom(d, r, approve) \/ IssueBK(d, r, approve) \/ CancelRequest(d, r)
      PROVE  [Decision!DecisionNext]_(Decision!decisionVars)
  BY <1>6, NoMove DEF ReviewHomeroom, IssueBK, CancelRequest, Enter, requestVars
<1>7. CASE UNCHANGED studentLeaveVars
  BY <1>7, NoMove DEF studentLeaveVars, requestVars
<1> QED BY <1>1, <1>2, <1>3, <1>4, <1>5, <1>6, <1>7 DEF StudentLeaveNext

\* A leave letter is decided as LeaveDecision promises, by two positions in order.
THEOREM StudentLeaveImplementsDecision == StudentLeaveSpec => LeaveDecisionSpec
<1>1. StudentLeaveInit => Decision!DecisionInit
  BY DEF StudentLeaveInit, Decision!DecisionInit, Pending
<1> QED BY LeaveInductive, <1>1, StudentLeaveDecides, PTL
        DEF StudentLeaveSpec, LeaveDecisionSpec, Decision!Spec

-----------------------------------------------------------------------------
(* The sheets of grades. *)

\* What the requests write, and what they write it to, are of their types.
SheetTypes ==
    /\ activeYear \in SchoolYears /\ inClass \subseteq Pupils
    /\ grade \in [Components \X Pupils -> Marks \cup {NoMark}]
    /\ goal \in [Components -> Goals \cup {NoGoal}]
    /\ manual \in [SchoolYears \X Pupils -> Marks \cup {NoMark}]
    /\ putting \in [Teachers -> {"idle", "grades", "manual", "clear", "goals", "publish", "withdraw"}]
    /\ on \in [Teachers -> Components \cup {NoComponent}]
    /\ sheet \in [Teachers -> SUBSET Rows] /\ rest \in [Teachers -> SUBSET Rows]
    /\ forYear \in [Teachers -> SchoolYears]
    /\ touched \subseteq Teachers

\* A sheet has one row for a pupil or a component, and those to be written are of it.
OneRowEach(t) ==
    /\ rest[t] \subseteq sheet[t]
    /\ \A a, b \in sheet[t] : a[1] = b[1] => a = b
    /\ \A a \in sheet[t] : a = <<a[1], a[2]>>
    /\ putting[t] = "grades" => on[t] \in Components
    /\ putting[t] \in {"grades", "manual"} =>
         \A a \in sheet[t] : a[1] \in Pupils /\ a[2] \in Marks \cup {NoMark}
    /\ putting[t] \in {"clear", "goals"} =>
         \A a \in sheet[t] : a[1] \in Components /\ a[2] \in Goals
    /\ putting[t] = "clear" => rest[t] = sheet[t]

\* The rows that have been written are in the tables, unless they were touched.
WrittenIsSaved(t) ==
    t \notin touched =>
        /\ putting[t] \in {"grades", "manual", "goals"} =>
             \A a \in sheet[t] \ rest[t] : Own(t)[a[1]] = a[2]
        /\ putting[t] = "goals" =>
             \A k \in Components : goal[k] # NoGoal => \E a \in sheet[t] \ rest[t] : a[1] = k

SheetInv == SheetTypes /\ \A t \in Teachers : OneRowEach(t) /\ WrittenIsSaved(t)

LEMMA SheetInitially == GradingInit => SheetInv
BY GradingAssumption DEF GradingInit, SheetInv, SheetTypes, OneRowEach, WrittenIsSaved

\* While t waits, its rows stand or it is touched.
LEMMA SheetFrame ==
  ASSUME SheetInv, Observe, NEW t \in Teachers,
         putting'[t] = putting[t], on'[t] = on[t], sheet'[t] = sheet[t], rest'[t] = rest[t],
         forYear'[t] = forYear[t]
  PROVE  OneRowEach(t)' /\ WrittenIsSaved(t)'
<1>1. OneRowEach(t)'
  BY DEF SheetInv, OneRowEach
<1>2. WrittenIsSaved(t)'
  <2>1. SUFFICES ASSUME t \notin touched', putting[t] \in {"grades", "manual", "goals"} PROVE WrittenIsSaved(t)'
    BY DEF WrittenIsSaved
  <2>2. t \notin touched /\ Own(t)' = Own(t)
    BY <2>1 DEF Observe
  <2>3. putting[t] = "goals" => goal' = goal
    BY <2>2 DEF Own
  <2> QED BY <2>2, <2>3 DEF SheetInv, WrittenIsSaved
<1> QED BY <1>1, <1>2

\* A request that is idle, or that changes the publication, has no rows to stand for.
LEMMA NoRows ==
  ASSUME NEW t \in Teachers, putting'[t] \in {"idle", "publish", "withdraw"}, sheet'[t] = {}, rest'[t] = {}
  PROVE  OneRowEach(t)' /\ WrittenIsSaved(t)'
BY DEF OneRowEach, WrittenIsSaved

\* The others wait while t moves.
LEMMA OthersWait ==
  ASSUME SheetInv, Observe, SheetTypes', NEW t \in Teachers, OneRowEach(t)' /\ WrittenIsSaved(t)',
         \A s \in Teachers \ {t} : /\ putting'[s] = putting[s] /\ on'[s] = on[s] /\ sheet'[s] = sheet[s]
                                   /\ rest'[s] = rest[s] /\ forYear'[s] = forYear[s]
  PROVE  SheetInv'
BY SheetFrame DEF SheetInv

LEMMA AllWait ==
  ASSUME SheetInv, Observe, SheetTypes', UNCHANGED <<putting, on, sheet, rest, forYear>>
  PROVE  SheetInv'
BY SheetFrame DEF SheetInv

\* A sheet that is taken up.
LEMMA PutStep ==
  ASSUME SheetInv, Observe, NEW t \in Teachers, NEW stage, NEW k, NEW rows, NEW y \in SchoolYears, Put(t, stage, k, rows, y),
         rows \in SUBSET Rows, k \in Components \cup {NoComponent},
         stage \in {"grades", "manual", "clear", "publish", "withdraw"},
         \A a, b \in rows : a[1] = b[1] => a = b,
         \A a \in rows : a = <<a[1], a[2]>>,
         stage = "grades" => k \in Components,
         stage \in {"grades", "manual"} => \A a \in rows : a[1] \in Pupils /\ a[2] \in Marks \cup {NoMark},
         stage = "clear" => \A a \in rows : a[1] \in Components /\ a[2] \in Goals
  PROVE  SheetInv'
<1>1. SheetTypes'
  BY DEF Put, gradeTables, Observe, SheetInv, SheetTypes
<1>2. /\ putting'[t] = stage /\ on'[t] = k /\ sheet'[t] = rows /\ rest'[t] = rows
      /\ \A s \in Teachers \ {t} : /\ putting'[s] = putting[s] /\ on'[s] = on[s] /\ sheet'[s] = sheet[s]
                                   /\ rest'[s] = rest[s] /\ forYear'[s] = forYear[s]
  BY DEF Put, SheetInv, SheetTypes
<1>3. OneRowEach(t)'
  BY <1>2 DEF OneRowEach
<1>4. WrittenIsSaved(t)'
  BY <1>2 DEF WrittenIsSaved
<1> QED BY <1>1, <1>2, <1>3, <1>4, OthersWait

LEMMA EndStep ==
  ASSUME SheetInv, Observe, NEW t \in Teachers, Ends(t), UNCHANGED <<activeYear, inClass, grade, goal, manual>>
  PROVE  SheetInv'
<1>1. SheetTypes'
  BY GradingAssumption DEF Ends, Observe, SheetInv, SheetTypes
<1>2. /\ putting'[t] = "idle" /\ sheet'[t] = {} /\ rest'[t] = {}
      /\ \A s \in Teachers \ {t} : /\ putting'[s] = putting[s] /\ on'[s] = on[s] /\ sheet'[s] = sheet[s]
                                   /\ rest'[s] = rest[s] /\ forYear'[s] = forYear[s]
  BY DEF Ends, SheetInv, SheetTypes
<1> QED BY <1>1, <1>2, NoRows, OthersWait

\* A row that is written.
LEMMA RowStep ==
  ASSUME SheetInv, Observe, SheetTypes', NEW t \in Teachers, NEW row \in rest[t], Written(t, row),
         putting[t] \in {"grades", "manual", "goals"},
         Own(t)'[row[1]] = row[2],
         \A a \in sheet[t] : a[1] # row[1] => Own(t)'[a[1]] = Own(t)[a[1]],
         putting[t] = "goals" => \A k \in Components : k # row[1] => goal'[k] = goal[k]
  PROVE  SheetInv'
<1>1. /\ UNCHANGED <<putting, on, sheet, forYear>> /\ rest'[t] = rest[t] \ {row}
      /\ \A s \in Teachers \ {t} : rest'[s] = rest[s]
  BY DEF Written, SheetInv, SheetTypes
<1>2. OneRowEach(t)'
  BY <1>1 DEF SheetInv, OneRowEach
<1>3. WrittenIsSaved(t)'
  <2>1. SUFFICES ASSUME t \notin touched'
                 PROVE  /\ \A a \in sheet[t] \ rest'[t] : Own(t)'[a[1]] = a[2]
                        /\ putting[t] = "goals" =>
                             \A k \in Components : goal'[k] # NoGoal => \E a \in sheet[t] \ rest'[t] : a[1] = k
    BY <1>1 DEF WrittenIsSaved
  <2>2. t \notin touched
    BY <1>1, <2>1 DEF Observe, SheetInv, SheetTypes
  <2>3. row \in sheet[t] \ rest'[t]
    BY <1>1 DEF SheetInv, OneRowEach
  <2>4. ASSUME NEW a \in sheet[t] \ rest'[t] PROVE Own(t)'[a[1]] = a[2]
    <3>1. CASE a = row
      BY <3>1
    <3>2. CASE a # row
      <4>1. a \in sheet[t] \ rest[t] /\ a[1] # row[1]
        BY <1>1, <2>3, <3>2 DEF SheetInv, OneRowEach
      <4> QED BY <2>2, <4>1 DEF SheetInv, WrittenIsSaved
    <3> QED BY <3>1, <3>2
  <2>5. ASSUME putting[t] = "goals", NEW k \in Components, goal'[k] # NoGoal
        PROVE  \E a \in sheet[t] \ rest'[t] : a[1] = k
    <3>1. CASE k = row[1]
      BY <2>3, <3>1
    <3>2. CASE k # row[1]
      BY <1>1, <2>2, <2>5, <3>2 DEF SheetInv, WrittenIsSaved
    <3> QED BY <3>1, <3>2
  <2> QED BY <2>4, <2>5
<1> QED BY <1>1, <1>2, <1>3, OthersWait

\* A sheet made of a function has one row for each of its arguments.
LEMMA RowsOfFunction ==
  ASSUME NEW S, NEW T \in SUBSET S, NEW V, NEW f \in [T -> V]
  PROVE  /\ \A a \in RowsOf(f) : a = <<a[1], a[2]>> /\ a[1] \in S /\ a[2] \in V
         /\ \A a, b \in RowsOf(f) : a[1] = b[1] => a = b
         /\ RowsOf(f) \in SUBSET (S \X V)
BY DEF RowsOf

LEMMA SheetsTaken ==
  ASSUME SheetInv, Observe, NEW t \in Teachers
  PROVE  /\ \A f \in MarkSheets(inClass) : PutManualScores(t, f) => SheetInv'
         /\ \A f \in MarkSheets(inClass), k \in Components : PutGrades(t, k, f) => SheetInv'
         /\ \A f \in GoalSheets(Live) : PutTPMappings(t, f) => SheetInv'
         /\ \A shown \in BOOLEAN : PutPublication(t, shown) => SheetInv'
<1>1. ASSUME NEW f \in MarkSheets(inClass)
      PROVE  /\ RowsOf(f) \in SUBSET Rows
             /\ \A a \in RowsOf(f) : a = <<a[1], a[2]>> /\ a[1] \in Pupils /\ a[2] \in Marks \cup {NoMark}
             /\ \A a, b \in RowsOf(f) : a[1] = b[1] => a = b
  <2>1. PICK T \in SUBSET inClass : f \in [T -> Marks \cup {NoMark}]
    BY DEF MarkSheets
  <2>2. T \in SUBSET Pupils
    BY DEF SheetInv, SheetTypes
  <2>3. /\ \A a \in RowsOf(f) : a = <<a[1], a[2]>> /\ a[1] \in Pupils /\ a[2] \in Marks \cup {NoMark}
        /\ \A a, b \in RowsOf(f) : a[1] = b[1] => a = b
        /\ RowsOf(f) \in SUBSET (Pupils \X (Marks \cup {NoMark}))
    BY <2>1, <2>2, RowsOfFunction
  <2> QED BY <2>3 DEF Rows
<1>2. ASSUME NEW f \in GoalSheets(Live)
      PROVE  /\ RowsOf(f) \in SUBSET Rows
             /\ \A a \in RowsOf(f) : a = <<a[1], a[2]>> /\ a[1] \in Components /\ a[2] \in Goals
             /\ \A a, b \in RowsOf(f) : a[1] = b[1] => a = b
  <2>1. PICK T \in SUBSET Components : f \in [T -> Goals]
    BY DEF GoalSheets, Live
  <2> QED BY <2>1, RowsOfFunction DEF Rows
<1>3. activeYear \in SchoolYears /\ ClassYear \in SchoolYears
  BY GradingAssumption DEF SheetInv, SheetTypes
<1>4. ASSUME NEW f \in MarkSheets(inClass), PutManualScores(t, f) PROVE SheetInv'
  <2>1. Put(t, "manual", NoComponent, RowsOf(f), activeYear)
    BY <1>4 DEF PutManualScores
  <2> QED BY <1>1, <1>3, <2>1, PutStep
<1>5. ASSUME NEW f \in MarkSheets(inClass), NEW k \in Components, PutGrades(t, k, f) PROVE SheetInv'
  <2>1. Put(t, "grades", k, RowsOf(f), ClassYear)
    BY <1>5 DEF PutGrades
  <2> QED BY <1>1, <1>3, <2>1, PutStep
<1>6. ASSUME NEW f \in GoalSheets(Live), PutTPMappings(t, f) PROVE SheetInv'
  <2>1. Put(t, "clear", NoComponent, RowsOf(f), ClassYear)
    BY <1>6 DEF PutTPMappings
  <2> QED BY <1>2, <1>3, <2>1, PutStep
<1>7. ASSUME NEW shown \in BOOLEAN, PutPublication(t, shown) PROVE SheetInv'
  <2>1. PICK stage \in {"publish", "withdraw"} : Put(t, stage, NoComponent, {}, activeYear)
    BY <1>7 DEF PutPublication
  <2> QED BY <1>3, <2>1, PutStep
<1> QED BY <1>4, <1>5, <1>6, <1>7

LEMMA RowsWritten ==
  ASSUME SheetInv, Observe, NEW t \in Teachers, NEW row \in rest[t],
         DeleteGrade(t, row) \/ UpsertGrade(t, row) \/ UpsertManualScore(t, row) \/ CreateTPMapping(t, row)
  PROVE  SheetInv'
<1>0. /\ SheetTypes /\ OneRowEach(t) /\ row \in sheet[t] /\ row \in Rows
      /\ NoMark \in Marks \cup {NoMark}
  BY DEF SheetInv, SheetTypes, OneRowEach
<1>1. ASSUME putting[t] = "grades", NEW m \in Marks \cup {NoMark}, m = row[2],
             grade' = [grade EXCEPT ![<<on[t], row[1]>>] = m], Written(t, row),
             UNCHANGED <<activeYear, inClass, goal, manual>>
      PROVE  SheetInv'
  <2>1. on[t] \in Components /\ row[1] \in Pupils
    BY <1>0, <1>1 DEF OneRowEach
  <2>2. SheetTypes'
    BY <1>0, <1>1 DEF Written, Observe, SheetTypes
  <2>3. /\ Own(t)' = [p \in Pupils |-> grade'[<<on[t], p>>]]
        /\ Own(t) = [p \in Pupils |-> grade[<<on[t], p>>]]
    BY <1>1 DEF Own, Written
  <2>4. /\ grade'[<<on[t], row[1]>>] = row[2]
        /\ \A p \in Pupils : p # row[1] => grade'[<<on[t], p>>] = grade[<<on[t], p>>]
    BY <1>0, <1>1, <2>1 DEF SheetTypes
  <2>5. Own(t)'[row[1]] = row[2]
    BY <2>1, <2>3, <2>4
  <2>6. \A a \in sheet[t] : a[1] # row[1] => Own(t)'[a[1]] = Own(t)[a[1]]
    BY <1>0, <1>1, <2>3, <2>4 DEF OneRowEach
  <2> QED BY <1>1, <2>2, <2>5, <2>6, RowStep
<1>2. ASSUME DeleteGrade(t, row) PROVE SheetInv'
  BY <1>0, <1>1, <1>2 DEF DeleteGrade
<1>3. ASSUME UpsertGrade(t, row), Ends(t), grade' = grade PROVE SheetInv'
  BY <1>3, EndStep DEF UpsertGrade
<1>4. ASSUME UpsertGrade(t, row), ~(Ends(t) /\ grade' = grade) PROVE SheetInv'
  <2>1. row[2] \in Marks \cup {NoMark}
    BY <1>0, <1>4 DEF UpsertGrade, OneRowEach
  <2> QED BY <1>1, <1>4, <2>1 DEF UpsertGrade
<1>5. ASSUME UpsertManualScore(t, row) PROVE SheetInv'
  <2>1. row[1] \in Pupils /\ row[2] \in Marks \cup {NoMark} /\ putting[t] = "manual" /\ forYear[t] \in SchoolYears
    BY <1>0, <1>5 DEF OneRowEach, UpsertManualScore, SheetTypes
  <2>2. SheetTypes'
    BY <1>0, <1>5, <2>1 DEF UpsertManualScore, Written, Observe, SheetTypes
  <2>3. /\ Own(t)' = [p \in Pupils |-> manual'[<<forYear[t], p>>]]
        /\ Own(t) = [p \in Pupils |-> manual[<<forYear[t], p>>]]
    BY <1>5, <2>1 DEF Own, UpsertManualScore, Written
  <2>4. /\ manual'[<<forYear[t], row[1]>>] = row[2]
        /\ \A p \in Pupils : p # row[1] => manual'[<<forYear[t], p>>] = manual[<<forYear[t], p>>]
    BY <1>0, <1>5, <2>1 DEF UpsertManualScore, SheetTypes
  <2>5. Own(t)'[row[1]] = row[2]
    BY <2>1, <2>3, <2>4
  <2>6. \A a \in sheet[t] : a[1] # row[1] => Own(t)'[a[1]] = Own(t)[a[1]]
    BY <1>0, <2>1, <2>3, <2>4 DEF OneRowEach
  <2> QED BY <1>5, <2>1, <2>2, <2>5, <2>6, RowStep DEF UpsertManualScore
<1>6. ASSUME CreateTPMapping(t, row), Ends(t), goal' = goal PROVE SheetInv'
  BY <1>6, EndStep DEF CreateTPMapping
<1>7. ASSUME CreateTPMapping(t, row), ~(Ends(t) /\ goal' = goal) PROVE SheetInv'
  <2>1. /\ row[1] \in Components /\ row[2] \in Goals /\ putting[t] = "goals"
        /\ Written(t, row) /\ goal' = [goal EXCEPT ![row[1]] = row[2]]
    BY <1>0, <1>7 DEF CreateTPMapping, OneRowEach
  <2>2. SheetTypes'
    BY <1>0, <1>7, <2>1 DEF CreateTPMapping, Written, Observe, SheetTypes
  <2>3. Own(t)' = goal' /\ Own(t) = goal
    BY <2>1 DEF Own, Written
  <2>4. goal'[row[1]] = row[2] /\ \A k : k # row[1] => goal'[k] = goal[k]
    BY <1>0, <2>1 DEF SheetTypes
  <2> QED BY <2>1, <2>2, <2>3, <2>4, RowStep
<1> QED BY <1>2, <1>3, <1>4, <1>5, <1>6, <1>7

LEMMA MappingsCleared ==
  ASSUME SheetInv, Observe, NEW t \in Teachers, DeleteTPMappings(t) PROVE SheetInv'
<1>1. SheetTypes'
  BY DEF DeleteTPMappings, Observe, SheetInv, SheetTypes
<1>2. /\ putting[t] = "clear" /\ putting'[t] = "goals" /\ UNCHANGED <<on, sheet, rest, forYear>>
      /\ \A k \in Components : goal'[k] = NoGoal
      /\ \A s \in Teachers \ {t} : putting'[s] = putting[s]
  BY DEF DeleteTPMappings, SheetInv, SheetTypes
<1>3. OneRowEach(t)' /\ rest'[t] = sheet'[t]
  BY <1>2 DEF SheetInv, OneRowEach
<1>4. WrittenIsSaved(t)'
  BY <1>2, <1>3 DEF WrittenIsSaved
<1> QED BY <1>1, <1>2, <1>3, <1>4, OthersWait

LEMMA SheetStep == SheetInv /\ [GradingNext]_gradingVars => SheetInv'
<1> SUFFICES ASSUME SheetInv, [GradingNext]_gradingVars PROVE SheetInv'
  OBVIOUS
<1>1. CASE UNCHANGED gradingVars
  <2>1. SheetTypes' /\ \A t \in Teachers : OneRowEach(t)'
    BY <1>1 DEF gradingVars, gradeTables, putVars, SheetInv, SheetTypes, OneRowEach
  <2>2. ASSUME NEW t \in Teachers PROVE WrittenIsSaved(t)'
    <3>1. Own(t)' = Own(t)
      BY <1>1 DEF gradingVars, gradeTables, putVars, Own
    <3> QED BY <1>1, <3>1 DEF gradingVars, gradeTables, putVars, SheetInv, WrittenIsSaved
  <2> QED BY <2>1, <2>2 DEF SheetInv
<1> SUFFICES ASSUME GradingStep, Observe PROVE SheetInv'
  BY <1>1 DEF GradingNext
<1>2. ASSUME UNCHANGED putVars, activeYear' \in SchoolYears, inClass' \subseteq Pupils, manual' = manual,
             grade' \in [Components \X Pupils -> Marks \cup {NoMark}], goal' \in [Components -> Goals \cup {NoGoal}]
      PROVE  SheetInv'
  <2>1. SheetTypes'
    BY <1>2 DEF putVars, Observe, SheetInv, SheetTypes
  <2> QED BY <1>2, <2>1, AllWait DEF putVars
<1>3. /\ activeYear \in SchoolYears /\ inClass \subseteq Pupils
      /\ grade \in [Components \X Pupils -> Marks \cup {NoMark}] /\ goal \in [Components -> Goals \cup {NoGoal}]
  BY DEF SheetInv, SheetTypes
<1>4. ASSUME NEW k \in Components, NEW y \in Kinds, NEW w \in Weights, CreateComponent(k, y, w) \/ UpdateComponent(k, y, w)
      PROVE  SheetInv'
  BY <1>2, <1>3, <1>4 DEF CreateComponent, UpdateComponent
<1>5. ASSUME NEW k \in Components, DeleteComponent(k) PROVE SheetInv'
  BY <1>2, <1>3, <1>5 DEF DeleteComponent
<1>6. ASSUME NEW t \in Teachers, NEW row \in rest[t],
             DeleteGrade(t, row) \/ UpsertGrade(t, row) \/ UpsertManualScore(t, row) \/ CreateTPMapping(t, row)
      PROVE  SheetInv'
  BY <1>6, RowsWritten
<1>7. ASSUME NEW t \in Teachers, AnswerOrFail(t) PROVE SheetInv'
  BY <1>7, EndStep DEF AnswerOrFail, gradeTables
<1>8. ASSUME NEW t \in Teachers, SetPublication(t) PROVE SheetInv'
  BY <1>8, EndStep DEF SetPublication
<1>9. ASSUME NEW y \in SchoolYears, ActivateYear(y) PROVE SheetInv'
  BY <1>2, <1>3, <1>9 DEF ActivateYear
<1>10. ASSUME NEW p \in Pupils, Transfer(p) PROVE SheetInv'
  BY <1>2, <1>3, <1>10 DEF Transfer
<1>11. ASSUME UNCHANGED <<gradeTables, putVars>> PROVE SheetInv'
  BY <1>2, <1>3, <1>11 DEF gradeTables
<1>12. ASSUME NEW r \in Readers, NEW p \in Pupils, MyGrades(r, p) \/ Report(r, p) PROVE SheetInv'
  BY <1>11, <1>12 DEF MyGrades, Report, Ask
<1>13. ASSUME NEW r \in Readers, ListPublishedSubjects(r) \/ ListComponentsRaw(r) \/ ListGradesForComponents(r)
                                   \/ ListManualScores(r) \/ ReaderLeaves(r)
       PROVE  SheetInv'
  BY <1>11, <1>13 DEF ListPublishedSubjects, ListComponentsRaw, ListGradesForComponents, ListManualScores, ReaderLeaves, Reads
<1> QED BY <1>4, <1>5, <1>6, <1>7, <1>8, <1>9, <1>10, <1>12, <1>13, SheetsTaken, MappingsCleared DEF GradingStep

\* A request that has written its rows has them saved, however many requests, pupils and
\* components there are, unless another request touched them (PutGrades,
\* PutManualScores, ReplaceTPMappings).
THEOREM AnsweredAlwaysSaved == GradingSpec => []AnsweredIsSaved
<1>1. SheetInv => AnsweredIsSaved
  BY DEF SheetInv, WrittenIsSaved, AnsweredIsSaved, Saved
<1> QED BY <1>1, SheetInitially, SheetStep, PTL DEF GradingSpec

-----------------------------------------------------------------------------
(* The pages and the reports. *)

\* The components are of their types; there are finitely many, with a weight each.
ComponentTypes ==
    /\ type \in [Components -> Kinds \cup {"none", "gone"}]
    /\ weight \in [Components -> Weights \cup {0}]
    /\ published \subseteq SchoolYears
    /\ IsFiniteSet(Live) /\ \A k \in Live : weight[k] \in Weights

\* A mean of marks, with something to divide by.
InRange(a) == a.points <= 100 * a.weight /\ (a.source \in {"manual", "computed"} => a.weight > 0)

\* What the readers have read is of its type.
ReaderTypes ==
    /\ reading \in [Readers -> {"idle", "published", "components", "marks", "manual", "answered"}]
    /\ whose \in [Readers -> Pupils \cup {NoPupil}] /\ report \in [Readers -> BOOLEAN]
    /\ ofYear \in [Readers -> SchoolYears]
    /\ listed \in [Readers -> SUBSET (Components \X Weights)]
    /\ marks \in [Readers -> UNION {[K -> Marks] : K \in SUBSET Components}]
    /\ answer \in [Readers -> Answers]
    /\ \A r \in Readers : IsFiniteSet(listed[r]) /\ (reading[r] # "idle" => whose[r] \in Pupils)
    /\ \A r \in Readers : InRange(answer[r])

HistoryTypes == moments \in [Readers -> SUBSET Answers] /\ changes \in [Readers -> 0..2]

\* What the components of L with the weights w come to, for the marks g of pupil p.
Outcome(L, w, g, p, score) ==
    LET graded == {k \in L : g[<<k, p>>] # NoMark}
    IN  IF score # NoMark THEN [source |-> "manual", points |-> score, weight |-> 1]
        ELSE [source |-> IF graded # {} THEN "computed" ELSE "none",
              points |-> SumFunction([k \in graded |-> w[k] * g[<<k, p>>]]),
              weight |-> SumFunction([k \in graded |-> w[k]])]

ManualNow(r) == IF report[r] THEN manual[<<ofYear[r], whose[r]>>] ELSE NoMark

\* The answer a reader would give if the tables stood still from now on.
Upcoming(r) ==
    CASE reading[r] = "answered" -> answer[r]
      [] reading[r] = "marks" ->
           Resolve(ComputeFinal(listed[r], ScoresNow(listed[r], whose[r])), ManualNow(r))
      [] reading[r] = "manual" -> Resolve(ComputeFinal(listed[r], marks[r]), ManualNow(r))
      [] reading[r] = "components" -> Outcome(Live, weight, grade, whose[r], ManualNow(r))
      [] OTHER -> Truth(r)

\* What a reader has read while nothing changed is what the tables say.
ReadIsCurrent(r) ==
    /\ reading[r] \in {"marks", "manual"} => listed[r] = ComponentsNow
    /\ reading[r] = "manual" => marks[r] = ScoresNow(listed[r], whose[r])
    /\ ~report[r] /\ reading[r] \in {"components", "marks"} => ofYear[r] \in published

ReadsOneMoment(r) ==
    /\ reading[r] # "answered" => answer[r] = Hidden
    /\ reading[r] = "published" => ~report[r]
    /\ reading[r] = "manual" => report[r]
    /\ reading[r] # "idle" => Truth(r) \in moments[r]
    /\ reading[r] # "idle" /\ changes[r] = 0 => ReadIsCurrent(r)
    /\ reading[r] # "idle" /\ changes[r] < 2 => Upcoming(r) \in moments[r]

PagesInv == ComponentTypes /\ ReaderTypes /\ HistoryTypes /\ \A r \in Readers : ReadsOneMoment(r)

\* The weighted mean of a list of components is that of the components themselves.
LEMMA OutcomeOfList ==
  ASSUME NEW L, IsFiniteSet(L), NEW w, \A k \in L : w[k] \in Nat \ {0}, NEW g, NEW p, NEW score, NEW scores,
         \A k \in L : k \in DOMAIN scores <=> g[<<k, p>>] # NoMark,
         \A k \in L : k \in DOMAIN scores => scores[k] = g[<<k, p>>] /\ scores[k] \in Nat
  PROVE  Resolve(ComputeFinal({<<k, w[k]>> : k \in L}, scores), score) = Outcome(L, w, g, p, score)
<1> DEFINE graded == {k \in L : g[<<k, p>>] # NoMark}
           list == {<<k, w[k]>> : k \in L}
           scored == Scored(list, scores)
           h == [k \in graded |-> <<k, w[k]>>]
<1>1. scored = {<<k, w[k]>> : k \in graded}
  <2>1. \A c \in list : \E k \in L : c = <<k, w[k]>> /\ c[1] = k
    OBVIOUS
  <2>2. \A k \in L : <<k, w[k]>> \in list /\ <<k, w[k]>>[1] = k
    OBVIOUS
  <2>3. scored = {c \in list : c[1] \in DOMAIN scores}
    BY DEF Scored
  <2> HIDE DEF list, scored
  <2>4. \A c \in scored : c \in {<<k, w[k]>> : k \in graded}
    BY <2>1, <2>3
  <2>5. \A k \in graded : <<k, w[k]>> \in scored
    BY <2>2, <2>3
  <2> QED BY <2>4, <2>5
<1>2. IsFiniteSet(graded)
  BY FS_Subset
<1>3. h \in [graded -> scored] /\ \A y \in scored : \E k \in graded : y = h[k]
  BY <1>1
<1>4. \A j, k \in graded : h[j] = h[k] => j = k
  OBVIOUS
<1>5. IsFiniteSet(scored)
  <2>1. h \in Surjection(graded, scored)
    BY <1>3 DEF Surjection
  <2> HIDE DEF h, graded, scored
  <2> QED BY <1>2, <2>1, FS_Surjection
<1> DEFINE points == [k \in graded |-> w[k] * g[<<k, p>>]]
           weights == [k \in graded |-> w[k]]
           listPoints == [c \in scored |-> c[2] * scores[c[1]]]
           listWeights == [c \in scored |-> c[2]]
<1>6. \A k \in graded : points[k] \in Nat /\ weights[k] \in Nat \ {0}
  OBVIOUS
<1>7. \A k \in graded : points[k] = listPoints[h[k]] /\ weights[k] = listWeights[h[k]]
  BY <1>3
<1>8. /\ SumFunction(points) = SumFunctionOnSet(points, graded)
      /\ SumFunction(weights) = SumFunctionOnSet(weights, graded)
      /\ SumFunction(listPoints) = SumFunctionOnSet(listPoints, scored)
      /\ SumFunction(listWeights) = SumFunctionOnSet(listWeights, scored)
  BY DEF SumFunction
<1>9. /\ ComputeFinal(list, scores) = [points |-> SumFunction(listPoints), weight |-> SumFunction(listWeights)]
      /\ Outcome(L, w, g, p, score) =
           IF score # NoMark THEN [source |-> "manual", points |-> score, weight |-> 1]
           ELSE [source |-> IF graded # {} THEN "computed" ELSE "none",
                 points |-> SumFunction(points), weight |-> SumFunction(weights)]
  BY DEF ComputeFinal, Outcome
<1> HIDE DEF graded, list, scored, h, points, weights, listPoints, listWeights
<1>10. SumFunctionOnSet(points, graded) = SumFunctionOnSet(listPoints, scored)
  BY <1>2, <1>3, <1>4, <1>5, <1>6, <1>7, SumRenamed
<1>11. SumFunctionOnSet(weights, graded) = SumFunctionOnSet(listWeights, scored)
  <2>1. \A k \in graded : weights[k] \in Nat
    BY <1>6
  <2> QED BY <1>2, <1>3, <1>4, <1>5, <1>7, <2>1, SumRenamed
<1>12. SumFunctionOnSet(weights, graded) > 0 <=> graded # {}
  BY <1>2, <1>6, SumPositive
<1>13. Resolve(ComputeFinal(list, scores), score) = Outcome(L, w, g, p, score)
  BY <1>8, <1>9, <1>10, <1>11, <1>12 DEF Resolve
<1> QED BY <1>13 DEF list

\* A mean is a mean: of weights above 0 and marks up to 100.
LEMMA FinalTyped ==
  ASSUME NEW components \in SUBSET (Components \X Weights), IsFiniteSet(components),
         NEW K \in SUBSET Components, NEW scores \in [K -> Marks]
  PROVE  LET final == ComputeFinal(components, scores)
         IN  final.points \in Nat /\ final.weight \in Nat /\ final.points <= 100 * final.weight
<1> DEFINE scored == Scored(components, scores)
           points == [c \in scored |-> c[2] * scores[c[1]]]
           weights == [c \in scored |-> c[2]]
<1>1. scored \in SUBSET components /\ \A c \in scored : c[1] \in K /\ c[2] \in Weights
  BY DEF Scored
<1>2. IsFiniteSet(scored)
  BY <1>1, FS_Subset
<1>3. \A c \in scored : c[2] \in Nat /\ scores[c[1]] \in 0..100
  BY <1>1, GradingAssumption
<1>4. \A c \in scored : points[c] \in Nat /\ weights[c] \in Nat /\ points[c] <= 100 * weights[c]
  <2> SUFFICES ASSUME NEW c \in scored PROVE points[c] \in Nat /\ weights[c] \in Nat /\ points[c] <= 100 * weights[c]
    OBVIOUS
  <2> DEFINE a == c[2]
             b == scores[c[1]]
  <2>1. a \in Nat /\ b \in Nat /\ b <= 100
    BY <1>3
  <2>2. points[c] = a * b /\ weights[c] = a
    OBVIOUS
  <2> HIDE DEF a, b, points, weights
  <2>3. a * b \in Nat /\ a * b <= 100 * a
    BY <2>1
  <2> QED BY <2>1, <2>2, <2>3
<1>5. /\ ComputeFinal(components, scores).points = SumFunctionOnSet(points, scored)
      /\ ComputeFinal(components, scores).weight = SumFunctionOnSet(weights, scored)
  BY DEF ComputeFinal, SumFunction
<1> HIDE DEF scored, points, weights
<1>6. SumFunctionOnSet(points, scored) \in Nat /\ SumFunctionOnSet(weights, scored) \in Nat
  BY <1>2, <1>4, SumNat
<1>7. SumFunctionOnSet(points, scored) <= 100 * SumFunctionOnSet(weights, scored)
  BY <1>2, <1>4, SumAtMost
<1> QED BY <1>5, <1>6, <1>7

\* The list of the components is finite, and of their weights.
LEMMA ListNow == ComponentTypes => ComponentsNow \in SUBSET (Components \X Weights) /\ IsFiniteSet(ComponentsNow)
<1> SUFFICES ASSUME ComponentTypes PROVE ComponentsNow \in SUBSET (Components \X Weights) /\ IsFiniteSet(ComponentsNow)
  OBVIOUS
<1>1. ComponentsNow \in SUBSET (Components \X Weights)
  BY DEF ComponentTypes, ComponentsNow, Live
<1> DEFINE h == [k \in Live |-> <<k, weight[k]>>]
<1>2. h \in Surjection(Live, ComponentsNow)
  BY DEF Surjection, ComponentsNow
<1>3. IsFiniteSet(Live)
  BY DEF ComponentTypes
<1> HIDE DEF h
<1> QED BY <1>1, <1>2, <1>3, FS_Surjection

ScoresIn(g, components, p) ==
    [k \in {k \in Components : g[<<k, p>>] # NoMark /\ \E c \in components : c[1] = k} |-> g[<<k, p>>]]

\* What a reader makes of the components as they are and of the marks in g.
LEMMA OutcomeNow ==
  ASSUME ComponentTypes, NEW p \in Pupils, NEW score, NEW g \in [Components \X Pupils -> Marks \cup {NoMark}]
  PROVE  Resolve(ComputeFinal(ComponentsNow, ScoresIn(g, ComponentsNow, p)), score) = Outcome(Live, weight, g, p, score)
<1> DEFINE scores == ScoresIn(g, ComponentsNow, p)
<1>1. IsFiniteSet(Live) /\ Live \subseteq Components /\ \A k \in Live : weight[k] \in Nat \ {0}
  BY GradingAssumption DEF ComponentTypes, Live
<1>2. ComponentsNow = {<<k, weight[k]>> : k \in Live}
  BY DEF ComponentsNow
<1>3. \A k \in Live : <<k, weight[k]>> \in ComponentsNow /\ <<k, weight[k]>>[1] = k
  BY <1>2
<1>4. \A k \in Live : k \in DOMAIN scores <=> g[<<k, p>>] # NoMark
  BY <1>1, <1>3 DEF ScoresIn
<1>5. \A k \in Live : k \in DOMAIN scores => scores[k] = g[<<k, p>>] /\ scores[k] \in Nat
  <2>1. \A k \in DOMAIN scores : k \in Components /\ scores[k] = g[<<k, p>>] /\ g[<<k, p>>] # NoMark
    BY DEF ScoresIn
  <2>2. \A m \in Marks : m \in Nat
    BY GradingAssumption
  <2> QED BY <2>1, <2>2
<1> HIDE DEF scores
<1>6. Resolve(ComputeFinal({<<k, weight[k]>> : k \in Live}, scores), score) = Outcome(Live, weight, g, p, score)
  BY <1>1, <1>4, <1>5, OutcomeOfList
<1> QED BY <1>2, <1>6 DEF scores

\* What the tables say of a pupil is the outcome of his components, unless it is hidden.
LEMMA TruthIs ==
  ReaderTypes =>
     \A i \in Readers :
        Truth(i) = IF ~report[i] /\ ofYear[i] \notin published THEN Hidden
                   ELSE Outcome(Live, weight, grade, whose[i], ManualNow(i))
<1> SUFFICES ASSUME ReaderTypes, NEW r \in Readers
             PROVE  Truth(r) = IF ~report[r] /\ ofYear[r] \notin published THEN Hidden
                               ELSE Outcome(Live, weight, grade, whose[r], ManualNow(r))
  OBVIOUS
<1>0. report[r] \in BOOLEAN
  BY DEF ReaderTypes
<1>1. CASE report[r]
  BY <1>1 DEF Truth, Outcome, ManualNow
<1>2. CASE ~report[r]
  BY <1>2 DEF Truth, Outcome, ManualNow
<1> QED BY <1>0, <1>1, <1>2

\* An answer is of its type.
LEMMA OutcomeTyped ==
  ComponentTypes /\ SheetTypes =>
     \A p \in Pupils, score \in Marks \cup {NoMark} : Outcome(Live, weight, grade, p, score) \in Answers
<1> SUFFICES ASSUME ComponentTypes, SheetTypes, NEW p \in Pupils, NEW score \in Marks \cup {NoMark}
             PROVE  Outcome(Live, weight, grade, p, score) \in Answers
  OBVIOUS
<1> DEFINE graded == {k \in Live : grade[<<k, p>>] # NoMark}
           points == [k \in graded |-> weight[k] * grade[<<k, p>>]]
           weights == [k \in graded |-> weight[k]]
<1>1. \A k \in graded : weight[k] \in Nat /\ grade[<<k, p>>] \in Nat
  <2>1. \A m \in Marks : m \in Nat
    BY GradingAssumption
  <2>2. \A k \in Live : k \in Components /\ weight[k] \in Nat
    BY GradingAssumption DEF ComponentTypes, Live
  <2>3. \A k \in Components : grade[<<k, p>>] \in Marks \cup {NoMark}
    BY DEF SheetTypes
  <2> QED BY <2>1, <2>2, <2>3
<1>2. \A k \in graded : points[k] \in Nat /\ weights[k] \in Nat
  BY <1>1
<1>3. IsFiniteSet(graded)
  <2>1. IsFiniteSet(Live) /\ graded \in SUBSET Live
    BY DEF ComponentTypes
  <2> QED BY <2>1, FS_Subset
<1>4. SumFunction(points) \in Nat /\ SumFunction(weights) \in Nat
  <2>1. DOMAIN points = graded /\ DOMAIN weights = graded
    OBVIOUS
  <2> HIDE DEF graded, points, weights
  <2> QED BY <1>2, <1>3, <2>1, SumNat DEF SumFunction
<1>5. score # NoMark => score \in Nat
  BY GradingAssumption
<1>6. Outcome(Live, weight, grade, p, score) =
        IF score # NoMark THEN [source |-> "manual", points |-> score, weight |-> 1]
        ELSE [source |-> IF graded # {} THEN "computed" ELSE "none",
              points |-> SumFunction(points), weight |-> SumFunction(weights)]
  BY DEF Outcome
<1> HIDE DEF graded, points, weights
<1> QED BY <1>4, <1>5, <1>6 DEF Answers

LEMMA TruthTyped ==
  ComponentTypes /\ SheetTypes /\ ReaderTypes => \A i \in Readers : reading[i] # "idle" => Truth(i) \in Answers
<1> SUFFICES ASSUME ComponentTypes, SheetTypes, ReaderTypes, NEW r \in Readers, reading[r] # "idle"
             PROVE  Truth(r) \in Answers
  OBVIOUS
<1>0. whose[r] \in Pupils /\ ofYear[r] \in SchoolYears
  BY DEF ReaderTypes
<1>1. ManualNow(r) \in Marks \cup {NoMark}
  BY <1>0 DEF ManualNow, SheetTypes
<1>2. Outcome(Live, weight, grade, whose[r], ManualNow(r)) \in Answers
  BY <1>0, <1>1, OutcomeTyped
<1> QED BY <1>2, TruthIs DEF Hidden, Answers

LEMMA ResolveTyped ==
  ASSUME NEW components \in SUBSET (Components \X Weights), IsFiniteSet(components),
         NEW K \in SUBSET Components, NEW scores \in [K -> Marks], NEW score \in Marks \cup {NoMark}
  PROVE  LET final == Resolve(ComputeFinal(components, scores), score)
         IN  final \in Answers /\ InRange(final)
<1>1. /\ ComputeFinal(components, scores).points \in Nat /\ ComputeFinal(components, scores).weight \in Nat
      /\ ComputeFinal(components, scores).points <= 100 * ComputeFinal(components, scores).weight
  BY FinalTyped
<1>2. score # NoMark => score \in 0..100
  BY GradingAssumption
<1> QED BY <1>1, <1>2 DEF Resolve, Answers, InRange

LEMMA ScoresTyped ==
  ASSUME SheetTypes, NEW components \in SUBSET (Components \X Weights), NEW p \in Pupils
  PROVE  \E K \in SUBSET Components : ScoresNow(components, p) \in [K -> Marks]
<1> DEFINE K == {k \in Components : grade[<<k, p>>] # NoMark /\ \E c \in components : c[1] = k}
<1>1. \A k \in K : grade[<<k, p>>] \in Marks
  BY DEF SheetTypes
<1>2. ScoresNow(components, p) = [k \in K |-> grade[<<k, p>>]]
  BY DEF ScoresNow
<1> QED BY <1>1, <1>2

-----------------------------------------------------------------------------
(* The steps of the pages and the reports. *)

TablesStand == UNCHANGED <<type, weight, grade, manual, published>>

\* What a step that is not a reader's makes of the tables a reader looks at.
TablesMove ==
    \/ TablesStand
    \/ /\ UNCHANGED <<grade, manual, published>>
       /\ \E k \in Components, y \in Kinds, w \in Weights :
            type' = [type EXCEPT ![k] = y] /\ weight' = [weight EXCEPT ![k] = w]
    \/ /\ UNCHANGED <<weight, manual, published>>
       /\ \E k \in Live : /\ type' = [type EXCEPT ![k] = "gone"]
                          /\ grade' = [c \in DOMAIN grade |-> IF c[1] = k THEN NoMark ELSE grade[c]]
    \/ UNCHANGED <<type, weight, manual, published>>
    \/ UNCHANGED <<type, weight, grade, published>>
    \/ UNCHANGED <<type, weight, grade, manual>> /\ published' \subseteq SchoolYears

ReaderMoves(r) ==
    \/ \E p \in Pupils : MyGrades(r, p) \/ Report(r, p)
    \/ ListPublishedSubjects(r) \/ ListComponentsRaw(r) \/ ListGradesForComponents(r)
    \/ ListManualScores(r) \/ ReaderLeaves(r)

LEMMA StepIs ==
  ASSUME ComponentTypes, SheetTypes, GradingStep
  PROVE  \/ TablesMove /\ UNCHANGED readVars
         \/ TablesStand /\ \E r \in Readers : ReaderMoves(r)
<1>1. ASSUME NEW k \in Components, NEW y \in Kinds, NEW w \in Weights, CreateComponent(k, y, w) \/ UpdateComponent(k, y, w)
      PROVE  TablesMove /\ UNCHANGED readVars
  BY <1>1 DEF CreateComponent, UpdateComponent, TablesMove
<1>2. ASSUME NEW k \in Components, DeleteComponent(k) PROVE TablesMove /\ UNCHANGED readVars
  BY <1>2 DEF DeleteComponent, TablesMove
<1>3. ASSUME NEW t \in Teachers, NEW f, PutManualScores(t, f) \/ (\E k \in Components : PutGrades(t, k, f)) \/ PutTPMappings(t, f)
      PROVE  TablesMove /\ UNCHANGED readVars
  BY <1>3 DEF PutManualScores, PutGrades, PutTPMappings, Put, gradeTables, TablesMove, TablesStand
<1>4. ASSUME NEW t \in Teachers, NEW shown \in BOOLEAN, PutPublication(t, shown) PROVE TablesMove /\ UNCHANGED readVars
  BY <1>4 DEF PutPublication, Put, gradeTables, TablesMove, TablesStand
<1>5. ASSUME NEW t \in Teachers, NEW row \in rest[t],
             DeleteGrade(t, row) \/ UpsertGrade(t, row) \/ UpsertManualScore(t, row) \/ CreateTPMapping(t, row)
      PROVE  TablesMove /\ UNCHANGED readVars
  BY <1>5 DEF DeleteGrade, UpsertGrade, UpsertManualScore, CreateTPMapping, Written, Ends, TablesMove
<1>6. ASSUME NEW t \in Teachers, DeleteTPMappings(t) \/ AnswerOrFail(t) PROVE TablesMove /\ UNCHANGED readVars
  BY <1>6 DEF DeleteTPMappings, AnswerOrFail, Ends, gradeTables, TablesMove, TablesStand
<1>7. ASSUME NEW t \in Teachers, SetPublication(t) PROVE TablesMove /\ UNCHANGED readVars
  <2>1. published' \subseteq SchoolYears
    BY <1>7 DEF SetPublication, ComponentTypes, SheetTypes
  <2> QED BY <1>7, <2>1 DEF SetPublication, Ends, TablesMove
<1>8. ASSUME (\E y \in SchoolYears : ActivateYear(y)) \/ (\E p \in Pupils : Transfer(p)) PROVE TablesMove /\ UNCHANGED readVars
  BY <1>8 DEF ActivateYear, Transfer, TablesMove, TablesStand
<1>9. ASSUME NEW r \in Readers, ReaderMoves(r) PROVE TablesStand
  BY <1>9 DEF ReaderMoves, MyGrades, Report, Ask, ListPublishedSubjects, ListComponentsRaw, ListGradesForComponents,
              ListManualScores, ReaderLeaves, Reads, gradeTables, TablesStand
<1> QED BY <1>1, <1>2, <1>3, <1>4, <1>5, <1>6, <1>7, <1>8, <1>9 DEF GradingStep, ReaderMoves

LEMMA ComponentTypesStep ==
  ASSUME ComponentTypes, SheetTypes, TablesMove PROVE ComponentTypes'
<1>0. /\ type \in [Components -> Kinds \cup {"none", "gone"}] /\ weight \in [Components -> Weights \cup {0}]
      /\ published \subseteq SchoolYears /\ IsFiniteSet(Live) /\ \A k \in Live : weight[k] \in Weights
  BY DEF ComponentTypes
<1>1. ASSUME UNCHANGED <<type, weight>>, published' \subseteq SchoolYears PROVE ComponentTypes'
  <2>1. Live' = Live
    BY <1>1 DEF Live
  <2> QED BY <1>0, <1>1, <2>1 DEF ComponentTypes
<1>2. ASSUME NEW k \in Components, NEW y \in Kinds, NEW w \in Weights, published' = published,
             type' = [type EXCEPT ![k] = y], weight' = [weight EXCEPT ![k] = w]
      PROVE  ComponentTypes'
  <2>1. type' \in [Components -> Kinds \cup {"none", "gone"}] /\ weight' \in [Components -> Weights \cup {0}]
    BY <1>0, <1>2
  <2>2. Live' = Live \cup {k}
    BY <1>0, <1>2 DEF Live
  <2>3. IsFiniteSet(Live')
    BY <1>0, <2>2, FS_AddElement
  <2>4. \A j \in Live' : weight'[j] \in Weights
    BY <1>0, <1>2, <2>2 DEF Live
  <2> QED BY <1>0, <1>2, <2>1, <2>3, <2>4 DEF ComponentTypes
<1>3. ASSUME NEW k \in Live, type' = [type EXCEPT ![k] = "gone"], UNCHANGED <<weight, published>> PROVE ComponentTypes'
  <2>1. type' \in [Components -> Kinds \cup {"none", "gone"}]
    BY <1>0, <1>3
  <2>2. Live' \in SUBSET Live
    BY <1>0, <1>3 DEF Live, Kinds
  <2>3. IsFiniteSet(Live')
    BY <1>0, <2>2, FS_Subset
  <2> QED BY <1>0, <1>3, <2>1, <2>2, <2>3 DEF ComponentTypes
<1> QED BY <1>0, <1>1, <1>2, <1>3 DEF TablesMove, TablesStand

\* What the tables say of a reader's pupil stands as long as the tables do.
LEMMA TruthStands ==
  ASSUME TablesStand, NEW r \in Readers, report'[r] = report[r], whose'[r] = whose[r], ofYear'[r] = ofYear[r]
  PROVE  Truth(r)' = Truth(r)
<1>1. Live' = Live
  BY DEF TablesStand, Live
<1> QED BY <1>1 DEF TablesStand, Truth

\* A reader who waits while the tables stand.
LEMMA ReaderWaits ==
  ASSUME PagesInv, Observe, TablesStand, NEW r \in Readers,
         reading'[r] = reading[r], report'[r] = report[r], whose'[r] = whose[r], ofYear'[r] = ofYear[r],
         listed'[r] = listed[r], marks'[r] = marks[r], answer'[r] = answer[r]
  PROVE  ReadsOneMoment(r)'
<1>1. ReadsOneMoment(r) /\ Live' = Live
  BY DEF PagesInv, TablesStand, Live
<1>2. Truth(r)' = Truth(r)
  BY TruthStands
<1>3. CASE reading[r] = "idle"
  BY <1>1, <1>3 DEF ReadsOneMoment
<1>4. CASE reading[r] # "idle"
  <2>1. moments'[r] = moments[r] \cup {Truth(r)} /\ changes'[r] = changes[r]
    BY <1>2, <1>4 DEF Observe, TablesStand
  <2>2. ScoresNow(listed[r], whose[r])' = ScoresNow(listed[r], whose[r]) /\ ManualNow(r)' = ManualNow(r)
    BY DEF ScoresNow, ManualNow, TablesStand
  <2>3. Upcoming(r)' = Upcoming(r)
    BY <1>1, <1>2, <2>2 DEF Upcoming, TablesStand
  <2>4. ReadIsCurrent(r) => ReadIsCurrent(r)'
    BY <1>1, <2>2 DEF ReadIsCurrent, ComponentsNow, TablesStand
  <2> QED BY <1>1, <1>2, <2>1, <2>3, <2>4 DEF ReadsOneMoment
<1> QED BY <1>3, <1>4

\* Nothing has changed yet: what a reader has read gives the outcome of the tables,
\* also with other marks or another manual score.
LEMMA UpcomingIs ==
  ASSUME PagesInv, SheetTypes, NEW r \in Readers, reading[r] \in {"marks", "manual"}, ReadIsCurrent(r),
         NEW g \in [Components \X Pupils -> Marks \cup {NoMark}], NEW score
  PROVE  /\ Resolve(ComputeFinal(listed[r], ScoresIn(g, listed[r], whose[r])), score)
              = Outcome(Live, weight, g, whose[r], score)
         /\ reading[r] = "manual" =>
              Resolve(ComputeFinal(listed[r], marks[r]), score) = Outcome(Live, weight, grade, whose[r], score)
<1>1. ComponentTypes /\ whose[r] \in Pupils /\ grade \in [Components \X Pupils -> Marks \cup {NoMark}]
  BY DEF PagesInv, ReaderTypes, SheetTypes
<1>2. listed[r] = ComponentsNow
  BY DEF ReadIsCurrent
<1>3. \A f \in [Components \X Pupils -> Marks \cup {NoMark}] :
        Resolve(ComputeFinal(listed[r], ScoresIn(f, listed[r], whose[r])), score)
          = Outcome(Live, weight, f, whose[r], score)
  BY <1>1, <1>2, OutcomeNow
<1>4. reading[r] = "manual" => marks[r] = ScoresIn(grade, listed[r], whose[r])
  BY DEF ReadIsCurrent, ScoresNow, ScoresIn
<1> QED BY <1>1, <1>3, <1>4

\* A reader who waits while the tables change for the first time: his answer is what they
\* said before or what they say now.
LEMMA FirstChange ==
  ASSUME PagesInv, SheetTypes, SheetTypes', ReaderTypes', TablesMove, UNCHANGED readVars, NEW r \in Readers,
         reading[r] \notin {"idle", "answered"}, ReadIsCurrent(r)
  PROVE  Upcoming(r)' = Upcoming(r) \/ Upcoming(r)' = Truth(r)'
<1>0. /\ ComponentTypes /\ ReaderTypes /\ ReadsOneMoment(r)
      /\ reading[r] \in {"published", "components", "marks", "manual"}
      /\ whose[r] \in Pupils /\ report[r] \in BOOLEAN
      /\ grade \in [Components \X Pupils -> Marks \cup {NoMark}]
      /\ grade' \in [Components \X Pupils -> Marks \cup {NoMark}]
  BY DEF PagesInv, ReaderTypes, SheetTypes
<1>1. /\ reading' = reading /\ whose' = whose /\ report' = report /\ ofYear' = ofYear
      /\ listed' = listed /\ marks' = marks /\ answer' = answer
  BY DEF readVars
<1> DEFINE hidden == ~report[r] /\ ofYear[r] \notin published
           p == whose[r]
<1>2. Truth(r)' = IF ~report[r] /\ ofYear[r] \notin published' THEN Hidden
                  ELSE Outcome(Live', weight', grade', p, ManualNow(r)')
  <2>1. (ReaderTypes =>
           \A i \in Readers :
              Truth(i) = IF ~report[i] /\ ofYear[i] \notin published THEN Hidden
                         ELSE Outcome(Live, weight, grade, whose[i], ManualNow(i)))'
    BY TruthIs, PTL
  <2>2. Truth(r)' = (IF ~report[r] /\ ofYear[r] \notin published THEN Hidden
                     ELSE Outcome(Live, weight, grade, whose[r], ManualNow(r)))'
    BY <1>0, <1>1, <2>1
  <2> QED BY <1>1, <2>2 DEF Outcome
<1>3. CASE reading[r] = "published"
  BY <1>1, <1>3 DEF Upcoming
<1>4. CASE reading[r] = "components"
  <2>1. Upcoming(r)' = Outcome(Live', weight', grade', p, ManualNow(r)')
    BY <1>1, <1>4 DEF Upcoming, Outcome
  <2>2. CASE UNCHANGED published
    <3>1. ~(~report[r] /\ ofYear[r] \notin published')
      BY <1>4, <2>2 DEF ReadIsCurrent
    <3> QED BY <1>2, <2>1, <3>1
  <2>3. CASE UNCHANGED <<type, weight, grade, manual>>
    <3>1. Live' = Live /\ ManualNow(r)' = ManualNow(r)
      BY <1>1, <2>3 DEF Live, ManualNow
    <3>2. Upcoming(r) = Outcome(Live, weight, grade, p, ManualNow(r))
      BY <1>4 DEF Upcoming
    <3> QED BY <2>1, <2>3, <3>1, <3>2
  <2> QED BY <2>2, <2>3 DEF TablesMove, TablesStand
<1>5. CASE reading[r] \in {"marks", "manual"}
  <2> DEFINE g == IF reading[r] = "marks" THEN grade' ELSE grade
  <2>1. Upcoming(r) = Outcome(Live, weight, grade, p, ManualNow(r))
    <3>1. /\ Resolve(ComputeFinal(listed[r], ScoresIn(grade, listed[r], p)), ManualNow(r))
               = Outcome(Live, weight, grade, p, ManualNow(r))
          /\ reading[r] = "manual" =>
               Resolve(ComputeFinal(listed[r], marks[r]), ManualNow(r)) = Outcome(Live, weight, grade, p, ManualNow(r))
      BY <1>0, <1>5, UpcomingIs
    <3> QED BY <1>5, <3>1 DEF Upcoming, ScoresNow, ScoresIn
  <2>2. Upcoming(r)' = Outcome(Live, weight, g, p, ManualNow(r)')
    <3>1. /\ Resolve(ComputeFinal(listed[r], ScoresIn(grade', listed[r], p)), ManualNow(r)')
               = Outcome(Live, weight, grade', p, ManualNow(r)')
          /\ reading[r] = "manual" =>
               Resolve(ComputeFinal(listed[r], marks[r]), ManualNow(r)') = Outcome(Live, weight, grade, p, ManualNow(r)')
      BY <1>0, <1>5, UpcomingIs
    <3>2. reading[r] = "marks" =>
            Upcoming(r)' = Resolve(ComputeFinal(listed[r], ScoresIn(grade', listed[r], p)), ManualNow(r)')
      BY <1>1 DEF Upcoming, ScoresNow, ScoresIn, Resolve, ComputeFinal, Scored
    <3>3. reading[r] = "manual" => Upcoming(r)' = Resolve(ComputeFinal(listed[r], marks[r]), ManualNow(r)')
      BY <1>1 DEF Upcoming, Resolve, ComputeFinal, Scored
    <3> QED BY <1>5, <3>1, <3>2, <3>3
  <2>3. report[r] \/ reading[r] = "marks"
    BY <1>0, <1>5 DEF ReadsOneMoment
  <2>4. UNCHANGED published => ~(~report[r] /\ ofYear[r] \notin published')
    BY <1>5, <2>3 DEF ReadIsCurrent
  <2>5. UNCHANGED <<grade, manual>> => Upcoming(r)' = Upcoming(r)
    BY <1>1, <2>1, <2>2 DEF ManualNow
  <2>6. ASSUME UNCHANGED <<type, weight, published>>, g = grade' PROVE Upcoming(r)' = Truth(r)'
    <3>1. Live' = Live
      BY <2>6 DEF Live
    <3> QED BY <1>2, <2>2, <2>4, <2>6, <3>1
  <2>7. ASSUME UNCHANGED <<weight, manual, published>>, NEW k \in Live, type' = [type EXCEPT ![k] = "gone"],
               grade' = [c \in DOMAIN grade |-> IF c[1] = k THEN NoMark ELSE grade[c]]
        PROVE  Upcoming(r)' = Upcoming(r) \/ Upcoming(r)' = Truth(r)'
    <3>1. CASE reading[r] = "marks"
      <4>1. \A j \in Live : j # k <=> j \in Live'
        BY <1>0, <2>7 DEF Live, Kinds, ComponentTypes
      <4>2. Live' \subseteq Live
        BY <1>0, <2>7 DEF Live, Kinds, ComponentTypes
      <4>3. grade'[<<k, p>>] = NoMark
        <5>1. <<k, p>> \in DOMAIN grade /\ <<k, p>>[1] = k
          BY <1>0, <2>7 DEF Live
        <5> QED BY <2>7, <5>1
      <4>4. {j \in Live : grade'[<<j, p>>] # NoMark} = {j \in Live' : grade'[<<j, p>>] # NoMark}
        BY <4>1, <4>2, <4>3
      <4>5. Outcome(Live, weight, grade', p, ManualNow(r)') = Outcome(Live', weight, grade', p, ManualNow(r)')
        BY <4>4 DEF Outcome
      <4> QED BY <1>2, <2>2, <2>4, <2>7, <3>1, <4>5
    <3>2. CASE reading[r] = "manual"
      BY <1>1, <2>1, <2>2, <2>7, <3>2 DEF ManualNow
    <3> QED BY <1>5, <3>1, <3>2
  <2>8. ASSUME UNCHANGED <<type, weight, manual, published>> PROVE Upcoming(r)' = Upcoming(r) \/ Upcoming(r)' = Truth(r)'
    <3>1. CASE reading[r] = "marks"
      BY <2>6, <2>8, <3>1
    <3>2. CASE reading[r] = "manual"
      BY <1>1, <2>1, <2>2, <2>8, <3>2 DEF ManualNow
    <3> QED BY <1>5, <3>1, <3>2
  <2>9. ASSUME UNCHANGED <<type, weight, grade, published>> PROVE Upcoming(r)' = Truth(r)'
    BY <2>6, <2>9
  <2> QED BY <2>5, <2>7, <2>8, <2>9 DEF TablesMove, TablesStand
<1> QED BY <1>0, <1>3, <1>4, <1>5

\* A reader who waits.
LEMMA TablesMoveStep ==
  ASSUME PagesInv, SheetTypes, SheetTypes', ReaderTypes', Observe, TablesMove, UNCHANGED readVars, NEW r \in Readers
  PROVE  ReadsOneMoment(r)'
<1>1. /\ reading' = reading /\ whose' = whose /\ report' = report /\ ofYear' = ofYear
      /\ listed' = listed /\ marks' = marks /\ answer' = answer
  BY DEF readVars
<1>2. ReadsOneMoment(r) /\ changes[r] \in 0..2 /\ reading[r] \in {"idle", "published", "components", "marks", "manual", "answered"}
  BY DEF PagesInv, ReaderTypes, HistoryTypes
<1>3. CASE TablesStand
  BY <1>1, <1>3, ReaderWaits
<1>4. CASE reading[r] = "idle"
  BY <1>1, <1>2, <1>4 DEF ReadsOneMoment
<1>5. CASE ~TablesStand /\ reading[r] # "idle"
  <2>1. moments'[r] = moments[r] \cup {Truth(r)'} /\ changes'[r] = IF changes[r] = 0 THEN 1 ELSE 2
    BY <1>1, <1>5 DEF Observe, TablesStand
  <2>2. changes[r] = 0 => Upcoming(r)' = Upcoming(r) \/ Upcoming(r)' = Truth(r)'
    <3>1. CASE reading[r] = "answered"
      BY <1>1, <3>1 DEF Upcoming
    <3>2. CASE reading[r] # "answered"
      BY <1>2, <1>5, <3>2, FirstChange DEF ReadsOneMoment
    <3> QED BY <3>1, <3>2
  <2>3. changes'[r] < 2 => changes[r] = 0
    BY <2>1
  <2> QED BY <1>1, <1>2, <1>5, <2>1, <2>2, <2>3 DEF ReadsOneMoment
<1> QED BY <1>3, <1>4, <1>5

\* A reader who moves: his types.
LEMMA ReaderTypesStep ==
  ASSUME PagesInv, SheetTypes, NEW r \in Readers, ReaderMoves(r)
  PROVE  ReaderTypes'
<1>0. ReaderTypes /\ ComponentTypes /\ SheetTypes
  BY DEF PagesInv
<1>1. ASSUME NEW p \in Pupils, MyGrades(r, p) \/ Report(r, p) PROVE ReaderTypes'
  <2>1. PICK step \in {"published", "components"}, isReport \in BOOLEAN : Ask(r, step, p, isReport)
    BY <1>1 DEF MyGrades, Report
  <2>2. /\ reading' = [reading EXCEPT ![r] = step] /\ whose' = [whose EXCEPT ![r] = p]
        /\ report' = [report EXCEPT ![r] = isReport] /\ ofYear' = [ofYear EXCEPT ![r] = activeYear]
        /\ UNCHANGED <<listed, marks, answer>> /\ activeYear \in SchoolYears
    BY <1>0, <2>1 DEF Ask, SheetTypes
  <2>3. /\ reading' \in [Readers -> {"idle", "published", "components", "marks", "manual", "answered"}]
        /\ whose' \in [Readers -> Pupils \cup {NoPupil}] /\ report' \in [Readers -> BOOLEAN]
        /\ ofYear' \in [Readers -> SchoolYears]
    BY <1>0, <2>2 DEF ReaderTypes
  <2>4. \A i \in Readers : reading'[i] # "idle" => whose'[i] \in Pupils
    BY <1>0, <2>2 DEF ReaderTypes
  <2> QED BY <1>0, <2>2, <2>3, <2>4 DEF ReaderTypes
<1>2. CASE ListPublishedSubjects(r)
  BY <1>0, <1>2 DEF ListPublishedSubjects, Reads, ReaderTypes
<1>3. CASE ListComponentsRaw(r)
  <2>1. ComponentsNow \in SUBSET (Components \X Weights) /\ IsFiniteSet(ComponentsNow)
    BY <1>0, ListNow
  <2>2. listed' = [listed EXCEPT ![r] = ComponentsNow] /\ reading' = [reading EXCEPT ![r] = "marks"] /\ reading[r] = "components"
        /\ UNCHANGED <<whose, report, ofYear, marks, answer>>
    BY <1>3 DEF ListComponentsRaw, Reads
  <2> HIDE DEF ComponentsNow
  <2> QED BY <1>0, <2>1, <2>2 DEF ReaderTypes
<1>4. CASE ListGradesForComponents(r)
  <2> DEFINE scores == ScoresNow(listed[r], whose[r])
             final == Resolve(ComputeFinal(listed[r], scores), NoMark)
  <2>1. whose[r] \in Pupils /\ listed[r] \in SUBSET (Components \X Weights) /\ IsFiniteSet(listed[r])
    BY <1>0, <1>4 DEF ReaderTypes, ListGradesForComponents
  <2>2. PICK K \in SUBSET Components : scores \in [K -> Marks]
    BY <1>0, <2>1, ScoresTyped
  <2>3. final \in Answers /\ InRange(final)
    <3> HIDE DEF scores
    <3> QED BY <2>1, <2>2, ResolveTyped
  <2>4. /\ reading[r] = "marks" /\ reading' = [reading EXCEPT ![r] = IF report[r] THEN "manual" ELSE "answered"]
        /\ marks' = [marks EXCEPT ![r] = scores]
        /\ answer' = answer \/ answer' = [answer EXCEPT ![r] = final]
        /\ UNCHANGED <<whose, report, ofYear, listed>>
    BY <1>4 DEF ListGradesForComponents, Reads
  <2>5. scores \in UNION {[L -> Marks] : L \in SUBSET Components}
    BY <2>2
  <2> HIDE DEF scores, final
  <2>6. marks' \in [Readers -> UNION {[L -> Marks] : L \in SUBSET Components}]
    BY <1>0, <2>4, <2>5 DEF ReaderTypes
  <2>7. answer' \in [Readers -> Answers]
    BY <1>0, <2>3, <2>4 DEF ReaderTypes
  <2>8. reading' \in [Readers -> {"idle", "published", "components", "marks", "manual", "answered"}]
    BY <1>0, <2>4 DEF ReaderTypes
  <2>9. \A i \in Readers : InRange(answer'[i])
    BY <1>0, <2>3, <2>4 DEF ReaderTypes
  <2> QED BY <1>0, <2>4, <2>6, <2>7, <2>8, <2>9 DEF ReaderTypes
<1>5. CASE ListManualScores(r)
  <2> DEFINE final == Resolve(ComputeFinal(listed[r], marks[r]), manual[<<ofYear[r], whose[r]>>])
  <2>1. /\ whose[r] \in Pupils /\ listed[r] \in SUBSET (Components \X Weights) /\ IsFiniteSet(listed[r])
        /\ marks[r] \in UNION {[L -> Marks] : L \in SUBSET Components}
        /\ manual[<<ofYear[r], whose[r]>>] \in Marks \cup {NoMark}
    BY <1>0, <1>5 DEF ReaderTypes, ListManualScores, SheetTypes
  <2>2. PICK K \in SUBSET Components : marks[r] \in [K -> Marks]
    BY <2>1
  <2>3. final \in Answers /\ InRange(final)
    BY <2>1, <2>2, ResolveTyped
  <2>4. /\ reading[r] = "manual" /\ reading' = [reading EXCEPT ![r] = "answered"]
        /\ answer' = [answer EXCEPT ![r] = final]
        /\ UNCHANGED <<whose, report, ofYear, listed, marks>>
    BY <1>5 DEF ListManualScores, Reads
  <2> HIDE DEF final
  <2>5. answer' \in [Readers -> Answers]
    BY <1>0, <2>3, <2>4 DEF ReaderTypes
  <2>6. reading' \in [Readers -> {"idle", "published", "components", "marks", "manual", "answered"}]
    BY <1>0, <2>4 DEF ReaderTypes
  <2>7. \A i \in Readers : InRange(answer'[i])
    BY <1>0, <2>3, <2>4 DEF ReaderTypes
  <2> QED BY <1>0, <2>4, <2>5, <2>6, <2>7 DEF ReaderTypes
<1>6. CASE ReaderLeaves(r)
  <2>1. NoScores \in UNION {[L -> Marks] : L \in SUBSET Components} /\ Hidden \in Answers /\ InRange(Hidden) /\ IsFiniteSet({})
    <3>1. NoScores \in [{} -> Marks]
      BY DEF NoScores
    <3>2. Hidden \in Answers /\ InRange(Hidden)
      BY DEF Hidden, Answers, InRange
    <3> QED BY <3>1, <3>2, FS_EmptySet
  <2>2. marks' \in [Readers -> UNION {[L -> Marks] : L \in SUBSET Components}] /\ answer' \in [Readers -> Answers]
    <3> HIDE DEF NoScores, Hidden
    <3> QED BY <1>0, <1>6, <2>1 DEF ReaderLeaves, ReaderTypes
  <2>3. /\ reading' \in [Readers -> {"idle", "published", "components", "marks", "manual", "answered"}]
        /\ whose' \in [Readers -> Pupils \cup {NoPupil}] /\ report' \in [Readers -> BOOLEAN]
        /\ ofYear' \in [Readers -> SchoolYears]
        /\ listed' \in [Readers -> SUBSET (Components \X Weights)]
    BY <1>0, <1>6, GradingAssumption DEF ReaderLeaves, ReaderTypes
  <2>4. ASSUME NEW i \in Readers PROVE IsFiniteSet(listed'[i]) /\ (reading'[i] # "idle" => whose'[i] \in Pupils)
    BY <1>0, <1>6, <2>1 DEF ReaderLeaves, ReaderTypes
  <2>5. \A i \in Readers : InRange(answer'[i])
    <3> HIDE DEF Hidden
    <3> QED BY <1>0, <1>6, <2>1 DEF ReaderLeaves, ReaderTypes
  <2> QED BY <2>2, <2>3, <2>4, <2>5 DEF ReaderTypes
<1> QED BY <1>1, <1>2, <1>3, <1>4, <1>5, <1>6 DEF ReaderMoves

\* The readers that wait while r moves.
LEMMA OnlyOneMoves ==
  ASSUME PagesInv, NEW r \in Readers, ReaderMoves(r), NEW i \in Readers \ {r}
  PROVE  /\ reading'[i] = reading[i] /\ report'[i] = report[i] /\ whose'[i] = whose[i] /\ ofYear'[i] = ofYear[i]
         /\ listed'[i] = listed[i] /\ marks'[i] = marks[i] /\ answer'[i] = answer[i]
BY DEF PagesInv, ReaderTypes, ReaderMoves, MyGrades, Report, Ask, ListPublishedSubjects, ListComponentsRaw,
       ListGradesForComponents, ListManualScores, ReaderLeaves, Reads

\* A read that leaves what the reader is coming to as it was.
LEMMA ReadStep ==
  ASSUME PagesInv, Observe, TablesStand, NEW r \in Readers, reading[r] # "idle", reading'[r] # "idle",
         report'[r] = report[r], whose'[r] = whose[r], ofYear'[r] = ofYear[r],
         reading'[r] # "published",
         reading'[r] = "manual" => report[r],
         reading'[r] # "answered" => answer'[r] = Hidden,
         changes[r] = 0 => ReadIsCurrent(r)',
         changes[r] < 2 => Upcoming(r)' = Upcoming(r)
  PROVE  ReadsOneMoment(r)'
<1>1. Truth(r)' = Truth(r)
  BY TruthStands
<1>2. moments'[r] = moments[r] \cup {Truth(r)} /\ changes'[r] = changes[r]
  BY <1>1 DEF Observe, TablesStand
<1> QED BY <1>1, <1>2 DEF PagesInv, ReadsOneMoment

\* A reader who moves.
LEMMA ReaderStep ==
  ASSUME PagesInv, SheetTypes, ReaderTypes', Observe, TablesStand, NEW r \in Readers, ReaderMoves(r)
  PROVE  ReadsOneMoment(r)'
<1>0. /\ ReaderTypes /\ ComponentTypes /\ HistoryTypes /\ ReadsOneMoment(r)
      /\ changes[r] \in 0..2 /\ report[r] \in BOOLEAN
  BY DEF PagesInv, ReaderTypes, HistoryTypes
<1>1. Live' = Live /\ ComponentsNow' = ComponentsNow
  BY DEF TablesStand, Live, ComponentsNow
<1>2. ASSUME NEW p \in Pupils, MyGrades(r, p) PROVE ReadsOneMoment(r)'
  <2>1. reading[r] = "idle" /\ reading'[r] = "published" /\ report'[r] = FALSE /\ answer'[r] = answer[r] /\ answer[r] = Hidden
    BY <1>0, <1>2 DEF MyGrades, Ask, ReaderTypes, ReadsOneMoment
  <2>2. moments'[r] = moments[r] \cup {Truth(r)'} /\ changes'[r] = 0
    BY <2>1 DEF Observe, TablesStand
  <2>3. Upcoming(r)' = Truth(r)'
    BY <2>1 DEF Upcoming
  <2>4. ReadIsCurrent(r)'
    BY <2>1 DEF ReadIsCurrent
  <2> QED BY <2>1, <2>2, <2>3, <2>4 DEF ReadsOneMoment
<1>3. ASSUME NEW p \in Pupils, Report(r, p) PROVE ReadsOneMoment(r)'
  <2>1. reading[r] = "idle" /\ reading'[r] = "components" /\ report'[r] = TRUE /\ answer'[r] = answer[r] /\ answer[r] = Hidden
    BY <1>0, <1>3 DEF Report, Ask, ReaderTypes, ReadsOneMoment
  <2>2. moments'[r] = moments[r] \cup {Truth(r)'} /\ changes'[r] = 0
    BY <2>1 DEF Observe, TablesStand
  <2>3. Upcoming(r)' = Truth(r)'
    <3>1. (ReaderTypes =>
             \A i \in Readers :
                Truth(i) = IF ~report[i] /\ ofYear[i] \notin published THEN Hidden
                           ELSE Outcome(Live, weight, grade, whose[i], ManualNow(i)))'
      BY TruthIs, PTL
    <3>2. Truth(r)' = Outcome(Live, weight, grade, whose[r], ManualNow(r))'
      BY <2>1, <3>1
    <3>3. Upcoming(r)' = Outcome(Live, weight, grade, whose[r], ManualNow(r))'
      BY <2>1 DEF Upcoming
    <3> QED BY <3>2, <3>3
  <2>4. ReadIsCurrent(r)'
    BY <2>1 DEF ReadIsCurrent
  <2> QED BY <2>1, <2>2, <2>3, <2>4 DEF ReadsOneMoment
<1>4. CASE ListPublishedSubjects(r)
  <2>1. /\ reading[r] = "published" /\ reading'[r] = IF ofYear[r] \in published THEN "components" ELSE "answered"
        /\ report' = report /\ whose' = whose /\ ofYear' = ofYear /\ answer' = answer
        /\ ~report[r] /\ answer[r] = Hidden
    BY <1>0, <1>4 DEF ListPublishedSubjects, Reads, ReaderTypes, ReadsOneMoment
  <2>2. Upcoming(r) = IF ofYear[r] \notin published THEN Hidden ELSE Outcome(Live, weight, grade, whose[r], ManualNow(r))
    BY <1>0, <2>1, TruthIs DEF Upcoming
  <2>3. Upcoming(r)' = Upcoming(r)
    <3>1. CASE ofYear[r] \in published
      <4>1. Upcoming(r)' = Outcome(Live, weight, grade, whose[r], ManualNow(r))'
        BY <2>1, <3>1 DEF Upcoming
      <4>2. Outcome(Live, weight, grade, whose[r], ManualNow(r))' = Outcome(Live, weight, grade, whose[r], ManualNow(r))
        BY <1>1, <2>1 DEF Outcome, ManualNow, TablesStand
      <4> QED BY <2>2, <3>1, <4>1, <4>2
    <3>2. CASE ofYear[r] \notin published
      BY <2>1, <2>2, <3>2 DEF Upcoming
    <3> QED BY <3>1, <3>2
  <2>4. ReadIsCurrent(r)'
    BY <2>1 DEF ReadIsCurrent, TablesStand
  <2> QED BY <2>1, <2>3, <2>4, ReadStep
<1>5. CASE ListComponentsRaw(r)
  <2>1. /\ reading[r] = "components" /\ reading'[r] = "marks" /\ listed'[r] = ComponentsNow
        /\ report' = report /\ whose' = whose /\ ofYear' = ofYear /\ answer' = answer
        /\ answer[r] = Hidden /\ whose[r] \in Pupils
    BY <1>0, <1>5 DEF ListComponentsRaw, Reads, ReaderTypes, ReadsOneMoment
  <2>2. Upcoming(r)' = Upcoming(r)
    <3>1. Upcoming(r) = Outcome(Live, weight, grade, whose[r], ManualNow(r))
      BY <2>1 DEF Upcoming
    <3>2. Upcoming(r)' = Resolve(ComputeFinal(ComponentsNow, ScoresIn(grade, ComponentsNow, whose[r])), ManualNow(r))
      <4>1. ManualNow(r)' = ManualNow(r)
        BY <2>1 DEF ManualNow, TablesStand
      <4>2. ScoresNow(listed[r], whose[r])' = ScoresIn(grade, ComponentsNow, whose[r])
        BY <2>1 DEF ScoresNow, ScoresIn, TablesStand
      <4> QED BY <2>1, <4>1, <4>2 DEF Upcoming, Resolve, ComputeFinal, Scored
    <3>3. grade \in [Components \X Pupils -> Marks \cup {NoMark}]
      BY DEF SheetTypes
    <3> QED BY <1>0, <2>1, <3>1, <3>2, <3>3, OutcomeNow
  <2>3. changes[r] = 0 => ReadIsCurrent(r)'
    BY <1>0, <1>1, <2>1 DEF ReadIsCurrent, ReadsOneMoment, TablesStand
  <2> QED BY <2>1, <2>2, <2>3, ReadStep
<1>6. CASE ListGradesForComponents(r)
  <2> DEFINE scores == ScoresNow(listed[r], whose[r])
  <2>1. /\ reading[r] = "marks" /\ reading'[r] = IF report[r] THEN "manual" ELSE "answered"
        /\ report' = report /\ whose' = whose /\ ofYear' = ofYear /\ listed' = listed
        /\ marks'[r] = scores /\ answer[r] = Hidden
        /\ answer'[r] = IF report[r] THEN answer[r] ELSE Resolve(ComputeFinal(listed[r], scores), NoMark)
    BY <1>0, <1>6 DEF ListGradesForComponents, Reads, ReaderTypes, ReadsOneMoment
  <2>2. ManualNow(r)' = ManualNow(r) /\ scores' = scores
    BY <2>1 DEF ManualNow, ScoresNow, TablesStand
  <2>3. Upcoming(r) = Resolve(ComputeFinal(listed[r], scores), ManualNow(r))
    BY <2>1 DEF Upcoming
  <2>4. Upcoming(r)' = Upcoming(r)
    <3>1. CASE report[r]
      BY <2>1, <2>2, <2>3, <3>1 DEF Upcoming, Resolve, ComputeFinal, Scored
    <3>2. CASE ~report[r]
      BY <2>1, <2>3, <3>2 DEF Upcoming, ManualNow
    <3> QED BY <3>1, <3>2
  <2>5. changes[r] = 0 => ReadIsCurrent(r)'
    BY <1>0, <1>1, <2>1, <2>2 DEF ReadIsCurrent, ReadsOneMoment
  <2> QED BY <2>1, <2>4, <2>5, ReadStep
<1>7. CASE ListManualScores(r)
  <2>1. /\ reading[r] = "manual" /\ reading'[r] = "answered" /\ report[r]
        /\ report' = report /\ whose' = whose /\ ofYear' = ofYear
        /\ answer'[r] = Resolve(ComputeFinal(listed[r], marks[r]), manual[<<ofYear[r], whose[r]>>])
    BY <1>0, <1>7 DEF ListManualScores, Reads, ReaderTypes, ReadsOneMoment
  <2>2. Upcoming(r)' = Upcoming(r)
    BY <2>1 DEF Upcoming, ManualNow
  <2>3. ReadIsCurrent(r)'
    BY <2>1 DEF ReadIsCurrent
  <2> QED BY <2>1, <2>2, <2>3, ReadStep
<1>8. CASE ReaderLeaves(r)
  <2>1. reading'[r] = "idle" /\ answer'[r] = Hidden
    BY <1>0, <1>8 DEF ReaderLeaves, ReaderTypes
  <2> QED BY <2>1 DEF ReadsOneMoment
<1> QED BY <1>2, <1>3, <1>4, <1>5, <1>6, <1>7, <1>8 DEF ReaderMoves

LEMMA HistoryTypesStep ==
  ASSUME PagesInv, SheetTypes', ComponentTypes', ReaderTypes', Observe PROVE HistoryTypes'
<1>1. (ComponentTypes /\ SheetTypes /\ ReaderTypes => \A i \in Readers : reading[i] # "idle" => Truth(i) \in Answers)'
  BY TruthTyped, PTL
<1>2. \A i \in Readers : reading'[i] # "idle" => Truth(i)' \in Answers
  BY <1>1
<1> QED BY <1>2 DEF Observe, PagesInv, HistoryTypes

LEMMA PagesInitially == GradingInit => PagesInv
<1> SUFFICES ASSUME GradingInit PROVE PagesInv
  OBVIOUS
<1>1. Live = {} /\ IsFiniteSet({})
  BY FS_EmptySet DEF GradingInit, Live, Kinds
<1>2. ComponentTypes
  BY <1>1 DEF GradingInit, ComponentTypes
<1>3. NoScores \in UNION {[L -> Marks] : L \in SUBSET Components} /\ Hidden \in Answers /\ InRange(Hidden)
  <2>1. NoScores \in [{} -> Marks]
    BY DEF NoScores
  <2> QED BY <2>1 DEF Hidden, Answers, InRange
<1>4. ReaderTypes /\ HistoryTypes
  <2> HIDE DEF NoScores, Hidden
  <2> QED BY <1>1, <1>3, GradingAssumption DEF GradingInit, ReaderTypes, HistoryTypes
<1>5. \A r \in Readers : ReadsOneMoment(r)
  BY DEF GradingInit, ReadsOneMoment
<1> QED BY <1>2, <1>4, <1>5 DEF PagesInv

LEMMA PagesStep == PagesInv /\ SheetInv /\ SheetInv' /\ [GradingNext]_gradingVars => PagesInv'
<1> SUFFICES ASSUME PagesInv, SheetInv, SheetInv', [GradingNext]_gradingVars PROVE PagesInv'
  OBVIOUS
<1>0. SheetTypes /\ SheetTypes' /\ ComponentTypes
  BY DEF SheetInv, PagesInv
<1>1. CASE UNCHANGED gradingVars
  <2>1. /\ UNCHANGED <<type, weight, grade, manual, published>> /\ UNCHANGED readVars /\ UNCHANGED <<moments, changes>>
        /\ Live' = Live
    BY <1>1 DEF gradingVars, gradeTables, Live
  <2>2. ComponentTypes' /\ ReaderTypes' /\ HistoryTypes'
    BY <2>1 DEF PagesInv, ComponentTypes, ReaderTypes, HistoryTypes, readVars
  <2>3. ASSUME NEW r \in Readers PROVE ReadsOneMoment(r)'
    <3>1. Truth(r)' = Truth(r) /\ ManualNow(r)' = ManualNow(r) /\ ComponentsNow' = ComponentsNow
      BY <2>1 DEF Truth, ManualNow, ComponentsNow, readVars
    <3>2. Upcoming(r)' = Upcoming(r)
      BY <2>1, <3>1 DEF Upcoming, readVars, Resolve, ComputeFinal, Scored, ScoresNow, Outcome
    <3>3. ReadIsCurrent(r) => ReadIsCurrent(r)'
      BY <2>1, <3>1 DEF ReadIsCurrent, readVars, ScoresNow
    <3> QED BY <2>1, <3>1, <3>2, <3>3 DEF PagesInv, ReadsOneMoment, readVars
  <2> QED BY <2>2, <2>3 DEF PagesInv
<1>2. CASE GradingStep /\ Observe
  <2>1. CASE TablesMove /\ UNCHANGED readVars
    <3>1. ComponentTypes'
      BY <1>0, <2>1, ComponentTypesStep
    <3>2. ReaderTypes'
      BY <2>1 DEF PagesInv, ReaderTypes, readVars
    <3>3. HistoryTypes'
      BY <1>0, <1>2, <3>1, <3>2, HistoryTypesStep
    <3>4. \A r \in Readers : ReadsOneMoment(r)'
      BY <1>0, <1>2, <2>1, <3>2, TablesMoveStep
    <3> QED BY <3>1, <3>2, <3>3, <3>4 DEF PagesInv
  <2>2. ASSUME TablesStand, NEW r \in Readers, ReaderMoves(r) PROVE PagesInv'
    <3>1. ComponentTypes'
      BY <1>0, <2>2, ComponentTypesStep DEF TablesMove
    <3>2. ReaderTypes'
      BY <1>0, <2>2, ReaderTypesStep
    <3>3. HistoryTypes'
      BY <1>0, <1>2, <3>1, <3>2, HistoryTypesStep
    <3>4. ReadsOneMoment(r)'
      BY <1>0, <1>2, <2>2, <3>2, ReaderStep
    <3>5. \A i \in Readers \ {r} : ReadsOneMoment(i)'
      BY <1>2, <2>2, OnlyOneMoves, ReaderWaits
    <3> QED BY <3>1, <3>2, <3>3, <3>4, <3>5 DEF PagesInv
  <2> QED BY <1>0, <1>2, <2>1, <2>2, StepIs
<1> QED BY <1>1, <1>2 DEF GradingNext

LEMMA GradingInductive == GradingSpec => [](SheetInv /\ PagesInv)
<1>1. GradingInit => SheetInv /\ PagesInv
  BY SheetInitially, PagesInitially
<1>2. SheetInv /\ PagesInv /\ [GradingNext]_gradingVars => (SheetInv /\ PagesInv)'
  BY SheetStep, PagesStep
<1> QED BY <1>1, <1>2, PTL DEF GradingSpec

\* What a page or a report says of a pupil was true of the tables at one moment since it
\* was asked for, unless they changed twice meanwhile, whatever the number of components,
\* their weights and marks (MyGrades, buildReportResolutions, computeFinal).
THEOREM ReportAlwaysOfOneMoment == GradingSpec => []ReportIsOfOneMoment
<1>1. PagesInv => ReportIsOfOneMoment
  BY DEF PagesInv, ReadsOneMoment, Upcoming, ReportIsOfOneMoment
<1> QED BY <1>1, GradingInductive, PTL

\* A final score is a mean of marks, between 0 and 100, and nothing is divided by 0, for
\* any number of components and any weights, whatever changes between the two reads
\* (computeFinal).
THEOREM MeanAlwaysInRange == GradingSpec => []MeanInRange
<1>1. PagesInv => MeanInRange
  BY DEF PagesInv, ReaderTypes, InRange, MeanInRange
<1> QED BY <1>1, GradingInductive, PTL

\* The tables, the requests and the readers keep their types, and a final score is of
\* natural numbers (computeFinal).
THEOREM GradingTypeCorrect == GradingSpec => []GradingTypeOK
<1>1. GradingInit => puts \in 0..MaxPuts
  BY GradingAssumption DEF GradingInit
<1>2. puts \in 0..MaxPuts /\ [GradingNext]_gradingVars => (puts \in 0..MaxPuts)'
  <2> SUFFICES ASSUME puts \in 0..MaxPuts, [GradingNext]_gradingVars PROVE puts' \in 0..MaxPuts
    OBVIOUS
  <2>1. CASE puts' = puts
    BY <2>1
  <2>2. ASSUME NEW t, NEW stage, NEW k, NEW rows, NEW y, Put(t, stage, k, rows, y) PROVE puts' \in 0..MaxPuts
    BY <2>2, GradingAssumption DEF Put
  <2>3. ASSUME NEW t \in Teachers, NEW f, NEW k, PutManualScores(t, f) \/ PutGrades(t, k, f) \/ PutTPMappings(t, f)
        PROVE  puts' \in 0..MaxPuts
    BY <2>2, <2>3 DEF PutManualScores, PutGrades, PutTPMappings
  <2>4. ASSUME NEW t \in Teachers, NEW shown \in BOOLEAN, PutPublication(t, shown) PROVE puts' \in 0..MaxPuts
    BY <2>2, <2>4 DEF PutPublication
  <2>5. ASSUME NEW t \in Teachers, NEW row \in rest[t],
               DeleteGrade(t, row) \/ UpsertGrade(t, row) \/ UpsertManualScore(t, row) \/ CreateTPMapping(t, row)
        PROVE  puts' = puts
    BY <2>5 DEF DeleteGrade, UpsertGrade, UpsertManualScore, CreateTPMapping, Written, Ends
  <2>6. ASSUME NEW t \in Teachers, DeleteTPMappings(t) \/ AnswerOrFail(t) \/ SetPublication(t) PROVE puts' = puts
    BY <2>6 DEF DeleteTPMappings, AnswerOrFail, SetPublication, Ends
  <2>7. ASSUME NEW k \in Components, NEW y \in Kinds, NEW w \in Weights,
               CreateComponent(k, y, w) \/ UpdateComponent(k, y, w)
        PROVE  puts' = puts
    BY <2>7 DEF CreateComponent, UpdateComponent, putVars
  <2>8. ASSUME NEW k \in Components, DeleteComponent(k) PROVE puts' = puts
    BY <2>8 DEF DeleteComponent, putVars
  <2>9. ASSUME NEW r \in Readers, ReaderMoves(r) PROVE puts' = puts
    BY <2>9 DEF ReaderMoves, MyGrades, Report, Ask, ListPublishedSubjects, ListComponentsRaw, ListGradesForComponents,
                ListManualScores, ReaderLeaves, Reads, putVars
  <2>10. ASSUME (\E y \in SchoolYears : ActivateYear(y)) \/ (\E p \in Pupils : Transfer(p)) PROVE puts' = puts
    BY <2>10 DEF ActivateYear, Transfer, putVars
  <2>11. CASE UNCHANGED gradingVars
    BY <2>1, <2>11 DEF gradingVars, putVars
  <2> QED BY <2>1, <2>3, <2>4, <2>5, <2>6, <2>7, <2>8, <2>9, <2>10, <2>11 DEF GradingNext, GradingStep, ReaderMoves
<1>3. SheetInv /\ PagesInv /\ puts \in 0..MaxPuts => GradingTypeOK
  BY DEF SheetInv, SheetTypes, PagesInv, ComponentTypes, ReaderTypes, HistoryTypes, GradingTypeOK
<1> QED BY <1>1, <1>2, <1>3, GradingInductive, PTL DEF GradingSpec
=============================================================================
