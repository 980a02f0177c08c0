----------------------------- MODULE FiniteSums -----------------------------
(***************************************************************************)
(* Induction over the naturals and over the subsets of a finite set, with  *)
(* the induction hypothesis given as a set of instances, and the laws of   *)
(* SumFunctionOnSet, the sum of a function over a finite set: it does not  *)
(* depend on the order in which the recursion takes the elements out.      *)
(* And counting: what is of the same size, and the triangles of a relation.*)
(***************************************************************************)
EXTENDS Integers, Functions, FiniteSetTheorems, WellFoundedInduction, TLAPS

-----------------------------------------------------------------------------
(* Induction *)

\* A set of naturals that holds 0 and the successor of each of its members
\* holds every natural.
LEMMA NatSetInduction ==
    ASSUME NEW P, 0 \in P, \A n \in Nat : n \in P => n + 1 \in P
    PROVE  Nat \subseteq P
<1> SUFFICES ASSUME Nat \ P # {} PROVE FALSE
  OBVIOUS
<1>0. \E m \in Nat \ P : \A k \in Nat \ P : ~(k < m)
  <2> DEFINE T == Nat \ P
             R == OpToRel(<, Nat)
  <2>1. IsWellFoundedOn(R, Nat)
    BY NatLessThanWellFounded
  <2>2. T \subseteq Nat /\ T # {}
    OBVIOUS
  <2> HIDE DEF R, T
  <2>3. PICK m \in T : \A k \in T : ~(<<k, m>> \in R)
    BY <2>1, <2>2, WFMin
  <2>4. \A k, n \in Nat : k < n => <<k, n>> \in R
    BY DEF R, OpToRel
  <2> QED
    BY <2>2, <2>3, <2>4 DEF T
<1>1. PICK m \in Nat : m \notin P /\ \A k \in Nat \ P : ~(k < m)
  BY <1>0
<1>2. \A k \in Nat \ P : ~(k < m)
  BY <1>1
<1>3. m # 0 /\ m - 1 \in Nat
  BY <1>1
<1>4. m - 1 \in P
  BY <1>1, <1>2, <1>3
<1>5. (m - 1) + 1 \in P
  BY <1>3, <1>4
<1> QED
  BY <1>1, <1>3, <1>5

\* A set that holds each subset of S all of whose proper subsets it holds,
\* holds every subset of the finite set S.
LEMMA SubsetInduction ==
    ASSUME NEW S, IsFiniteSet(S), NEW P,
           \A T \in SUBSET S : (\A U \in SUBSET T : U # T => U \in P) => T \in P
    PROVE  SUBSET S \subseteq P
<1> SUFFICES ASSUME (SUBSET S) \ P # {} PROVE FALSE
  OBVIOUS
<1>1. IsWellFoundedOn(StrictSubsetOrdering(S), SUBSET S)
  <2>1. FiniteSubsetsOf(S) = SUBSET S
    BY FS_FiniteSubsetsOfFinite
  <2>2. IsWellFoundedOn(StrictSubsetOrdering(S), FiniteSubsetsOf(S))
    BY FS_StrictSubsetOrderingWellFounded
  <2> QED
    BY <2>1, <2>2
<1>2. PICK T \in (SUBSET S) \ P :
         \A U \in (SUBSET S) \ P : <<U, T>> \notin StrictSubsetOrdering(S)
  <2> DEFINE X == (SUBSET S) \ P
             R == StrictSubsetOrdering(S)
  <2>1. X \subseteq SUBSET S /\ X # {}
    OBVIOUS
  <2> HIDE DEF X, R
  <2>2. \E T \in X : \A U \in X : ~(<<U, T>> \in R)
    <3>1. IsWellFoundedOn(R, SUBSET S)
      BY <1>1 DEF R
    <3> QED
      BY <2>1, <3>1, WFMin
  <2> QED
    BY <2>2 DEF X, R
<1>3. \A U \in SUBSET T : U # T => U \in P
  BY <1>2 DEF StrictSubsetOrdering
<1> QED
  BY <1>2, <1>3

-----------------------------------------------------------------------------
(* Recursion over the naturals up to n: x at 0, and at k what G[k] makes   *)
(* of the value before. D[k] is where the k-th value is.                   *)

\* What holds of the empty set, and of a set with one more element, holds of
\* a finite set.
LEMMA SetGrows ==
    ASSUME NEW S, IsFiniteSet(S), NEW P, {} \in P,
           \A T \in SUBSET S : \A x \in S \ T : T \in P => T \cup {x} \in P
    PROVE  S \in P
<1>1. ASSUME NEW T \in SUBSET S, \A U \in SUBSET T : U # T => U \in P
      PROVE  T \in P
  <2>1. CASE T # {}
    <3>1. PICK x \in T : TRUE
      BY <2>1
    <3>2. PICK U : U = T \ {x}
      OBVIOUS
    <3>3. U \in P /\ U \in SUBSET S /\ x \in S \ U /\ T = U \cup {x}
      BY <1>1, <3>2
    <3> QED
      BY <3>3
  <2> QED
    BY <2>1
<1> QED
  BY <1>1, SubsetInduction

\* A property of 0 that each number up to n inherits from the one before.
LEMMA UpTo ==
    ASSUME NEW n \in Nat, NEW P, 0 \in P, \A k \in 1 .. n : k - 1 \in P => k \in P
    PROVE  \A k \in 0 .. n : k \in P
<1> DEFINE Q == {k \in Nat : k <= n => k \in P}
<1>1. 0 \in Q
  OBVIOUS
<1>2. ASSUME NEW k \in Nat, k \in Q PROVE k + 1 \in Q
  <2>1. SUFFICES ASSUME k + 1 <= n PROVE k + 1 \in P
    OBVIOUS
  <2>2. k + 1 \in 1 .. n /\ (k + 1) - 1 = k /\ k \in P
    BY <1>2, <2>1
  <2> QED
    BY <2>2
<1> HIDE DEF Q
<1>3. Nat \subseteq Q
  BY <1>1, <1>2, NatSetInduction
<1> QED
  BY <1>3 DEF Q

Follows(F, n, x, G) == F = [k \in 0 .. n |-> IF k = 0 THEN x ELSE G[k][F[k - 1]]]

\* The recursion has a solution.
LEMMA Recursion ==
    ASSUME NEW n \in Nat, NEW D, NEW x \in D[0], NEW G,
           \A k \in 1 .. n : \A y \in D[k - 1] : G[k][y] \in D[k]
    PROVE  \E F : Follows(F, n, x, G) /\ \A k \in 0 .. n : F[k] \in D[k]
<1> DEFINE P == {m \in Nat : \E F : Follows(F, m, x, G) /\ \A k \in 0 .. m : F[k] \in D[k]}
<1>1. 0 \in P
  <2>1. PICK F : F = [k \in 0 .. 0 |-> x]
    OBVIOUS
  <2>2. Follows(F, 0, x, G) /\ \A k \in 0 .. 0 : F[k] \in D[k]
    BY <2>1 DEF Follows
  <2> QED
    BY <2>2
<1>2. ASSUME NEW m \in 1 .. n, m - 1 \in P PROVE m \in P
  <2>0. m \in Nat /\ m - 1 \in Nat /\ m # 0 /\ ~(m <= m - 1) /\ m - 1 \in 0 .. m /\ m \in 0 .. m
    OBVIOUS
  <2>1. PICK F : Follows(F, m - 1, x, G) /\ \A k \in 0 .. m - 1 : F[k] \in D[k]
    BY <1>2
  <2>2. PICK y : y = G[m][F[m - 1]]
    OBVIOUS
  <2>3. y \in D[m]
    BY <2>0, <2>1, <2>2
  <2>4. PICK H : H = [k \in 0 .. m |-> IF k <= m - 1 THEN F[k] ELSE y]
    OBVIOUS
  <2>5. /\ DOMAIN H = 0 .. m /\ H[m] = y
        /\ \A k \in 0 .. m - 1 : k \in 0 .. m /\ H[k] = F[k]
        /\ H = [k \in 0 .. m |-> H[k]]
    <3>1. \A k \in 0 .. m - 1 : k \in 0 .. m /\ k <= m - 1
      OBVIOUS
    <3> QED
      BY <2>0, <2>4, <3>1
  <2>6. \A k \in 0 .. m - 1 : F[k] = IF k = 0 THEN x ELSE G[k][F[k - 1]]
    BY <2>1 DEF Follows
  <2>7. ASSUME NEW k \in 0 .. m PROVE H[k] = IF k = 0 THEN x ELSE G[k][H[k - 1]]
    <3>1. CASE k = m
      BY <2>0, <2>2, <2>5, <3>1
    <3>2. CASE k # m
      <4>1. k \in 0 .. m - 1 /\ (k # 0 => k - 1 \in 0 .. m - 1)
        BY <3>2
      <4> QED
        BY <2>5, <2>6, <4>1
    <3> QED
      BY <3>1, <3>2
  <2>8. Follows(H, m, x, G)
    BY <2>5, <2>7 DEF Follows
  <2>9. \A k \in 0 .. m : k = m \/ k \in 0 .. m - 1
    OBVIOUS
  <2>10. \A k \in 0 .. m : H[k] \in D[k]
    BY <2>1, <2>3, <2>5, <2>9
  <2> QED
    BY <2>0, <2>8, <2>10
<1> HIDE DEF P
<1>3. n \in P
  BY <1>1, <1>2, UpTo
<1> QED
  BY <1>3 DEF P

-----------------------------------------------------------------------------
(* A chain of sets *)

\* Sets that do not shrink, within a set of at most n elements, cannot all be
\* different.
LEMMA ChainStops ==
    ASSUME NEW S, IsFiniteSet(S), NEW n \in Nat, Cardinality(S) <= n, NEW W,
           W[0] # {}, \A k \in 0 .. n : W[k] \subseteq S,
           \A k \in 1 .. n : W[k - 1] \subseteq W[k]
    PROVE  \E k \in 1 .. n : W[k] = W[k - 1]
<1> SUFFICES ASSUME \A k \in 1 .. n : W[k] # W[k - 1] PROVE FALSE
  OBVIOUS
<1>1. \A k \in 0 .. n : IsFiniteSet(W[k]) /\ Cardinality(W[k]) \in Nat
  BY FS_Subset, FS_CardinalityType
<1> DEFINE P == {k \in 0 .. n : Cardinality(W[k]) > k}
<1>2. 0 \in P
  <2>1. Cardinality(W[0]) # 0
    BY <1>1, FS_EmptySet
  <2> QED
    BY <1>1, <2>1
<1>3. ASSUME NEW k \in 1 .. n, k - 1 \in P PROVE k \in P
  <2>1. PICK i : i = k - 1
    OBVIOUS
  <2>2. i \in 0 .. n /\ k \in 0 .. n /\ k = i + 1
    BY <2>1
  <2>3. W[i] \subseteq W[k] /\ W[i] # W[k]
    BY <2>1
  <2>4. Cardinality(W[i]) <= Cardinality(W[k]) /\ Cardinality(W[i]) # Cardinality(W[k])
    BY <1>1, <2>2, <2>3, FS_Subset
  <2>5. Cardinality(W[i]) > i
    BY <1>3, <2>1
  <2>6. Cardinality(W[i]) \in Nat /\ Cardinality(W[k]) \in Nat
    BY <1>1, <2>2
  <2> QED
    BY <2>2, <2>4, <2>5, <2>6
<1> HIDE DEF P
<1>4. n \in P
  BY <1>2, <1>3, UpTo
<1>5. Cardinality(W[n]) > n /\ Cardinality(W[n]) <= Cardinality(S)
  BY <1>4, FS_Subset DEF P
<1> QED
  BY <1>1, <1>5, FS_CardinalityType

-----------------------------------------------------------------------------
(* The table of the sums of f over the subsets of S *)

Chosen(s) == CHOOSE x \in s : TRUE

\* The recursion of SumFunctionOnSet, on the sets in D.
Recurses(F, f, D) ==
    F = [s \in D |-> IF s = {} THEN 0 ELSE f[Chosen(s)] + F[s \ {Chosen(s)}]]

\* The recursion has a solution on all subsets of a finite set: it is built
\* up from the sets of at most n elements.
LEMMA TableExists ==
    ASSUME NEW S, IsFiniteSet(S), NEW f, \A x \in S : f[x] \in Int
    PROVE  \E F \in [SUBSET S -> Int] : Recurses(F, f, SUBSET S)
<1> DEFINE Small(n) == {s \in SUBSET S : Cardinality(s) <= n}
           P == {n \in Nat : \E F \in [Small(n) -> Int] : Recurses(F, f, Small(n))}
<1>0. \A s \in SUBSET S : IsFiniteSet(s) /\ Cardinality(s) \in Nat
  BY FS_Subset, FS_CardinalityType
<1>a. \A s \in SUBSET S : s # {} =>
         /\ Chosen(s) \in s
         /\ s \ {Chosen(s)} \in SUBSET S
         /\ Cardinality(s \ {Chosen(s)}) = Cardinality(s) - 1
         /\ f[Chosen(s)] \in Int
  <2> SUFFICES ASSUME NEW s \in SUBSET S, s # {}
               PROVE  /\ Chosen(s) \in s
                      /\ s \ {Chosen(s)} \in SUBSET S
                      /\ Cardinality(s \ {Chosen(s)}) = Cardinality(s) - 1
                      /\ f[Chosen(s)] \in Int
    OBVIOUS
  <2>1. Chosen(s) \in s
    BY DEF Chosen
  <2>2. Cardinality(s \ {Chosen(s)}) = Cardinality(s) - 1
    BY <1>0, <2>1, FS_RemoveElement
  <2> QED
    BY <2>1, <2>2
<1>1. 0 \in P
  <2>1. Small(0) = {{}}
    <3>1. \A s \in SUBSET S : Cardinality(s) <= 0 => s = {}
      BY <1>0, FS_EmptySet
    <3>2. Cardinality({}) = 0
      BY FS_EmptySet
    <3> QED
      BY <3>1, <3>2
  <2>2. [s \in {{}} |-> 0] \in [Small(0) -> Int] /\ Recurses([s \in {{}} |-> 0], f, Small(0))
    BY <2>1 DEF Recurses
  <2> QED
    BY <2>2
<1>2. ASSUME NEW n \in Nat, n \in P PROVE n + 1 \in P
  <2>1. PICK F \in [Small(n) -> Int] : Recurses(F, f, Small(n))
    BY <1>2
  <2> DEFINE G == [s \in Small(n + 1) |-> IF s \in Small(n) THEN F[s]
                       ELSE f[Chosen(s)] + F[s \ {Chosen(s)}]]
  <2>2. \A s \in Small(n + 1) : s # {} => s \ {Chosen(s)} \in Small(n)
    BY <1>0, <1>a
  <2>3. {} \in Small(n)
    BY FS_EmptySet
  <2>4. Small(n) \subseteq Small(n + 1)
    BY <1>0
  <2>5. \A s \in Small(n) : F[s] = IF s = {} THEN 0 ELSE f[Chosen(s)] + F[s \ {Chosen(s)}]
    BY <2>1 DEF Recurses
  <2> HIDE DEF Small
  <2>6. G \in [Small(n + 1) -> Int]
    <3> SUFFICES ASSUME NEW s \in Small(n + 1), s \notin Small(n)
                 PROVE  f[Chosen(s)] + F[s \ {Chosen(s)}] \in Int
      BY <2>1
    <3>1. f[Chosen(s)] \in Int /\ s \ {Chosen(s)} \in Small(n)
      BY <1>a, <2>2, <2>3 DEF Small
    <3> QED
      BY <2>1, <3>1
  <2>7. \A s \in Small(n + 1) : G[s] = IF s = {} THEN 0 ELSE f[Chosen(s)] + G[s \ {Chosen(s)}]
    <3> SUFFICES ASSUME NEW s \in Small(n + 1)
                 PROVE  G[s] = IF s = {} THEN 0 ELSE f[Chosen(s)] + G[s \ {Chosen(s)}]
      OBVIOUS
    <3>1. CASE s = {}
      BY <2>3, <2>4, <2>5, <3>1
    <3>2. CASE s # {}
      <4>1. s \ {Chosen(s)} \in Small(n)
        BY <2>2, <3>2
      <4>2. G[s \ {Chosen(s)}] = F[s \ {Chosen(s)}]
        BY <2>4, <4>1
      <4>3. G[s] = f[Chosen(s)] + F[s \ {Chosen(s)}]
        BY <2>5, <3>2
      <4> QED
        BY <3>2, <4>2, <4>3
    <3> QED
      BY <3>1, <3>2
  <2>8. Recurses(G, f, Small(n + 1))
    BY <2>7 DEF Recurses
  <2> HIDE DEF G
  <2>9. \E H \in [Small(n + 1) -> Int] : Recurses(H, f, Small(n + 1))
    BY <2>6, <2>8
  <2> QED
    BY <2>9
<1>3. Cardinality(S) \in P
  <2> HIDE DEF P
  <2>1. Nat \subseteq P
    BY <1>1, <1>2, NatSetInduction
  <2> QED
    BY <1>0, <2>1
<1>4. Small(Cardinality(S)) = SUBSET S
  BY FS_Subset
<1> QED
  BY <1>3, <1>4

\* From each entry of the table any element can be split off.
Splits(F, f, S) == \A s \in SUBSET S : \A x \in s : F[s] = f[x] + F[s \ {x}]

\* Whatever element is taken out of a set first, the sum is the same.
LEMMA AnyOrder ==
    ASSUME NEW S, IsFiniteSet(S), NEW f, \A x \in S : f[x] \in Int,
           NEW F, F \in [SUBSET S -> Int], Recurses(F, f, SUBSET S)
    PROVE  Splits(F, f, S)
<1> DEFINE P == {s \in SUBSET S : \A x \in s : F[s] = f[x] + F[s \ {x}]}
<1>1. ASSUME NEW T \in SUBSET S, \A U \in SUBSET T : U # T => U \in P
      PROVE  T \in P
  <2> SUFFICES ASSUME NEW x \in T PROVE F[T] = f[x] + F[T \ {x}]
    OBVIOUS
  <2> DEFINE c == Chosen(T)
  <2>1. c \in T
    BY DEF Chosen
  <2>2. F[T] = f[c] + F[T \ {c}]
    BY DEF Recurses
  <2> HIDE DEF c
  <2>3. CASE x = c
    BY <2>2, <2>3
  <2>4. CASE x # c
    <3>1. T \ {c} \in P /\ T \ {x} \in P
      BY <1>1, <2>1
    <3>2. F[T \ {c}] = f[x] + F[(T \ {c}) \ {x}]
      BY <2>4, <3>1
    <3>3. F[T \ {x}] = f[c] + F[(T \ {x}) \ {c}]
      BY <2>1, <2>4, <3>1
    <3>4. (T \ {x}) \ {c} = (T \ {c}) \ {x} /\ (T \ {c}) \ {x} \in SUBSET S
      OBVIOUS
    <3> DEFINE rest == F[(T \ {c}) \ {x}]
    <3>5. rest \in Int /\ f[x] \in Int /\ f[c] \in Int
      BY <2>1, <3>4
    <3>6. F[T] = f[c] + (f[x] + rest) /\ F[T \ {x}] = f[c] + rest
      BY <2>2, <3>2, <3>3, <3>4
    <3> QED
      BY <3>5, <3>6
  <2> QED
    BY <2>3, <2>4
<1> HIDE DEF P
<1>2. SUBSET S \subseteq P
  BY <1>1, SubsetInduction
<1> QED
  BY <1>2 DEF P, Splits

\* F has the sums of f over the subsets of S, and over S that of the operator.
IsTable(F, f, S) ==
    /\ F \in [SUBSET S -> Int]
    /\ SumFunctionOnSet(f, S) = F[S]
    /\ F[{}] = 0
    /\ Splits(F, f, S)

\* SumFunctionOnSet is the table's value.
LEMMA SumIsTable ==
    ASSUME NEW S, IsFiniteSet(S), NEW f, \A x \in S : f[x] \in Int
    PROVE  \E F : IsTable(F, f, S)
<1>0. PICK F : F = CHOOSE G : Recurses(G, f, SUBSET S)
  OBVIOUS
<1>1. PICK G \in [SUBSET S -> Int] : Recurses(G, f, SUBSET S)
  BY TableExists
<1>2. Recurses(F, f, SUBSET S)
  BY <1>0, <1>1
<1>3. SumFunctionOnSet(f, S) = F[S]
  BY <1>0 DEF SumFunctionOnSet, FoldFunctionOnSet, MapThenFoldSet, Recurses, Chosen
<1>4. F[{}] = 0 /\ DOMAIN F = SUBSET S /\ F = [s \in SUBSET S |-> F[s]]
  BY <1>2 DEF Recurses
<1>5. F \in [SUBSET S -> Int]
  <2> DEFINE P == {s \in SUBSET S : F[s] \in Int}
  <2>1. ASSUME NEW T \in SUBSET S, \A U \in SUBSET T : U # T => U \in P
        PROVE  T \in P
    <3>1. CASE T = {}
      BY <1>4, <3>1
    <3>2. CASE T # {}
      <4>1. Chosen(T) \in T
        BY <3>2 DEF Chosen
      <4>2. F[T] = f[Chosen(T)] + F[T \ {Chosen(T)}]
        BY <1>2, <3>2 DEF Recurses
      <4>3. T \ {Chosen(T)} \in P
        BY <2>1, <4>1
      <4>4. f[Chosen(T)] \in Int /\ F[T \ {Chosen(T)}] \in Int
        BY <4>1, <4>3
      <4> QED
        BY <4>2, <4>4
    <3> QED
      BY <3>1, <3>2
  <2> HIDE DEF P
  <2>2. SUBSET S \subseteq P
    BY <2>1, SubsetInduction
  <2> QED
    BY <1>4, <2>2 DEF P
<1>6. Splits(F, f, S)
  BY <1>2, <1>5, AnyOrder
<1>7. IsTable(F, f, S)
  BY <1>3, <1>4, <1>5, <1>6 DEF IsTable
<1> QED
  BY <1>7

-----------------------------------------------------------------------------
(* The laws of sums *)

\* The sum over no elements.
LEMMA SumEmpty ==
    ASSUME NEW f
    PROVE  SumFunctionOnSet(f, {}) = 0
<1>1. IsFiniteSet({})
  BY FS_EmptySet
<1>2. PICK F : IsTable(F, f, {})
  BY <1>1, SumIsTable
<1> QED
  BY <1>2 DEF IsTable, Splits

\* Two functions with the same values have the same sum.
LEMMA SumSame ==
    ASSUME NEW S, IsFiniteSet(S), NEW f, NEW g,
           \A x \in S : f[x] \in Int /\ g[x] = f[x]
    PROVE  SumFunctionOnSet(g, S) = SumFunctionOnSet(f, S)
<1>1. PICK F : IsTable(F, f, S)
  BY SumIsTable
<1>2. PICK G : IsTable(G, g, S)
  BY SumIsTable
<1> DEFINE P == {s \in SUBSET S : F[s] = G[s]}
<1>3. ASSUME NEW T \in SUBSET S, \A U \in SUBSET T : U # T => U \in P
      PROVE  T \in P
  <2>1. CASE T = {}
    BY <1>1, <1>2, <2>1 DEF IsTable, Splits
  <2>2. CASE T # {}
    <3>1. PICK x \in T : TRUE
      BY <2>2
    <3>2. T \ {x} \in P
      BY <1>3, <3>1
    <3>3. F[T] = f[x] + F[T \ {x}] /\ G[T] = g[x] + G[T \ {x}] /\ g[x] = f[x]
      BY <1>1, <1>2 DEF IsTable, Splits
    <3> QED
      BY <3>2, <3>3
  <2> QED
    BY <2>1, <2>2
<1> HIDE DEF P
<1>4. SUBSET S \subseteq P
  BY <1>3, SubsetInduction
<1> QED
  BY <1>1, <1>2, <1>4 DEF P, IsTable, Splits

\* A sum of integers is an integer, and an element can be split off.
LEMMA SumSplit ==
    ASSUME NEW S, IsFiniteSet(S), NEW f, \A y \in S : f[y] \in Int
    PROVE  /\ SumFunctionOnSet(f, S) \in Int
           /\ \A x \in S : SumFunctionOnSet(f, S) = f[x] + SumFunctionOnSet(f, S \ {x})
<1>1. PICK F : IsTable(F, f, S)
  BY SumIsTable
<1>2. SumFunctionOnSet(f, S) \in Int
  BY <1>1 DEF IsTable, Splits
<1>3. ASSUME NEW x \in S
      PROVE  SumFunctionOnSet(f, S) = f[x] + SumFunctionOnSet(f, S \ {x})
  <2> DEFINE R == S \ {x}
  <2>0. \A y \in R : f[y] \in Int
    OBVIOUS
  <2>1. IsFiniteSet(R)
    BY FS_RemoveElement
  <2>2. PICK G : IsTable(G, f, R)
    BY <2>0, <2>1, SumIsTable
  <2> DEFINE P == {s \in SUBSET R : F[s] = G[s]}
  <2>3. ASSUME NEW T \in SUBSET R, \A U \in SUBSET T : U # T => U \in P
        PROVE  T \in P
    <3>1. CASE T = {}
      BY <1>1, <2>2, <3>1 DEF IsTable, Splits
    <3>2. CASE T # {}
      <4>1. PICK y \in T : TRUE
        BY <3>2
      <4>2. T \ {y} \in P
        BY <2>3, <4>1
      <4>3. F[T] = f[y] + F[T \ {y}] /\ G[T] = f[y] + G[T \ {y}]
        BY <1>1, <2>2 DEF IsTable, Splits
      <4> QED
        BY <4>2, <4>3
    <3> QED
      BY <3>1, <3>2
  <2>4. SUBSET R \subseteq P
    <3> HIDE DEF P, R
    <3> QED
      BY <2>1, <2>3, SubsetInduction
  <2>5. F[R] = G[R]
    BY <2>4
  <2> QED
    BY <1>1, <2>2, <2>5 DEF IsTable, Splits
<1> QED
  BY <1>2, <1>3

\* A sum of naturals is a natural, and no element exceeds it.
LEMMA SumNat ==
    ASSUME NEW S, IsFiniteSet(S), NEW f, \A x \in S : f[x] \in Nat
    PROVE  /\ SumFunctionOnSet(f, S) \in Nat
           /\ \A x \in S : f[x] <= SumFunctionOnSet(f, S)
<1>0. \A T \in SUBSET S : IsFiniteSet(T)
  BY FS_Subset
<1> DEFINE P == {s \in SUBSET S : SumFunctionOnSet(f, s) \in Nat}
<1>1. ASSUME NEW T \in SUBSET S, \A U \in SUBSET T : U # T => U \in P
      PROVE  T \in P
  <2>1. CASE T = {}
    BY <2>1, SumEmpty
  <2>2. CASE T # {}
    <3>1. PICK x \in T : TRUE
      BY <2>2
    <3>2. T \ {x} \in P
      BY <1>1, <3>1
    <3>3. SumFunctionOnSet(f, T) = f[x] + SumFunctionOnSet(f, T \ {x})
      <4>1. \A y \in T : f[y] \in Int
        OBVIOUS
      <4> QED
        BY <1>0, <4>1, SumSplit
    <3> QED
      BY <3>2, <3>3
  <2> QED
    BY <2>1, <2>2
<1> HIDE DEF P
<1>2. SUBSET S \subseteq P
  BY <1>1, SubsetInduction
<1>3. SumFunctionOnSet(f, S) \in Nat
  BY <1>2 DEF P
<1>4. ASSUME NEW x \in S PROVE f[x] <= SumFunctionOnSet(f, S)
  <2>1. SumFunctionOnSet(f, S \ {x}) \in Nat
    BY <1>2 DEF P
  <2>2. SumFunctionOnSet(f, S) = f[x] + SumFunctionOnSet(f, S \ {x})
    <3>1. \A y \in S : f[y] \in Int
      OBVIOUS
    <3> QED
      BY <3>1, SumSplit
  <2> QED
    BY <1>3, <2>1, <2>2
<1> QED
  BY <1>3, <1>4

\* Changing the value at one element changes the sum by as much.
LEMMA SumChange ==
    ASSUME NEW S, IsFiniteSet(S), NEW f, NEW g, NEW x \in S,
           \A y \in S : f[y] \in Int /\ g[y] \in Int,
           \A y \in S \ {x} : g[y] = f[y]
    PROVE  SumFunctionOnSet(g, S) = SumFunctionOnSet(f, S) - f[x] + g[x]
<1>1. IsFiniteSet(S \ {x})
  BY FS_RemoveElement
<1>2. SumFunctionOnSet(g, S \ {x}) = SumFunctionOnSet(f, S \ {x})
  BY <1>1, SumSame
<1>3. /\ SumFunctionOnSet(f, S) = f[x] + SumFunctionOnSet(f, S \ {x})
      /\ SumFunctionOnSet(g, S) = g[x] + SumFunctionOnSet(g, S \ {x})
  BY SumSplit
<1>4. SumFunctionOnSet(f, S \ {x}) \in Int
  BY <1>1, SumSplit
<1> QED
  BY <1>2, <1>3, <1>4

\* A sum of zeros is zero.
LEMMA SumZero ==
    ASSUME NEW S, IsFiniteSet(S), NEW f, \A x \in S : f[x] = 0
    PROVE  SumFunctionOnSet(f, S) = 0
<1>0. \A T \in SUBSET S : IsFiniteSet(T)
  BY FS_Subset
<1> DEFINE P == {s \in SUBSET S : SumFunctionOnSet(f, s) = 0}
<1>1. ASSUME NEW T \in SUBSET S, \A U \in SUBSET T : U # T => U \in P
      PROVE  T \in P
  <2>1. CASE T = {}
    BY <2>1, SumEmpty
  <2>2. CASE T # {}
    <3>1. PICK x \in T : TRUE
      BY <2>2
    <3>2. T \ {x} \in P
      BY <1>1, <3>1
    <3>3. SumFunctionOnSet(f, T) = f[x] + SumFunctionOnSet(f, T \ {x})
      <4>1. \A y \in T : f[y] \in Int
        OBVIOUS
      <4> QED
        BY <1>0, <4>1, SumSplit
    <3> QED
      BY <3>2, <3>3
  <2> QED
    BY <2>1, <2>2
<1> HIDE DEF P
<1>2. SUBSET S \subseteq P
  BY <1>1, SubsetInduction
<1> QED
  BY <1>2 DEF P

\* One more element adds its value.
LEMMA SumAdd ==
    ASSUME NEW S, IsFiniteSet(S), NEW f, NEW x, x \notin S,
           f[x] \in Int, \A y \in S : f[y] \in Int
    PROVE  SumFunctionOnSet(f, S \cup {x}) = SumFunctionOnSet(f, S) + f[x]
<1>1. PICK T : T = S \cup {x}
  OBVIOUS
<1>2. IsFiniteSet(T) /\ x \in T /\ T \ {x} = S /\ \A y \in T : f[y] \in Int
  BY <1>1, FS_AddElement
<1>3. SumFunctionOnSet(f, T) = f[x] + SumFunctionOnSet(f, T \ {x})
  BY <1>2, SumSplit
<1>4. SumFunctionOnSet(f, S) \in Int
  BY SumSplit
<1>5. SumFunctionOnSet(f, T) = f[x] + SumFunctionOnSet(f, S)
  BY <1>2, <1>3
<1>6. SumFunctionOnSet(f, T) = SumFunctionOnSet(f, S) + f[x]
  BY <1>4, <1>5
<1> QED
  BY <1>1, <1>6

\* So it does to the sum over any subset.
LEMMA SumAdds ==
    ASSUME NEW S, IsFiniteSet(S), NEW f, \A y \in S : f[y] \in Int
    PROVE  \A T \in SUBSET S : \A x \in S \ T :
             SumFunctionOnSet(f, T \cup {x}) = SumFunctionOnSet(f, T) + f[x]
<1>1. ASSUME NEW T \in SUBSET S, NEW x \in S \ T
      PROVE  SumFunctionOnSet(f, T \cup {x}) = SumFunctionOnSet(f, T) + f[x]
  <2>1. IsFiniteSet(T) /\ x \notin T /\ f[x] \in Int /\ \A y \in T : f[y] \in Int
    BY FS_Subset
  <2> QED
    BY <2>1, SumAdd
<1> QED
  BY <1>1

\* The sum of pointwise sums.
LEMMA SumPlus ==
    ASSUME NEW S, IsFiniteSet(S), NEW f, NEW g, NEW h,
           \A x \in S : f[x] \in Int /\ g[x] \in Int /\ h[x] = f[x] + g[x]
    PROVE  SumFunctionOnSet(h, S) = SumFunctionOnSet(f, S) + SumFunctionOnSet(g, S)
<1>0. /\ \A T \in SUBSET S : \A x \in S \ T : SumFunctionOnSet(f, T \cup {x}) = SumFunctionOnSet(f, T) + f[x]
      /\ \A T \in SUBSET S : \A x \in S \ T : SumFunctionOnSet(g, T \cup {x}) = SumFunctionOnSet(g, T) + g[x]
      /\ \A T \in SUBSET S : \A x \in S \ T : SumFunctionOnSet(h, T \cup {x}) = SumFunctionOnSet(h, T) + h[x]
  <2>1. (\A y \in S : f[y] \in Int) /\ (\A y \in S : g[y] \in Int) /\ \A y \in S : h[y] \in Int
    OBVIOUS
  <2>2. \A T \in SUBSET S : \A x \in S \ T : SumFunctionOnSet(f, T \cup {x}) = SumFunctionOnSet(f, T) + f[x]
    BY ONLY IsFiniteSet(S), <2>1, SumAdds
  <2>3. \A T \in SUBSET S : \A x \in S \ T : SumFunctionOnSet(g, T \cup {x}) = SumFunctionOnSet(g, T) + g[x]
    BY ONLY IsFiniteSet(S), <2>1, SumAdds
  <2>4. \A T \in SUBSET S : \A x \in S \ T : SumFunctionOnSet(h, T \cup {x}) = SumFunctionOnSet(h, T) + h[x]
    BY ONLY IsFiniteSet(S), <2>1, SumAdds
  <2> QED
    BY <2>2, <2>3, <2>4
<1> DEFINE P == {T \in SUBSET S : SumFunctionOnSet(h, T) = SumFunctionOnSet(f, T) + SumFunctionOnSet(g, T)}
<1>1. {} \in P
  BY SumEmpty
<1>2. ASSUME NEW T \in SUBSET S, NEW x \in S \ T, T \in P
      PROVE  T \cup {x} \in P
  <2>1. IsFiniteSet(T)
    BY FS_Subset
  <2>2. \A y \in T : f[y] \in Int /\ g[y] \in Int /\ h[y] \in Int
    OBVIOUS
  <2>3. /\ SumFunctionOnSet(f, T \cup {x}) = SumFunctionOnSet(f, T) + f[x]
        /\ SumFunctionOnSet(g, T \cup {x}) = SumFunctionOnSet(g, T) + g[x]
        /\ SumFunctionOnSet(h, T \cup {x}) = SumFunctionOnSet(h, T) + h[x]
    BY <1>0
  <2>4. SumFunctionOnSet(f, T) \in Int /\ SumFunctionOnSet(g, T) \in Int
    BY <2>1, <2>2, SumSplit
  <2>5. h[x] = f[x] + g[x] /\ f[x] \in Int /\ g[x] \in Int
    OBVIOUS
  <2> QED
    BY <1>2, <2>3, <2>4, <2>5
<1> HIDE DEF P
<1>3. S \in P
  BY <1>1, <1>2, SetGrows
<1> QED
  BY <1>3 DEF P

\* A sum of larger values is larger.
LEMMA SumGrows ==
    ASSUME NEW S, IsFiniteSet(S), NEW f, NEW g,
           \A x \in S : f[x] \in Int /\ g[x] \in Int /\ f[x] <= g[x]
    PROVE  SumFunctionOnSet(f, S) <= SumFunctionOnSet(g, S)
<1> DEFINE P == {T \in SUBSET S : SumFunctionOnSet(f, T) <= SumFunctionOnSet(g, T)}
<1>1. {} \in P
  BY SumEmpty
<1>2. ASSUME NEW T \in SUBSET S, NEW x \in S \ T, T \in P
      PROVE  T \cup {x} \in P
  <2>1. IsFiniteSet(T)
    BY FS_Subset
  <2>2. \A y \in T : f[y] \in Int /\ g[y] \in Int
    OBVIOUS
  <2>3. /\ SumFunctionOnSet(f, T \cup {x}) = SumFunctionOnSet(f, T) + f[x]
        /\ SumFunctionOnSet(g, T \cup {x}) = SumFunctionOnSet(g, T) + g[x]
    BY <2>1, <2>2, SumAdd
  <2>4. SumFunctionOnSet(f, T) \in Int /\ SumFunctionOnSet(g, T) \in Int
    BY <2>1, <2>2, SumSplit
  <2> QED
    BY <1>2, <2>3, <2>4
<1> HIDE DEF P
<1>3. S \in P
  BY <1>1, <1>2, SetGrows
<1> QED
  BY <1>3 DEF P

\* Values outside of a subset that are zero add nothing.
LEMMA SumWithin ==
    ASSUME NEW S, IsFiniteSet(S), NEW U \in SUBSET S, NEW f,
           \A x \in S : f[x] \in Int, \A x \in S \ U : f[x] = 0
    PROVE  SumFunctionOnSet(f, S) = SumFunctionOnSet(f, U)
<1> DEFINE P == {T \in SUBSET S : SumFunctionOnSet(f, T) = SumFunctionOnSet(f, T \cap U)}
<1>1. {} \in P
  OBVIOUS
<1>2. ASSUME NEW T \in SUBSET S, NEW x \in S \ T, T \in P
      PROVE  T \cup {x} \in P
  <2>1. PICK V : V = T \cap U
    OBVIOUS
  <2>2. IsFiniteSet(T) /\ IsFiniteSet(V)
    BY <2>1, FS_Subset
  <2>3. f[x] \in Int /\ x \notin T /\ x \notin V /\ (\A y \in T : f[y] \in Int) /\ \A y \in V : f[y] \in Int
    BY <2>1
  <2>4. SumFunctionOnSet(f, T \cup {x}) = SumFunctionOnSet(f, T) + f[x]
    BY <2>2, <2>3, SumAdd
  <2>5. SumFunctionOnSet(f, V \cup {x}) = SumFunctionOnSet(f, V) + f[x]
    BY <2>2, <2>3, SumAdd
  <2>6. SumFunctionOnSet(f, T) = SumFunctionOnSet(f, V) /\ SumFunctionOnSet(f, V) \in Int
    BY <1>2, <2>1, <2>2, <2>3, SumSplit
  <2>7. CASE x \in U
    <3>1. (T \cup {x}) \cap U = V \cup {x}
      BY <2>1, <2>7
    <3> QED
      BY <2>4, <2>5, <2>6, <3>1
  <2>8. CASE x \notin U
    <3>1. (T \cup {x}) \cap U = V /\ f[x] = 0
      BY <2>1, <2>8
    <3>2. SumFunctionOnSet(f, T \cup {x}) = SumFunctionOnSet(f, V)
      BY <2>4, <2>6, <3>1
    <3> QED
      BY <3>1, <3>2
  <2> QED
    BY <2>7, <2>8
<1> HIDE DEF P
<1>3. S \in P
  BY <1>1, <1>2, SetGrows
<1>4. S \cap U = U
  OBVIOUS
<1> QED
  BY <1>3, <1>4 DEF P

\* A sum of equal values.
LEMMA SumEqual ==
    ASSUME NEW S, IsFiniteSet(S), NEW k \in Int, NEW f, \A x \in S : f[x] = k
    PROVE  SumFunctionOnSet(f, S) = Cardinality(S) * k
<1> DEFINE P == {T \in SUBSET S : SumFunctionOnSet(f, T) = Cardinality(T) * k}
<1>1. {} \in P
  BY SumEmpty, FS_EmptySet
<1>2. ASSUME NEW T \in SUBSET S, NEW x \in S \ T, T \in P
      PROVE  T \cup {x} \in P
  <2>1. IsFiniteSet(T)
    BY FS_Subset
  <2>2. f[x] = k /\ x \notin T /\ \A y \in T : f[y] \in Int
    OBVIOUS
  <2>3. SumFunctionOnSet(f, T \cup {x}) = SumFunctionOnSet(f, T) + k
    <3>1. f[x] \in Int
      BY <2>2
    <3>2. SumFunctionOnSet(f, T \cup {x}) = SumFunctionOnSet(f, T) + f[x]
      BY <2>1, <2>2, <3>1, SumAdd
    <3> QED
      BY <2>2, <3>2
  <2>4. PICK n : n = Cardinality(T)
    OBVIOUS
  <2>5. n \in Nat /\ Cardinality(T \cup {x}) = n + 1
    BY <2>1, <2>2, <2>4, FS_CardinalityType, FS_AddElement
  <2>6. (n + 1) * k = n * k + k
    BY <2>5
  <2> QED
    BY <1>2, <2>3, <2>4, <2>5, <2>6
<1> HIDE DEF P
<1>3. S \in P
  BY <1>1, <1>2, SetGrows
<1> QED
  BY <1>3 DEF P

\* A double sum can be taken in either order.
LEMMA SumExchange ==
    ASSUME NEW S, IsFiniteSet(S), NEW T, IsFiniteSet(T), NEW F,
           \A x \in S : \A y \in T : F[<<x, y>>] \in Int
    PROVE  SumFunctionOnSet([x \in S |-> SumFunctionOnSet([y \in T |-> F[<<x, y>>]], T)], S)
             = SumFunctionOnSet([y \in T |-> SumFunctionOnSet([x \in S |-> F[<<x, y>>]], S)], T)
<1> DEFINE Row(x) == [y \in T |-> F[<<x, y>>]]
           Column(y) == [x \in S |-> F[<<x, y>>]]
           R == [x \in S |-> SumFunctionOnSet(Row(x), T)]
           C(U) == [y \in T |-> SumFunctionOnSet(Column(y), U)]
           P == {U \in SUBSET S : SumFunctionOnSet(R, U) = SumFunctionOnSet(C(U), T)}
<1>0. \A x \in S : R[x] = SumFunctionOnSet(Row(x), T) /\ R[x] \in Int
  <2>1. ASSUME NEW x \in S PROVE SumFunctionOnSet(Row(x), T) \in Int
    <3>1. \A y \in T : Row(x)[y] \in Int
      OBVIOUS
    <3> HIDE DEF Row
    <3> QED
      BY <3>1, SumSplit
  <2> QED
    BY <2>1
<1>1. {} \in P
  <2>1. \A y \in T : C({})[y] = 0
    BY SumEmpty
  <2> HIDE DEF C
  <2>2. SumFunctionOnSet(C({}), T) = 0 /\ SumFunctionOnSet(R, {}) = 0
    BY <2>1, SumZero, SumEmpty
  <2> QED
    BY <2>2
<1>2. ASSUME NEW U \in SUBSET S, NEW x \in S \ U, U \in P
      PROVE  U \cup {x} \in P
  <2>1. IsFiniteSet(U) /\ x \notin U /\ R[x] \in Int /\ \A y \in U : R[y] \in Int
    BY <1>0, FS_Subset
  <2>2. SumFunctionOnSet(R, U \cup {x}) = SumFunctionOnSet(R, U) + R[x]
    <3> HIDE DEF R
    <3> QED
      BY <2>1, SumAdd
  <2>3. ASSUME NEW y \in T
        PROVE  /\ C(U)[y] \in Int /\ Row(x)[y] \in Int
               /\ C(U \cup {x})[y] = C(U)[y] + Row(x)[y]
    <3>1. \A z \in S : Column(y)[z] = F[<<z, y>>] /\ Column(y)[z] \in Int
      OBVIOUS
    <3>2. Row(x)[y] = F[<<x, y>>]
      OBVIOUS
    <3>3. PICK c : c = Column(y)
      OBVIOUS
    <3> HIDE DEF Row, Column
    <3>4. x \notin U /\ c[x] \in Int /\ \A z \in U : c[z] \in Int
      BY <3>1, <3>3
    <3>5. SumFunctionOnSet(c, U) \in Int
      BY <2>1, <3>4, SumSplit
    <3>6. SumFunctionOnSet(c, U \cup {x}) = SumFunctionOnSet(c, U) + c[x]
      BY ONLY <2>1, <3>4, SumAdd
    <3> QED
      BY <3>1, <3>2, <3>3, <3>5, <3>6
  <2>4. SumFunctionOnSet(C(U \cup {x}), T) = SumFunctionOnSet(C(U), T) + SumFunctionOnSet(Row(x), T)
    <3> HIDE DEF C, Row
    <3> QED
      BY <2>3, SumPlus
  <2> HIDE DEF C, Row, R
  <2> QED
    BY <1>0, <1>2, <2>2, <2>4
<1> HIDE DEF P, R, C
<1>3. S \in P
  BY <1>1, <1>2, SetGrows
<1> QED
  BY <1>3 DEF P, R, C

\* A set of numbers has a least one.
LEMMA LeastNumber ==
  ASSUME NEW S \in SUBSET Nat, S # {}
  PROVE  \E d \in S : \A e \in S : d <= e
<1> SUFFICES ASSUME \A d \in S : \E e \in S : ~(d <= e) PROVE FALSE
  OBVIOUS
<1> DEFINE P == {n \in Nat : \A e \in S : n <= e}
<1>1. 0 \in P
  OBVIOUS
<1>2. ASSUME NEW n \in Nat, n \in P PROVE n + 1 \in P
  <2>1. \A e \in S : n <= e
    BY <1>2
  <2>2. n \notin S
    BY <2>1
  <2>3. \A e \in S : n + 1 <= e
    BY <2>1, <2>2
  <2> QED
    BY <2>3
<1> HIDE DEF P
<1>3. Nat \subseteq P
  BY <1>1, <1>2, NatSetInduction
<1>4. PICK e : e \in S
  OBVIOUS
<1>5. e + 1 \in P
  BY <1>3, <1>4
<1> QED
  BY <1>4, <1>5 DEF P

-----------------------------------------------------------------------------
(* Counting: sets of equal size, a set of pairs row by row, and the        *)
(* triangles of a symmetric relation, each of which is found six times.    *)

\* Two sets with maps between them that undo each other are of one size.
LEMMA SameSize ==
  ASSUME NEW S, IsFiniteSet(S), NEW T, NEW f \in [S -> T], NEW g \in [T -> S],
         \A x \in S : g[f[x]] = x, \A y \in T : f[g[y]] = y
  PROVE  IsFiniteSet(T) /\ Cardinality(T) = Cardinality(S)
<1>1. f \in Injection(S, T)
  BY DEF Injection, IsInjective
<1>2. f \in Surjection(S, T)
  BY DEF Surjection
<1>3. ExistsBijection(S, T)
  BY <1>1, <1>2 DEF ExistsBijection, Bijection
<1> QED
  BY <1>3, FS_Bijection

\* Two sets without a common element.
LEMMA SizeOfUnion ==
  ASSUME NEW S, IsFiniteSet(S), NEW T, IsFiniteSet(T), S \cap T = {}
  PROVE  IsFiniteSet(S \cup T) /\ Cardinality(S \cup T) = Cardinality(S) + Cardinality(T)
<1>1. S \cap T = T \cap S
  OBVIOUS
<1>2. Cardinality(S) \in Nat /\ Cardinality(T) \in Nat /\ Cardinality({}) = 0
  BY FS_CardinalityType, FS_EmptySet
<1>3. /\ IsFiniteSet(S \cup T)
      /\ Cardinality(S \cup T) = Cardinality(S) + Cardinality(T) - Cardinality(S \cap T)
  BY FS_Union
<1>4. Cardinality(S \cap T) = 0
  BY <1>2
<1> QED
  BY <1>2, <1>3, <1>4

RowOf(R, p) == {x \in R : x[1] = p}
RowSize(W, R, p) == Cardinality({w \in W : <<p, w>> \in R})

\* A set of pairs has as many as its rows have together.
LEMMA CountInRows ==
  ASSUME NEW P, IsFiniteSet(P), NEW W, IsFiniteSet(W), NEW R \in SUBSET (P \X W), NEW f,
         \A p \in P : f[p] = RowSize(W, R, p)
  PROVE  IsFiniteSet(R) /\ Cardinality(R) = SumFunctionOnSet(f, P)
<1>1. IsFiniteSet(P \X W)
  BY FS_Product
<1>2. IsFiniteSet(R)
  BY <1>1, FS_Subset
<1>3. ASSUME NEW p \in P
      PROVE  f[p] \in Nat /\ IsFiniteSet(RowOf(R, p)) /\ Cardinality(RowOf(R, p)) = f[p]
  <2>1. PICK S : S = {w \in W : <<p, w>> \in R}
    OBVIOUS
  <2>2. IsFiniteSet(S) /\ f[p] = Cardinality(S)
    BY <2>1, FS_Subset DEF RowSize
  <2>3. PICK T : T = RowOf(R, p)
    OBVIOUS
  <2>4. PICK h : h = [w \in S |-> <<p, w>>]
    OBVIOUS
  <2>5. PICK k : k = [x \in T |-> x[2]]
    OBVIOUS
  <2>6. \A x \in T : x = <<p, x[2]>> /\ x[2] \in W /\ x \in R
    BY <2>3 DEF RowOf
  <2>7. \A x \in T : x[2] \in S
    BY <2>1, <2>6
  <2>8. \A w \in S : <<p, w>> \in T
    BY <2>1, <2>3 DEF RowOf
  <2>9. h \in [S -> T] /\ k \in [T -> S]
    BY <2>4, <2>5, <2>7, <2>8
  <2>10. \A w \in S : k[h[w]] = w
    BY <2>4, <2>5, <2>8
  <2>11. \A x \in T : h[k[x]] = x
    BY <2>4, <2>5, <2>6, <2>7
  <2>12. IsFiniteSet(T) /\ Cardinality(T) = Cardinality(S)
    BY <2>2, <2>9, <2>10, <2>11, SameSize
  <2> QED
    BY <2>2, <2>3, <2>12, FS_CardinalityType
<1> DEFINE Rows(T) == {x \in R : x[1] \in T}
           G == {T \in SUBSET P : Cardinality(Rows(T)) = SumFunctionOnSet(f, T)}
<1>4. {} \in G
  <2>1. Rows({}) = {}
    OBVIOUS
  <2> QED
    BY <2>1, FS_EmptySet, SumEmpty
<1>5. ASSUME NEW T \in SUBSET P, NEW x \in P \ T, T \in G
      PROVE  T \cup {x} \in G
  <2>1. PICK A : A = Rows(T)
    OBVIOUS
  <2>2. PICK B : B = RowOf(R, x)
    OBVIOUS
  <2>3. A \cap B = {} /\ A \subseteq R /\ Rows(T \cup {x}) = A \cup B
    BY <2>1, <2>2 DEF RowOf
  <2>4. IsFiniteSet(A) /\ IsFiniteSet(B) /\ Cardinality(B) = f[x]
    BY <1>2, <1>3, <2>2, <2>3, FS_Subset
  <2>5. Cardinality(A \cup B) = Cardinality(A) + f[x]
    BY <2>3, <2>4, SizeOfUnion
  <2>6. SumFunctionOnSet(f, T \cup {x}) = SumFunctionOnSet(f, T) + f[x]
    BY <1>3, SumAdds
  <2>7. Cardinality(Rows(T \cup {x})) = SumFunctionOnSet(f, T \cup {x})
    BY <1>5, <2>1, <2>3, <2>5, <2>6
  <2> QED
    BY <2>7
<1>6. \A T \in SUBSET P : \A x \in P \ T : T \in G => T \cup {x} \in G
  BY <1>5
<1> HIDE DEF G
<1>7. P \in G
  BY <1>4, <1>6, SetGrows
<1>8. Rows(P) = R
  OBVIOUS
<1> QED
  BY <1>2, <1>7, <1>8 DEF G

SymmetricOn(E, V) ==
  /\ E \subseteq V \X V
  /\ \A n \in V : <<n, n>> \notin E
  /\ \A n, m \in V : <<n, m>> \in E => <<m, n>> \in E

Corners(a, b, c) == <<<<a, b>>, c>>

\* The corners in every order, and in falling order only.
Triangles(E, V) == {x \in E \X V : <<x[1][1], x[2]>> \in E /\ <<x[1][2], x[2]>> \in E}
Falling(E, V) == {x \in Triangles(E, V) : x[1][2] < x[1][1] /\ x[2] < x[1][2]}

LEMMA TriangleFacts ==
  ASSUME NEW V, NEW E, SymmetricOn(E, V)
  PROVE  /\ \A x \in Triangles(E, V) : /\ x = Corners(x[1][1], x[1][2], x[2])
                                       /\ x[1][1] \in V /\ x[1][2] \in V /\ x[2] \in V
         /\ \A a, b, c : Corners(a, b, c) \in Triangles(E, V)
                           <=> <<a, b>> \in E /\ <<a, c>> \in E /\ <<b, c>> \in E
         /\ \A a, b, c : Corners(a, b, c) \in Triangles(E, V)
                           => /\ a \in V /\ b \in V /\ c \in V
                              /\ Corners(b, a, c) \in Triangles(E, V)
                              /\ Corners(a, c, b) \in Triangles(E, V)
                              /\ Corners(c, a, b) \in Triangles(E, V)
                              /\ Corners(b, c, a) \in Triangles(E, V)
<1>1. ASSUME NEW x \in Triangles(E, V)
      PROVE  /\ x = Corners(x[1][1], x[1][2], x[2])
             /\ x[1][1] \in V /\ x[1][2] \in V /\ x[2] \in V
  <2>1. x \in E \X V
    BY DEF Triangles
  <2>2. x[1] \in V \X V /\ x[2] \in V
    BY <2>1 DEF SymmetricOn
  <2>3. x = <<x[1], x[2]>>
    BY <2>1
  <2>4. x[1] = <<x[1][1], x[1][2]>> /\ x[1][1] \in V /\ x[1][2] \in V
    BY <2>2
  <2> QED
    BY <2>2, <2>3, <2>4 DEF Corners
<1>2. ASSUME NEW a, NEW b, <<a, b>> \in E
      PROVE  a \in V /\ b \in V /\ <<b, a>> \in E
  <2>1. <<a, b>> \in V \X V
    BY <1>2 DEF SymmetricOn
  <2>2. a \in V /\ b \in V
    BY <2>1
  <2> QED
    BY <1>2, <2>2 DEF SymmetricOn
<1>3. ASSUME NEW a, NEW b, NEW c
      PROVE  Corners(a, b, c) \in Triangles(E, V) <=> <<a, b>> \in E /\ <<a, c>> \in E /\ <<b, c>> \in E
  <2>1. PICK x : x = Corners(a, b, c)
    OBVIOUS
  <2>2. x[1] = <<a, b>> /\ x[2] = c /\ x[1][1] = a /\ x[1][2] = b
    BY <2>1 DEF Corners
  <2>3. x \in E \X V <=> <<a, b>> \in E /\ c \in V
    BY <2>1 DEF Corners
  <2>4. x \in Triangles(E, V) <=> <<a, b>> \in E /\ c \in V /\ <<a, c>> \in E /\ <<b, c>> \in E
    BY <2>2, <2>3 DEF Triangles
  <2> QED
    BY <1>2, <2>1, <2>4
<1> QED
  BY <1>1, <1>2, <1>3

\* A triangle with its corners permuted is one, so that the parts of the
\* triangles that differ in the order of the corners are of one size.
LEMMA SixTimes ==
  ASSUME NEW V \in SUBSET Int, IsFiniteSet(V), NEW E, SymmetricOn(E, V)
  PROVE  /\ IsFiniteSet(Triangles(E, V)) /\ Cardinality(Falling(E, V)) \in Nat
         /\ Cardinality(Triangles(E, V)) = 6 * Cardinality(Falling(E, V))
<1>1. PICK T : T = Triangles(E, V)
  OBVIOUS
<1>2. /\ \A x \in T : x = Corners(x[1][1], x[1][2], x[2])
      /\ \A a, b, c : Corners(a, b, c) \in T
                        => /\ a \in Int /\ b \in Int /\ c \in Int
                           /\ Corners(b, a, c) \in T /\ Corners(a, c, b) \in T
                           /\ Corners(c, a, b) \in T /\ Corners(b, c, a) \in T
  BY <1>1, TriangleFacts
<1>3. \A a, b, c : Corners(a, b, c) \in T => a # b /\ a # c /\ b # c
  <2>1. ASSUME NEW a, NEW b, NEW c, Corners(a, b, c) \in T
        PROVE  a # b /\ a # c /\ b # c
    <3>1. /\ <<a, b>> \in E /\ <<a, c>> \in E /\ <<b, c>> \in E
          /\ a \in V /\ b \in V /\ c \in V
      BY <1>1, <2>1, TriangleFacts
    <3>2. \A n \in V : <<n, n>> \notin E
      BY DEF SymmetricOn
    <3> QED
      BY <3>1, <3>2
  <2> QED
    BY <2>1
<1>4. IsFiniteSet(T)
  <2>1. IsFiniteSet(V \X V)
    BY FS_Product
  <2>2. IsFiniteSet(E)
    BY <2>1, FS_Subset DEF SymmetricOn
  <2>3. IsFiniteSet(E \X V)
    BY <2>2, FS_Product
  <2> QED
    BY <1>1, <2>3, FS_Subset DEF Triangles
<1>5. \A a, b, c : Corners(a, b, c)[1][1] = a /\ Corners(a, b, c)[1][2] = b /\ Corners(a, b, c)[2] = c
  BY DEF Corners
<1>6. PICK F : F = {x \in T : x[1][2] < x[1][1] /\ x[2] < x[1][2]}
  OBVIOUS
<1>7. PICK M : M = {x \in T : x[2] < x[1][1] /\ x[1][2] < x[2]}
  OBVIOUS
<1>8. PICK H : H = {x \in T : x[1][1] < x[2] /\ x[1][2] < x[1][1]}
  OBVIOUS
<1>9. PICK D : D = {x \in T : x[1][2] < x[1][1]}
  OBVIOUS
<1>10. PICK U : U = {x \in T : x[1][1] < x[1][2]}
  OBVIOUS
<1>11. /\ \A a, b, c : Corners(a, b, c) \in F <=> Corners(a, b, c) \in T /\ b < a /\ c < b
       /\ \A a, b, c : Corners(a, b, c) \in M <=> Corners(a, b, c) \in T /\ c < a /\ b < c
       /\ \A a, b, c : Corners(a, b, c) \in H <=> Corners(a, b, c) \in T /\ a < c /\ b < a
       /\ \A a, b, c : Corners(a, b, c) \in D <=> Corners(a, b, c) \in T /\ b < a
       /\ \A a, b, c : Corners(a, b, c) \in U <=> Corners(a, b, c) \in T /\ a < b
  BY <1>5, <1>6, <1>7, <1>8, <1>9, <1>10
<1>12. F \subseteq T /\ M \subseteq T /\ H \subseteq T /\ D \subseteq T /\ U \subseteq T
  BY <1>6, <1>7, <1>8, <1>9, <1>10
<1>13. IsFiniteSet(F) /\ IsFiniteSet(M) /\ IsFiniteSet(H) /\ IsFiniteSet(D) /\ IsFiniteSet(U)
  BY <1>4, <1>12, FS_Subset
<1>14. Cardinality(M) = Cardinality(F)
  <2>1. PICK f : f = [x \in F |-> Corners(x[1][1], x[2], x[1][2])]
    OBVIOUS
  <2>2. PICK g : g = [x \in M |-> Corners(x[1][1], x[2], x[1][2])]
    OBVIOUS
  <2>3. ASSUME NEW x \in F PROVE f[x] \in M /\ g[f[x]] = x
    <3>1. PICK a, b, c : x = Corners(a, b, c) /\ a = x[1][1] /\ b = x[1][2] /\ c = x[2]
      BY <1>2, <1>12
    <3>2. f[x] = Corners(a, c, b) /\ Corners(a, c, b) \in M
      BY <1>2, <1>11, <2>1, <3>1
    <3>3. g[Corners(a, c, b)] = Corners(a, b, c)
      BY <1>5, <2>2, <3>2
    <3> QED
      BY <3>1, <3>2, <3>3
  <2>4. ASSUME NEW x \in M PROVE g[x] \in F /\ f[g[x]] = x
    <3>1. PICK a, b, c : x = Corners(a, b, c) /\ a = x[1][1] /\ b = x[1][2] /\ c = x[2]
      BY <1>2, <1>12
    <3>2. g[x] = Corners(a, c, b) /\ Corners(a, c, b) \in F
      BY <1>2, <1>11, <2>2, <3>1
    <3>3. f[Corners(a, c, b)] = Corners(a, b, c)
      BY <1>5, <2>1, <3>2
    <3> QED
      BY <3>1, <3>2, <3>3
  <2>5. f \in [F -> M] /\ g \in [M -> F]
    BY <2>1, <2>2, <2>3, <2>4
  <2> QED
    BY <1>13, <2>3, <2>4, <2>5, SameSize
<1>15. Cardinality(H) = Cardinality(F)
  <2>1. PICK f : f = [x \in F |-> Corners(x[1][2], x[2], x[1][1])]
    OBVIOUS
  <2>2. PICK g : g = [x \in H |-> Corners(x[2], x[1][1], x[1][2])]
    OBVIOUS
  <2>3. ASSUME NEW x \in F PROVE f[x] \in H /\ g[f[x]] = x
    <3>1. PICK a, b, c : x = Corners(a, b, c) /\ a = x[1][1] /\ b = x[1][2] /\ c = x[2]
      BY <1>2, <1>12
    <3>2. f[x] = Corners(b, c, a) /\ Corners(b, c, a) \in H
      BY <1>2, <1>11, <2>1, <3>1
    <3>3. g[Corners(b, c, a)] = Corners(a, b, c)
      BY <1>5, <2>2, <3>2
    <3> QED
      BY <3>1, <3>2, <3>3
  <2>4. ASSUME NEW x \in H PROVE g[x] \in F /\ f[g[x]] = x
    <3>1. PICK a, b, c : x = Corners(a, b, c) /\ a = x[1][1] /\ b = x[1][2] /\ c = x[2]
      BY <1>2, <1>12
    <3>2. g[x] = Corners(c, a, b) /\ Corners(c, a, b) \in F
      BY <1>2, <1>11, <2>2, <3>1
    <3>3. f[Corners(c, a, b)] = Corners(a, b, c)
      BY <1>5, <2>1, <3>2
    <3> QED
      BY <3>1, <3>2, <3>3
  <2>5. f \in [F -> H] /\ g \in [H -> F]
    BY <2>1, <2>2, <2>3, <2>4
  <2> QED
    BY <1>13, <2>3, <2>4, <2>5, SameSize
<1>16. Cardinality(U) = Cardinality(D)
  <2>1. PICK f : f = [x \in D |-> Corners(x[1][2], x[1][1], x[2])]
    OBVIOUS
  <2>2. PICK g : g = [x \in U |-> Corners(x[1][2], x[1][1], x[2])]
    OBVIOUS
  <2>3. ASSUME NEW x \in D PROVE f[x] \in U /\ g[f[x]] = x
    <3>1. PICK a, b, c : x = Corners(a, b, c) /\ a = x[1][1] /\ b = x[1][2] /\ c = x[2]
      BY <1>2, <1>12
    <3>2. f[x] = Corners(b, a, c) /\ Corners(b, a, c) \in U
      BY <1>2, <1>11, <2>1, <3>1
    <3>3. g[Corners(b, a, c)] = Corners(a, b, c)
      BY <1>5, <2>2, <3>2
    <3> QED
      BY <3>1, <3>2, <3>3
  <2>4. ASSUME NEW x \in U PROVE g[x] \in D /\ f[g[x]] = x
    <3>1. PICK a, b, c : x = Corners(a, b, c) /\ a = x[1][1] /\ b = x[1][2] /\ c = x[2]
      BY <1>2, <1>12
    <3>2. g[x] = Corners(b, a, c) /\ Corners(b, a, c) \in D
      BY <1>2, <1>11, <2>2, <3>1
    <3>3. f[Corners(b, a, c)] = Corners(a, b, c)
      BY <1>5, <2>1, <3>2
    <3> QED
      BY <3>1, <3>2, <3>3
  <2>5. f \in [D -> U] /\ g \in [U -> D]
    BY <2>1, <2>2, <2>3, <2>4
  <2> QED
    BY <1>13, <2>3, <2>4, <2>5, SameSize
<1>17. ASSUME NEW x \in T
       PROVE  /\ x[1][1] \in Int /\ x[1][2] \in Int /\ x[2] \in Int
              /\ x[1][1] # x[1][2] /\ x[1][1] # x[2] /\ x[1][2] # x[2]
  <2>1. PICK a, b, c : x = Corners(a, b, c) /\ a = x[1][1] /\ b = x[1][2] /\ c = x[2]
    BY <1>2
  <2>2. Corners(a, b, c) \in T
    BY <2>1
  <2>3. a \in Int /\ b \in Int /\ c \in Int /\ a # b /\ a # c /\ b # c
    BY <1>2, <1>3, <2>2
  <2> QED
    BY <2>1, <2>3
<1>18. D = (F \cup M) \cup H /\ F \cap M = {} /\ (F \cup M) \cap H = {}
  <2>1. \A x \in T : x \in D <=> x \in F \/ x \in M \/ x \in H
    BY <1>6, <1>7, <1>8, <1>9, <1>17
  <2>2. \A x \in T : ~(x \in F /\ x \in M) /\ ~(x \in F /\ x \in H) /\ ~(x \in M /\ x \in H)
    BY <1>6, <1>7, <1>8, <1>17
  <2> QED
    BY <1>12, <2>1, <2>2
<1>19. T = D \cup U /\ D \cap U = {}
  <2>1. \A x \in T : (x \in D \/ x \in U) /\ ~(x \in D /\ x \in U)
    BY <1>9, <1>10, <1>17
  <2> QED
    BY <1>12, <2>1
<1>20. IsFiniteSet(F \cup M) /\ Cardinality(F \cup M) = Cardinality(F) + Cardinality(M)
  BY <1>13, <1>18, SizeOfUnion
<1>21. Cardinality((F \cup M) \cup H) = Cardinality(F \cup M) + Cardinality(H)
  BY <1>13, <1>18, <1>20, SizeOfUnion
<1>22. Cardinality(D \cup U) = Cardinality(D) + Cardinality(U)
  BY <1>13, <1>19, SizeOfUnion
<1>23. Cardinality(F) \in Nat
  BY <1>13, FS_CardinalityType
<1>24. PICK c : c = Cardinality(F)
  OBVIOUS
<1>25. Cardinality(D) = c + c + c
  BY <1>14, <1>15, <1>18, <1>20, <1>21, <1>24
<1>26. Cardinality(T) = 6 * c
  BY <1>16, <1>19, <1>22, <1>23, <1>24, <1>25
<1>27. F = Falling(E, V)
  BY <1>1, <1>6 DEF Falling
<1> QED
  BY <1>1, <1>4, <1>23, <1>24, <1>26, <1>27

\* The numbers given to the vertices do not matter.
LEMMA RenamedTriangles ==
  ASSUME NEW V \in SUBSET Int, IsFiniteSet(V), NEW E, SymmetricOn(E, V),
         NEW f \in [V -> V], NEW k \in [V -> V], \A n \in V : k[f[n]] = n /\ f[k[n]] = n,
         NEW D, D = {x \in V \X V : <<k[x[1]], k[x[2]]>> \in E}
  PROVE  /\ SymmetricOn(D, V)
         /\ Cardinality(Triangles(D, V)) = Cardinality(Triangles(E, V))
<1>1. \A a, b \in V : <<a, b>> \in D <=> <<k[a], k[b]>> \in E
  OBVIOUS
<1>2. D \subseteq V \X V
  OBVIOUS
<1>3. SymmetricOn(D, V)
  <2>1. \A a \in V : k[a] \in V
    OBVIOUS
  <2> QED
    BY <1>1, <1>2, <2>1 DEF SymmetricOn
<1>4. PICK S : S = Triangles(E, V)
  OBVIOUS
<1>5. PICK T : T = Triangles(D, V)
  OBVIOUS
<1>6. /\ \A x \in S : x = Corners(x[1][1], x[1][2], x[2]) /\ x[1][1] \in V /\ x[1][2] \in V /\ x[2] \in V
      /\ \A a, b, c : Corners(a, b, c) \in S <=> <<a, b>> \in E /\ <<a, c>> \in E /\ <<b, c>> \in E
  BY <1>4, TriangleFacts
<1>7. /\ \A x \in T : x = Corners(x[1][1], x[1][2], x[2]) /\ x[1][1] \in V /\ x[1][2] \in V /\ x[2] \in V
      /\ \A a, b, c : Corners(a, b, c) \in T <=> <<a, b>> \in D /\ <<a, c>> \in D /\ <<b, c>> \in D
  <2>1. T = Triangles(D, V) /\ SymmetricOn(D, V)
    BY <1>3, <1>5
  <2> QED
    BY ONLY <2>1, TriangleFacts
<1>8. \A a, b, c : Corners(a, b, c)[1][1] = a /\ Corners(a, b, c)[1][2] = b /\ Corners(a, b, c)[2] = c
  BY DEF Corners
<1>9. PICK F : F = [x \in S |-> Corners(f[x[1][1]], f[x[1][2]], f[x[2]])]
  OBVIOUS
<1>10. PICK G : G = [x \in T |-> Corners(k[x[1][1]], k[x[1][2]], k[x[2]])]
  OBVIOUS
<1>11. ASSUME NEW x \in S PROVE F[x] \in T /\ G[F[x]] = x
  <2>1. PICK a, b, c : x = Corners(a, b, c) /\ a = x[1][1] /\ b = x[1][2] /\ c = x[2]
    <3>1. x = Corners(x[1][1], x[1][2], x[2])
      BY <1>6
    <3> QED
      BY <3>1
  <2>2. /\ a \in V /\ b \in V /\ c \in V /\ <<a, b>> \in E /\ <<a, c>> \in E /\ <<b, c>> \in E
    BY <1>6, <2>1
  <2>3. PICK d, e, h : d = f[a] /\ e = f[b] /\ h = f[c]
    OBVIOUS
  <2>4. d \in V /\ e \in V /\ h \in V /\ k[d] = a /\ k[e] = b /\ k[h] = c
    BY <2>2, <2>3
  <2>5. Corners(d, e, h) \in T
    BY <1>1, <1>7, <2>2, <2>4
  <2>6. F[x] = Corners(d, e, h)
    BY <1>9, <2>1, <2>3
  <2>7. G[Corners(d, e, h)] = Corners(k[d], k[e], k[h])
    BY <1>8, <1>10, <2>5
  <2> QED
    BY <2>1, <2>4, <2>5, <2>6, <2>7
<1>12. ASSUME NEW x \in T PROVE G[x] \in S /\ F[G[x]] = x
  <2>1. PICK a, b, c : x = Corners(a, b, c) /\ a = x[1][1] /\ b = x[1][2] /\ c = x[2]
    <3>1. x = Corners(x[1][1], x[1][2], x[2])
      BY <1>7
    <3> QED
      BY <3>1
  <2>2. /\ a \in V /\ b \in V /\ c \in V /\ <<a, b>> \in D /\ <<a, c>> \in D /\ <<b, c>> \in D
    BY <1>7, <2>1
  <2>3. PICK d, e, h : d = k[a] /\ e = k[b] /\ h = k[c]
    OBVIOUS
  <2>4. f[d] = a /\ f[e] = b /\ f[h] = c
    BY <2>2, <2>3
  <2>5. Corners(d, e, h) \in S
    BY <1>1, <1>6, <2>2, <2>3
  <2>6. G[x] = Corners(d, e, h)
    BY <1>10, <2>1, <2>3
  <2>7. F[Corners(d, e, h)] = Corners(f[d], f[e], f[h])
    BY <1>8, <1>9, <2>5
  <2> QED
    BY <2>1, <2>4, <2>5, <2>6, <2>7
<1>13. F \in [S -> T] /\ G \in [T -> S]
  BY <1>9, <1>10, <1>11, <1>12
<1>14. IsFiniteSet(S)
  BY <1>4, SixTimes
<1> QED
  BY <1>3, <1>4, <1>5, <1>11, <1>12, <1>13, <1>14, SameSize
=============================================================================
