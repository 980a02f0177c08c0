--------------------------- MODULE BuilderProofs ----------------------------
(***************************************************************************)
(* Proofs about GraphBuilder for every list of edges, number of threads    *)
(* and block size: both ways of building end with the graph that the list  *)
(* gives. First the operators (orders and sorting, prefix sums, Layout),   *)
(* then the two-pass builder, where every entry of an edge is a token that *)
(* claims a place of its own (Copying), then the in-place builder loop by  *)
(* loop (Laid, Widened, Roomy), then the inductive invariant, one part per *)
(* stage, and last the triangle counter, which finds each triangle in one  *)
(* of the six orders of its corners.                                       *)
(***************************************************************************)
EXTENDS GraphBuilder, FiniteSums

-----------------------------------------------------------------------------
(* Order. In a finite set with a strict total order R, the number of       *)
(* elements before it tells where an element stands.                       *)
IsOrder(R, S) ==
  /\ \A x \in S : <<x, x>> \notin R
  /\ \A x, y \in S : x # y => <<x, y>> \in R \/ <<y, x>> \in R
  /\ \A x, y, z \in S : <<x, y>> \in R /\ <<y, z>> \in R => <<x, z>> \in R

Under(R, S, x) == {y \in S : <<y, x>> \in R}

\* The number of elements before grows with the order.
LEMMA UnderGrows ==
  ASSUME NEW S, IsFiniteSet(S), NEW R, IsOrder(R, S), NEW x \in S, NEW y \in S
  PROVE  /\ Cardinality(Under(R, S, x)) \in 0 .. Cardinality(S) - 1
         /\ <<x, y>> \in R <=> Cardinality(Under(R, S, x)) < Cardinality(Under(R, S, y))
<1>1. ASSUME NEW a \in S, NEW b \in S, <<a, b>> \in R
      PROVE  Cardinality(Under(R, S, a)) < Cardinality(Under(R, S, b))
  <2>1. PICK A : A = Under(R, S, a)
    OBVIOUS
  <2>2. PICK B : B = Under(R, S, b)
    OBVIOUS
  <2>3. A \subseteq B /\ a \in B /\ a \notin A /\ B \subseteq S
    BY <1>1, <2>1, <2>2 DEF Under, IsOrder
  <2>4. IsFiniteSet(B) /\ A # B
    BY <2>3, FS_Subset
  <2>5. Cardinality(A) <= Cardinality(B) /\ Cardinality(A) # Cardinality(B) /\ IsFiniteSet(A)
    BY <2>3, <2>4, FS_Subset
  <2>6. Cardinality(A) \in Nat /\ Cardinality(B) \in Nat
    BY <2>4, <2>5, FS_CardinalityType
  <2> QED
    BY <2>1, <2>2, <2>5, <2>6
<1>2. ASSUME NEW a \in S
      PROVE  Cardinality(Under(R, S, a)) \in 0 .. Cardinality(S) - 1
  <2>1. PICK A : A = Under(R, S, a)
    OBVIOUS
  <2>2. A \subseteq S /\ a \notin A
    BY <2>1 DEF Under, IsOrder
  <2>3. A # S
    BY <2>2
  <2>4. IsFiniteSet(A) /\ Cardinality(A) <= Cardinality(S) /\ Cardinality(A) # Cardinality(S)
    BY <2>2, <2>3, FS_Subset
  <2>5. Cardinality(A) \in Nat /\ Cardinality(S) \in Nat
    BY <2>4, FS_CardinalityType
  <2> QED
    BY <2>1, <2>4, <2>5
<1>3. CASE <<x, y>> \in R
  BY <1>1, <1>2, <1>3
<1>4. CASE <<x, y>> \notin R
  <2>1. CASE x = y
    BY <1>2, <1>4, <2>1
  <2>2. CASE x # y
    <3>1. <<y, x>> \in R
      BY <1>4, <2>2 DEF IsOrder
    <3>2. Cardinality(Under(R, S, y)) < Cardinality(Under(R, S, x))
      BY <1>1, <3>1
    <3> QED
      BY <1>2, <1>4, <3>2
  <2> QED
    BY <2>1, <2>2
<1> QED
  BY <1>3, <1>4

\* Every rank below the number of elements is taken,
LEMMA Ranked ==
  ASSUME NEW S, IsFiniteSet(S), NEW R, IsOrder(R, S), NEW i \in 1 .. Cardinality(S)
  PROVE  \E x \in S : Cardinality(Under(R, S, x)) = i - 1
<1>1. PICK f : f = [x \in S |-> Cardinality(Under(R, S, x))]
  OBVIOUS
<1>2. PICK n : n = Cardinality(S)
  OBVIOUS
<1>3. n \in Nat
  BY <1>2, FS_CardinalityType
<1>4. f \in [S -> 0 .. n - 1]
  BY <1>1, <1>2, UnderGrows
<1>5. \A x, y \in S : f[x] = f[y] => x = y
  <2> SUFFICES ASSUME NEW x \in S, NEW y \in S, f[x] = f[y], x # y PROVE FALSE
    OBVIOUS
  <2>1. <<x, y>> \in R \/ <<y, x>> \in R
    BY DEF IsOrder
  <2>2. f[x] < f[y] \/ f[y] < f[x]
    BY <1>1, <2>1, UnderGrows
  <2>3. f[x] \in Int /\ f[y] \in Int
    BY <1>4
  <2> QED
    BY <2>2, <2>3
<1>6. f \in Injection(S, 0 .. n - 1)
  BY <1>4, <1>5 DEF Injection, IsInjective
<1>7. IsFiniteSet(0 .. n - 1) /\ Cardinality(0 .. n - 1) = n
  BY <1>3, FS_Interval
<1>8. f \in Surjection(S, 0 .. n - 1)
  BY <1>2, <1>6, <1>7, FS_Injection
<1>9. i - 1 \in 0 .. n - 1
  BY <1>2, <1>3
<1> QED
  BY <1>1, <1>8, <1>9 DEF Surjection

\* by one element only.
LEMMA RankedOnce ==
  ASSUME NEW S, IsFiniteSet(S), NEW R, IsOrder(R, S), NEW x \in S, NEW y \in S,
         Cardinality(Under(R, S, x)) = Cardinality(Under(R, S, y))
  PROVE  x = y
<1> SUFFICES ASSUME x # y PROVE FALSE
  OBVIOUS
<1>1. <<x, y>> \in R \/ <<y, x>> \in R
  BY DEF IsOrder
<1>2. /\ Cardinality(Under(R, S, x)) \in Int
      /\ \/ Cardinality(Under(R, S, x)) < Cardinality(Under(R, S, y))
         \/ Cardinality(Under(R, S, y)) < Cardinality(Under(R, S, x))
  BY <1>1, UnderGrows
<1> QED
  BY <1>2

\* The i-th smallest of a finite set of numbers.
LEMMA NthInOrder ==
  ASSUME NEW S \in SUBSET Int, IsFiniteSet(S)
  PROVE  /\ \A i \in 1 .. Cardinality(S) : Nth(S, i) \in S
         /\ \A i, j \in 1 .. Cardinality(S) : i < j => Nth(S, i) < Nth(S, j)
         /\ \A x \in S : \E i \in 1 .. Cardinality(S) : Nth(S, i) = x
<1>1. PICK R : R = {p \in S \X S : p[1] < p[2]}
  OBVIOUS
<1>2. \A x, y \in S : <<x, y>> \in R <=> x < y
  BY <1>1
<1>3. IsOrder(R, S)
  BY <1>2 DEF IsOrder
<1>4. \A x \in S : Under(R, S, x) = {y \in S : y < x}
  BY <1>2 DEF Under
<1>5. ASSUME NEW i \in 1 .. Cardinality(S)
      PROVE  Nth(S, i) \in S /\ Cardinality(Under(R, S, Nth(S, i))) = i - 1
  <2>1. \E x \in S : Cardinality(Under(R, S, x)) = i - 1
    BY <1>3, Ranked
  <2>2. \E x \in S : Cardinality({y \in S : y < x}) = i - 1
    BY <1>4, <2>1
  <2>3. Nth(S, i) \in S /\ Cardinality({y \in S : y < Nth(S, i)}) = i - 1
    BY <2>2 DEF Nth
  <2> QED
    BY <1>4, <2>3
<1>6. ASSUME NEW i \in 1 .. Cardinality(S), NEW j \in 1 .. Cardinality(S), i < j
      PROVE  Nth(S, i) < Nth(S, j)
  <2>1. Cardinality(Under(R, S, Nth(S, i))) < Cardinality(Under(R, S, Nth(S, j)))
    BY <1>5, <1>6
  <2>2. <<Nth(S, i), Nth(S, j)>> \in R
    BY <1>3, <1>5, <2>1, UnderGrows
  <2> QED
    BY <1>2, <1>5, <2>2
<1>7. ASSUME NEW x \in S
      PROVE  \E i \in 1 .. Cardinality(S) : Nth(S, i) = x
  <2>1. PICK c : c = Cardinality(Under(R, S, x))
    OBVIOUS
  <2>2. c \in 0 .. Cardinality(S) - 1 /\ Cardinality(S) \in Nat
    BY <1>3, <2>1, UnderGrows, FS_CardinalityType
  <2>3. c + 1 \in 1 .. Cardinality(S) /\ (c + 1) - 1 = c
    BY <2>2
  <2>4. Nth(S, c + 1) \in S /\ Cardinality(Under(R, S, Nth(S, c + 1))) = c
    BY <1>5, <2>3
  <2>5. Nth(S, c + 1) = x
    BY <1>3, <2>1, <2>4, RankedOnce
  <2> QED
    BY <2>3, <2>5
<1> QED
  BY <1>5, <1>6, <1>7

(* What std::sort asks of a comparison.                                    *)
IsComparison(less, D) ==
  /\ \A i \in D : <<i, i>> \notin less
  /\ \A i, j, k \in D : <<i, j>> \in less /\ <<j, k>> \in less => <<i, k>> \in less
  /\ \A i, j, k \in D : <<i, j>> \notin less /\ <<j, k>> \notin less => <<i, k>> \notin less

(* t has the elements of s in the order pi.                                *)
Orders(pi, s, t) ==
  /\ pi \in [DOMAIN s -> DOMAIN s] /\ t = [i \in DOMAIN s |-> s[pi[i]]]
  /\ \A k \in DOMAIN s : \E i \in DOMAIN s : pi[i] = k
  /\ \A i, j \in DOMAIN s : pi[i] = pi[j] => i = j

\* Sorted rearranges the elements, and none comes before a smaller one.
LEMMA SortedInOrder ==
  ASSUME NEW n \in Nat, NEW s, DOMAIN s = 1 .. n, NEW less, IsComparison(less, 1 .. n)
  PROVE  \E pi : /\ Orders(pi, s, Sorted(s, less))
                 /\ \A i, j \in 1 .. n : i < j => <<pi[j], pi[i]>> \notin less
<1>1. PICK D : D = 1 .. n
  OBVIOUS
<1>2. PICK R : R = {p \in D \X D : p \in less \/ (<<p[2], p[1]>> \notin less /\ p[1] < p[2])}
  OBVIOUS
<1>3. \A j, k \in D : <<j, k>> \in R <=> <<j, k>> \in less \/ (<<k, j>> \notin less /\ j < k)
  BY <1>2
<1>4. D \subseteq Int /\ IsFiniteSet(D) /\ Cardinality(D) = n
  BY <1>1, FS_Interval
<1>5. \A j, k \in D : <<j, k>> \in R => <<k, j>> \notin less
  BY <1>1, <1>3 DEF IsComparison
<1>6. IsOrder(R, D)
  <2>1. ASSUME NEW j \in D PROVE <<j, j>> \notin R
    <3>1. <<j, j>> \notin less /\ ~(j < j)
      BY <1>1, <1>4 DEF IsComparison
    <3> QED
      BY <1>3, <3>1
  <2>2. \A j, k \in D : j # k => <<j, k>> \in R \/ <<k, j>> \in R
    BY <1>3, <1>4
  <2>3. ASSUME NEW j \in D, NEW k \in D, NEW l \in D, <<j, k>> \in R, <<k, l>> \in R
        PROVE  <<j, l>> \in R
    <3>1. <<k, j>> \notin less /\ <<l, k>> \notin less
      BY <1>5, <2>3
    <3>2. <<l, j>> \notin less
      BY <1>1, <3>1 DEF IsComparison
    <3>3. CASE <<j, l>> \in less
      BY <1>3, <3>3
    <3>4. CASE <<j, l>> \notin less
      <4>1. <<j, k>> \notin less
        BY <1>1, <3>1, <3>4 DEF IsComparison
      <4>2. <<k, l>> \notin less
        BY <1>1, <3>1, <3>4 DEF IsComparison
      <4>3. j < k /\ k < l
        BY <1>3, <2>3, <4>1, <4>2
      <4>4. j < l
        BY <1>4, <4>3
      <4> QED
        BY <1>3, <3>2, <4>4
    <3> QED
      BY <3>3, <3>4
  <2> QED
    BY <2>1, <2>2, <2>3 DEF IsOrder
<1>7. PICK rank : rank = [k \in D |-> Cardinality(Under(R, D, k))]
  OBVIOUS
<1>8. rank = [k \in DOMAIN s |-> Cardinality({j \in DOMAIN s : <<j, k>> \in less \/ (<<k, j>> \notin less /\ j < k)})]
  <2>1. \A k \in D : Under(R, D, k) = {j \in D : <<j, k>> \in less \/ (<<k, j>> \notin less /\ j < k)}
    BY <1>3 DEF Under
  <2> QED
    BY <1>1, <1>7, <2>1
<1>9. PICK pi : pi = [i \in D |-> CHOOSE k \in D : rank[k] = i - 1]
  OBVIOUS
<1>10. ASSUME NEW i \in D PROVE pi[i] \in D /\ rank[pi[i]] = i - 1
  <2>0. i \in 1 .. Cardinality(D) /\ IsFiniteSet(D)
    BY <1>1, <1>4
  <2>1. \E x \in D : Cardinality(Under(R, D, x)) = i - 1
    BY <1>6, <2>0, Ranked
  <2>2. \E x \in D : rank[x] = i - 1
    BY <1>7, <2>1
  <2> QED
    BY <1>9, <2>2
<1>11. Sorted(s, less) = [i \in DOMAIN s |-> s[pi[i]]]
  BY <1>1, <1>8, <1>9 DEF Sorted
<1>12. ASSUME NEW k \in D PROVE \E i \in D : pi[i] = k
  <2>1. rank[k] \in 0 .. n - 1 /\ rank[k] = Cardinality(Under(R, D, k))
    BY <1>4, <1>6, <1>7, UnderGrows
  <2>2. rank[k] + 1 \in D /\ (rank[k] + 1) - 1 = rank[k]
    BY <1>1, <2>1
  <2>3. pi[rank[k] + 1] \in D /\ rank[pi[rank[k] + 1]] = rank[k]
    BY <1>10, <2>2
  <2>4. Cardinality(Under(R, D, pi[rank[k] + 1])) = Cardinality(Under(R, D, k))
    BY <1>7, <2>1, <2>3
  <2>5. pi[rank[k] + 1] = k
    BY <1>4, <1>6, <2>3, <2>4, RankedOnce
  <2> QED
    BY <2>2, <2>5
<1>13. \A i, j \in D : pi[i] = pi[j] => i = j
  <2> SUFFICES ASSUME NEW i \in D, NEW j \in D, pi[i] = pi[j] PROVE i = j
    OBVIOUS
  <2>1. i - 1 = j - 1
    BY <1>10
  <2> QED
    BY <1>4, <2>1
<1>14. ASSUME NEW i \in D, NEW j \in D, i < j PROVE <<pi[j], pi[i]>> \notin less
  <2>1. rank[pi[i]] < rank[pi[j]] /\ pi[i] \in D /\ pi[j] \in D
    BY <1>4, <1>10, <1>14
  <2>2. Cardinality(Under(R, D, pi[i])) < Cardinality(Under(R, D, pi[j]))
    BY <1>7, <2>1
  <2>3. <<pi[i], pi[j]>> \in R
    BY <1>4, <1>6, <2>1, <2>2, UnderGrows
  <2> QED
    BY <1>5, <2>1, <2>3
<1>15. pi \in [D -> D]
  BY <1>9, <1>10
<1> QED
  BY <1>1, <1>11, <1>12, <1>13, <1>14, <1>15 DEF Orders

-----------------------------------------------------------------------------
(* Sums over disjoint sets, and ParallelPrefixSum                          *)
LEMMA SumUnion ==
  ASSUME NEW S, IsFiniteSet(S), NEW T, IsFiniteSet(T), S \cap T = {}, NEW f,
         \A x \in S \cup T : f[x] \in Int
  PROVE  SumFunctionOnSet(f, S \cup T) = SumFunctionOnSet(f, S) + SumFunctionOnSet(f, T)
<1> DEFINE P == {U \in SUBSET T : SumFunctionOnSet(f, S \cup U) = SumFunctionOnSet(f, S) + SumFunctionOnSet(f, U)}
<1>0. PICK V : V = S \cup T
  OBVIOUS
<1>1. IsFiniteSet(V) /\ S \subseteq V /\ T \subseteq V /\ \A x \in V : f[x] \in Int
  BY <1>0, FS_Union
<1>2. \A U \in SUBSET V : SumFunctionOnSet(f, U) \in Int
  <2> TAKE U \in SUBSET V
  <2>1. IsFiniteSet(U) /\ \A x \in U : f[x] \in Int
    BY <1>1, FS_Subset
  <2> QED
    BY ONLY <2>1, SumSplit
<1>3. \A U \in SUBSET V : \A x \in V \ U :
        SumFunctionOnSet(f, U \cup {x}) = SumFunctionOnSet(f, U) + f[x]
  BY ONLY <1>1, SumAdds
<1>4. {} \in P
  <2>1. S \cup {} = S /\ SumFunctionOnSet(f, S) \in Int
    BY <1>1, <1>2
  <2> QED
    BY <2>1, SumEmpty
<1>5. ASSUME NEW U \in SUBSET T, NEW x \in T \ U, U \in P PROVE U \cup {x} \in P
  <2>1. PICK W : W = S \cup U
    OBVIOUS
  <2>2. W \in SUBSET V /\ x \in V \ W /\ U \in SUBSET V /\ x \in V \ U /\ S \cup (U \cup {x}) = W \cup {x}
    BY <1>0, <2>1
  <2>3. SumFunctionOnSet(f, W \cup {x}) = SumFunctionOnSet(f, W) + f[x]
    BY <1>3, <2>2
  <2>4. SumFunctionOnSet(f, U \cup {x}) = SumFunctionOnSet(f, U) + f[x]
    BY <1>3, <2>2
  <2>5. SumFunctionOnSet(f, W) = SumFunctionOnSet(f, S) + SumFunctionOnSet(f, U)
    BY <1>5, <2>1
  <2>6. SumFunctionOnSet(f, S) \in Int /\ SumFunctionOnSet(f, U) \in Int /\ f[x] \in Int
    BY <1>1, <1>2, <2>2
  <2>7. SumFunctionOnSet(f, S \cup (U \cup {x})) = SumFunctionOnSet(f, S) + SumFunctionOnSet(f, U \cup {x})
    <3>1. SumFunctionOnSet(f, S \cup (U \cup {x})) = SumFunctionOnSet(f, W \cup {x})
      BY <2>2
    <3> QED
      BY ONLY <3>1, <2>3, <2>4, <2>5, <2>6
  <2> QED
    BY <1>5, <2>7
<1> HIDE DEF P
<1>6. T \in P
  BY ONLY <1>4, <1>5, IsFiniteSet(T), SetGrows
<1> QED
  BY <1>6 DEF P

\* Division without remainder.
LEMMA Quotient ==
  ASSUME NEW b \in Nat \ {0}, NEW a \in Nat
  PROVE  a \div b \in Nat /\ (a \div b) * b <= a /\ a < (a \div b) * b + b
OBVIOUS

LEMMA QuotientOf ==
  ASSUME NEW b \in Nat \ {0}, NEW q \in Nat
  PROVE  q * b \in Nat /\ (q * b) \div b = q
OBVIOUS

LEMMA QuotientGrows ==
  ASSUME NEW b \in Nat \ {0}, NEW a \in Nat, NEW c \in Nat, a <= c
  PROVE  a \div b <= c \div b
<1>1. PICK p : p = a \div b
  OBVIOUS
<1>2. PICK q : q = c \div b
  OBVIOUS
<1>3. p \in Nat /\ q \in Nat /\ p * b <= a /\ c < q * b + b
  BY <1>1, <1>2, Quotient
<1>4. ASSUME q < p PROVE FALSE
  <2>1. q + 1 <= p /\ q + 1 \in Nat
    BY <1>3, <1>4
  <2>2. (q + 1) * b <= p * b
    BY <1>3, <2>1
  <2>3. (q + 1) * b = q * b + b
    BY <1>3
  <2>4. p * b \in Nat /\ q * b \in Nat
    BY <1>3
  <2> QED
    BY <1>3, <2>2, <2>3, <2>4
<1> QED
  BY <1>1, <1>2, <1>3, <1>4

(* P are the sums of the degrees before each vertex.                       *)
IsPrefixSum(P, degrees) ==
  /\ P \in [0 .. numNodes -> Nat] /\ P[0] = 0
  /\ \A n \in Vertex : n + 1 \in 0 .. numNodes /\ P[n + 1] = P[n] + degrees[n]

\* Whatever the size of a block, ParallelPrefixSum is the prefix sum.
LEMMA PrefixSums ==
  ASSUME numNodes \in Nat \ {0}, NEW degrees, \A n \in Vertex : degrees[n] \in Nat
  PROVE  IsPrefixSum(ParallelPrefixSum(degrees), degrees)
<1>1. PICK size : size = numNodes
  OBVIOUS
<1>2. PICK B : B = BlockSize
  OBVIOUS
<1>3. size \in Nat \ {0} /\ B \in Nat \ {0} /\ Vertex = 0 .. size - 1
  BY <1>1, <1>2, BuilderAssumption DEF Vertex
<1> DEFINE Block(b) == {i \in 0 .. size - 1 : i \div B = b}
           blocks == {i \div B : i \in 0 .. size - 1}
           local == [b \in blocks |-> SumFunctionOnSet(degrees, Block(b))]
           Before0(b) == {i \in 0 .. size - 1 : i \div B < b}
           Sum(S) == SumFunctionOnSet(degrees, S)
<1>4. PICK m : m = (size - 1) \div B
  OBVIOUS
<1>5. size - 1 \in Nat /\ m \in Nat /\ m * B <= size - 1
  <2>1. PICK a : a = size - 1
    OBVIOUS
  <2>2. a \in Nat
    BY <1>3, <2>1
  <2>3. a \div B \in Nat /\ (a \div B) * B <= a
    BY <1>3, <2>2, Quotient
  <2> QED
    BY <1>4, <2>1, <2>2, <2>3
<1>6. \A i \in 0 .. size - 1 : i \div B \in 0 .. m
  <2> TAKE i \in 0 .. size - 1
  <2>1. i \in Nat /\ i <= size - 1
    BY <1>3
  <2>2. i \div B \in Nat /\ i \div B <= m
    BY <1>3, <1>4, <1>5, <2>1, Quotient, QuotientGrows
  <2> QED
    BY <1>5, <2>2
<1>7. blocks = 0 .. m
  <2>1. blocks \subseteq 0 .. m
    BY <1>6
  <2>2. ASSUME NEW q \in 0 .. m PROVE q \in blocks
    <3>1. q \in Nat /\ q <= m
      BY <1>5
    <3>2. q * B \in Nat /\ (q * B) \div B = q
      BY <1>3, <3>1, QuotientOf
    <3>3. q * B <= m * B
      BY <1>3, <1>5, <3>1
    <3>4. q * B \in 0 .. size - 1
      BY <1>3, <1>5, <3>2, <3>3
    <3> QED
      BY <3>2, <3>4
  <2> QED
    BY <2>1, <2>2
<1>8. IsFiniteSet(blocks) /\ Cardinality(blocks) = m + 1
  <2>1. IsFiniteSet(0 .. m) /\ Cardinality(0 .. m) = m + 1
    BY <1>5, FS_Interval
  <2> QED
    BY ONLY <1>7, <2>1
<1>9. \A S \in SUBSET (0 .. size - 1) : /\ IsFiniteSet(S) /\ Sum(S) \in Nat
                                        /\ \A x \in S : degrees[x] \in Int
  <2> TAKE S \in SUBSET (0 .. size - 1)
  <2>0. size - 1 \in Int /\ 0 \in Int /\ S \in SUBSET (0 .. size - 1)
    BY <1>3
  <2>1. IsFiniteSet(S)
    BY ONLY <2>0, FS_Interval, FS_Subset
  <2>2. \A x \in S : degrees[x] \in Nat
    BY <1>3
  <2>3. SumFunctionOnSet(degrees, S) \in Nat
    BY ONLY <2>1, <2>2, SumNat
  <2> QED
    BY <2>1, <2>2, <2>3
<1>10. \A S, T \in SUBSET (0 .. size - 1) : S \cap T = {} => Sum(S \cup T) = Sum(S) + Sum(T)
  <2> TAKE S, T \in SUBSET (0 .. size - 1)
  <2> HAVE S \cap T = {}
  <2>1. IsFiniteSet(S) /\ IsFiniteSet(T) /\ \A x \in S \cup T : degrees[x] \in Int
    BY <1>9
  <2>2. SumFunctionOnSet(degrees, S \cup T) = SumFunctionOnSet(degrees, S) + SumFunctionOnSet(degrees, T)
    BY ONLY <2>1, S \cap T = {}, SumUnion
  <2> QED
    BY <2>2
<1> DEFINE Q == {b \in Nat : SumFunctionOnSet(local, {c \in blocks : c < b}) = Sum(Before0(b))}
<1>11. 0 \in Q
  <2>1. {c \in blocks : c < 0} = {}
    <3>1. \A c \in blocks : c \in 0 .. m
      BY <1>7
    <3>2. \A c \in 0 .. m : ~(c < 0)
      BY <1>5
    <3> QED
      BY <3>1, <3>2
  <2>2. Before0(0) = {}
    BY <1>5, <1>6
  <2> QED
    BY <2>1, <2>2, SumEmpty
<1>12. ASSUME NEW b \in 1 .. m + 1, b - 1 \in Q PROVE b \in Q
  <2>0. b - 1 \in Nat /\ b - 1 \in 0 .. m /\ b \in Nat
    BY <1>5
  <2>1. PICK C : C = {c \in blocks : c < b - 1}
    OBVIOUS
  <2>2. {c \in blocks : c < b} = C \cup {b - 1} /\ b - 1 \notin C /\ C \subseteq blocks /\ b - 1 \in blocks
    <3>1. {c \in 0 .. m : c < b} = {c \in 0 .. m : c < b - 1} \cup {b - 1}
      BY <1>5, <2>0
    <3>2. b - 1 \notin {c \in 0 .. m : c < b - 1}
      BY <2>0
    <3>3. C = {c \in 0 .. m : c < b - 1} /\ {c \in blocks : c < b} = {c \in 0 .. m : c < b}
      BY ONLY <1>7, <2>1
    <3>4. C \subseteq blocks
      BY <2>1
    <3>5. b - 1 \in blocks
      BY ONLY <1>7, <2>0
    <3> QED
      BY <3>1, <3>2, <3>3, <3>4, <3>5
  <2>3. \A c \in blocks : local[c] \in Int
    <3> TAKE c \in blocks
    <3>1. Block(c) \in SUBSET (0 .. size - 1)
      OBVIOUS
    <3> QED
      BY <1>9, <3>1
  <2>4. SumFunctionOnSet(local, C \cup {b - 1}) = SumFunctionOnSet(local, C) + local[b - 1]
    <3>1. PICK L : L = local
      OBVIOUS
    <3>2. PICK K : K = blocks
      OBVIOUS
    <3>3. IsFiniteSet(K) /\ (\A c \in K : L[c] \in Int) /\ C \in SUBSET K /\ b - 1 \in K \ C
      BY <1>8, <2>2, <2>3, <3>1, <3>2
    <3>4. SumFunctionOnSet(L, C \cup {b - 1}) = SumFunctionOnSet(L, C) + L[b - 1]
      BY ONLY <3>3, SumAdds
    <3> QED
      BY <3>1, <3>4
  <2>5. local[b - 1] = Sum(Block(b - 1))
    BY <2>2
  <2>6. Before0(b) = Before0(b - 1) \cup Block(b - 1) /\ Before0(b - 1) \cap Block(b - 1) = {}
    <3>1. \A i \in 0 .. size - 1 : i \div B \in Int
      BY <1>5, <1>6
    <3> QED
      BY <2>0, <3>1
  <2>7. Sum(Before0(b)) = Sum(Before0(b - 1)) + Sum(Block(b - 1))
    <3>1. Before0(b - 1) \in SUBSET (0 .. size - 1) /\ Block(b - 1) \in SUBSET (0 .. size - 1)
      OBVIOUS
    <3> QED
      BY <1>10, <2>6, <3>1
  <2>8. SumFunctionOnSet(local, C) = Sum(Before0(b - 1))
    BY <1>12, <2>1
  <2> QED
    BY <2>0, <2>2, <2>4, <2>5, <2>7, <2>8
<1>13. \A b \in 0 .. m + 1 : SumFunctionOnSet(local, {c \in blocks : c < b}) = Sum(Before0(b))
  <2>1. PICK V : V = Q
    OBVIOUS
  <2>2. 0 \in V /\ \A b \in 1 .. m + 1 : b - 1 \in V => b \in V
    BY <1>11, <1>12, <2>1
  <2>3. m + 1 \in Nat
    BY <1>5
  <2>4. \A b \in 0 .. m + 1 : b \in V
    BY ONLY <2>2, <2>3, UpTo
  <2> QED
    BY <2>1, <2>4
<1>14. PICK P : P = ParallelPrefixSum(degrees)
  OBVIOUS
<1> DEFINE bulk == [b \in blocks \cup {Cardinality(blocks)} |-> SumFunctionOnSet(local, {c \in blocks : c < b})]
<1>15. P = [i \in 0 .. size |->
              IF i = size THEN bulk[Cardinality(blocks)]
              ELSE bulk[i \div B] + SumFunctionOnSet(degrees, {j \in Block(i \div B) : j < i})]
  BY <1>1, <1>2, <1>14 DEF ParallelPrefixSum
<1>16. bulk[m + 1] = Sum(Before0(m + 1)) /\ \A b \in blocks : bulk[b] = Sum(Before0(b))
  <2>1. m + 1 \in 0 .. m + 1 /\ \A b \in blocks : b \in 0 .. m + 1
    BY <1>5, <1>7
  <2>2. m + 1 \in blocks \cup {Cardinality(blocks)}
    BY <1>8
  <2> QED
    BY <1>13, <2>1, <2>2
<1> HIDE DEF bulk
<1>17. ASSUME NEW i \in 0 .. size PROVE P[i] = Sum(0 .. i - 1)
  <2>1. CASE i = size
    <3>1. Before0(m + 1) = 0 .. size - 1
      BY <1>5, <1>6
    <3>2. P[i] = bulk[m + 1]
      BY <1>8, <1>15, <2>1
    <3> QED
      BY <1>16, <2>1, <3>1, <3>2
  <2>2. CASE i # size
    <3>1. i \in 0 .. size - 1 /\ i \in Nat
      BY <1>3, <2>2
    <3>2. PICK b : b = i \div B
      OBVIOUS
    <3>3. PICK X : X = {j \in Block(b) : j < i}
      OBVIOUS
    <3>4. P[i] = bulk[b] + Sum(X)
      BY <1>15, <2>2, <3>1, <3>2, <3>3
    <3>5. b \in blocks
      BY <3>1, <3>2
    <3>6. \A j \in 0 .. size - 1 : j \div B \in Nat /\ (j <= i => j \div B <= b) /\ (i <= j => b <= j \div B)
      <4> TAKE j \in 0 .. size - 1
      <4>1. j \in Nat
        BY <1>3
      <4> QED
        BY <1>3, <3>1, <3>2, <4>1, Quotient, QuotientGrows
    <3>7. b \in Nat
      BY <1>3, <3>1, <3>2, Quotient
    <3>8. Before0(b) \cup X = 0 .. i - 1 /\ Before0(b) \cap X = {}
      <4>1. ASSUME NEW j \in Before0(b) PROVE j \in 0 .. i - 1 /\ j \notin X
        <5>1. j \in 0 .. size - 1 /\ j \div B < b
          OBVIOUS
        <5>2. ~(i <= j)
          BY <3>6, <3>7, <5>1
        <5>3. j \div B # b
          BY <3>7, <5>1
        <5> QED
          BY <1>3, <3>1, <3>3, <5>1, <5>2, <5>3
      <4>2. ASSUME NEW j \in X PROVE j \in 0 .. i - 1
        BY <1>3, <3>1, <3>3
      <4>3. ASSUME NEW j \in 0 .. i - 1 PROVE j \in Before0(b) \cup X
        <5>1. j \in 0 .. size - 1 /\ j <= i /\ j < i
          BY <1>3, <3>1
        <5>2. j \div B \in Nat /\ j \div B <= b
          BY <3>6, <5>1
        <5>3. j \div B < b \/ j \div B = b
          BY <3>7, <5>2
        <5> QED
          BY <3>3, <5>1, <5>3
      <4> QED
        BY <4>1, <4>2, <4>3
    <3>9. Before0(b) \in SUBSET (0 .. size - 1) /\ X \in SUBSET (0 .. size - 1)
      BY <3>3
    <3>10. Sum(Before0(b) \cup X) = Sum(Before0(b)) + Sum(X)
      BY <1>10, <3>8, <3>9
    <3> QED
      BY <1>16, <3>4, <3>5, <3>8, <3>10
  <2> QED
    BY <2>1, <2>2
<1>18. ASSUME NEW i \in 0 .. size PROVE P[i] \in Nat
  <2>1. 0 .. i - 1 \in SUBSET (0 .. size - 1)
    BY <1>3
  <2> QED
    BY <1>9, <1>17, <2>1
<1>19. P[0] = 0
  <2>1. 0 \in 0 .. size /\ 0 .. 0 - 1 = {}
    BY <1>3
  <2> QED
    BY <1>17, <2>1, SumEmpty
<1>20. ASSUME NEW n \in Vertex PROVE n + 1 \in 0 .. size /\ P[n + 1] = P[n] + degrees[n]
  <2>1. n \in 0 .. size - 1 /\ n \in 0 .. size /\ n + 1 \in 0 .. size /\ (n + 1) - 1 = n
    BY <1>3
  <2>2. 0 .. n = (0 .. n - 1) \cup {n} /\ (0 .. n - 1) \cap {n} = {}
    BY <2>1
  <2>3. 0 .. n - 1 \in SUBSET (0 .. size - 1) /\ {n} \in SUBSET (0 .. size - 1)
    BY <1>3, <2>1
  <2>4. Sum((0 .. n - 1) \cup {n}) = Sum(0 .. n - 1) + Sum({n})
    BY <1>10, <2>2, <2>3
  <2>5. Sum({n}) = degrees[n]
    <3>1. {n} \ {n} = {} /\ IsFiniteSet({n}) /\ \A x \in {n} : degrees[x] \in Int
      BY <1>9, <2>3
    <3>2. SumFunctionOnSet(degrees, {n}) = degrees[n] + SumFunctionOnSet(degrees, {n} \ {n})
      BY ONLY <3>1, SumSplit
    <3>3. degrees[n] \in Int
      BY <3>1
    <3> QED
      BY <3>1, <3>2, <3>3, SumEmpty
  <2>6. P[n + 1] = Sum(0 .. n) /\ P[n] = Sum(0 .. n - 1)
    BY <1>17, <2>1
  <2> QED
    BY <2>1, <2>2, <2>4, <2>5, <2>6
<1>21. P \in [0 .. numNodes -> Nat]
  <2>1. P = [i \in 0 .. size |-> P[i]]
    BY <1>15
  <2> QED
    BY <1>1, <1>18, <2>1
<1> QED
  BY <1>1, <1>14, <1>19, <1>20, <1>21 DEF IsPrefixSum

-----------------------------------------------------------------------------
(* The list of edges                                                       *)
InputOK == input \in Inputs /\ numNodes = FindMaxNodeID(input.el) + 1

\* A finite set of numbers that is not empty has a largest member.
LEMMA LargestNumber ==
  ASSUME NEW S \in SUBSET Int, IsFiniteSet(S), S # {}
  PROVE  \E n \in S : \A m \in S : m <= n
<1> DEFINE P == {T \in SUBSET S : T # {} => \E n \in T : \A m \in T : m <= n}
<1>1. {} \in P
  OBVIOUS
<1>2. ASSUME NEW T \in SUBSET S, NEW x \in S \ T, T \in P PROVE T \cup {x} \in P
  <2>1. CASE T = {}
    <3>1. T \cup {x} = {x} /\ x <= x
      BY <2>1
    <3> QED
      BY <3>1
  <2>2. CASE T # {}
    <3>1. PICK n \in T : \A m \in T : m <= n
      BY <1>2, <2>2
    <3>2. CASE x <= n
      BY <3>1, <3>2
    <3>3. CASE ~(x <= n)
      <4>1. \A m \in T \cup {x} : m <= x
        BY <3>1, <3>3
      <4> QED
        BY <4>1
    <3> QED
      BY <3>2, <3>3
  <2> QED
    BY <2>1, <2>2
<1> HIDE DEF P
<1>3. S \in P
  BY <1>1, <1>2, SetGrows
<1> QED
  BY <1>3 DEF P

\* What the assumption on the inputs and FindMaxNodeID say.
LEMMA InputFacts ==
  InputOK =>
    /\ numNodes \in Nat \ {0}
    /\ input.symmetrize \in BOOLEAN /\ input.inPlace \in BOOLEAN
    /\ input.el \in Seq(InputEdge)
    /\ DOMAIN input.el = 1 .. Len(input.el) /\ IsFiniteSet(DOMAIN input.el)
    /\ \A k \in DOMAIN input.el : /\ input.el[k].u \in Vertex /\ input.el[k].v \in Vertex
                                  /\ input.el[k].w \in Nat \ {0}
                                  /\ input.inPlace => input.el[k].w = 1
<1> SUFFICES ASSUME InputOK
             PROVE /\ numNodes \in Nat \ {0}
                   /\ input.symmetrize \in BOOLEAN /\ input.inPlace \in BOOLEAN
                   /\ input.el \in Seq(InputEdge)
                   /\ DOMAIN input.el = 1 .. Len(input.el) /\ IsFiniteSet(DOMAIN input.el)
                   /\ \A k \in DOMAIN input.el : /\ input.el[k].u \in Vertex /\ input.el[k].v \in Vertex
                                                 /\ input.el[k].w \in Nat \ {0}
                                                 /\ input.inPlace => input.el[k].w = 1
  OBVIOUS
<1>1. /\ input \in [el : Seq(InputEdge), symmetrize : BOOLEAN, inPlace : BOOLEAN]
      /\ input.el # <<>>
      /\ input.inPlace => \A k \in DOMAIN input.el : input.el[k].w = 1
  BY BuilderAssumption DEF InputOK
<1>2. PICK el : el = input.el
  OBVIOUS
<1>3. el \in Seq(InputEdge) /\ el # <<>>
  BY <1>1, <1>2
<1>4. DOMAIN el = 1 .. Len(el) /\ Len(el) \in Nat /\ \A k \in DOMAIN el : el[k] \in InputEdge
  BY <1>3
<1>5. Len(el) > 0
  BY <1>3, <1>4
<1>6. IsFiniteSet(DOMAIN el)
  BY <1>4, FS_Interval
<1>7. \A k \in DOMAIN el : el[k].u \in Nat /\ el[k].v \in Nat /\ el[k].w \in Nat \ {0}
  BY <1>4 DEF InputEdge
<1>8. PICK us : us = {el[k].u : k \in DOMAIN el}
  OBVIOUS
<1>9. PICK vs : vs = {el[k].v : k \in DOMAIN el}
  OBVIOUS
<1>10. IsFiniteSet(us)
  <2>1. PICK f : f = [k \in DOMAIN el |-> el[k].u]
    OBVIOUS
  <2>2. f \in Surjection(DOMAIN el, us)
    BY <1>8, <2>1 DEF Surjection
  <2> QED
    BY <1>6, <2>2, FS_Surjection
<1>11. IsFiniteSet(vs)
  <2>1. PICK f : f = [k \in DOMAIN el |-> el[k].v]
    OBVIOUS
  <2>2. f \in Surjection(DOMAIN el, vs)
    BY <1>9, <2>1 DEF Surjection
  <2> QED
    BY <1>6, <2>2, FS_Surjection
<1>12. IsFiniteSet(us \cup vs)
  BY <1>10, <1>11, FS_Union
<1>13. us \cup vs \subseteq Nat /\ us \cup vs # {}
  <2>1. us \subseteq Nat /\ vs \subseteq Nat
    BY <1>7, <1>8, <1>9
  <2>2. el[1].u \in us
    BY <1>4, <1>5, <1>8
  <2> QED
    BY <2>1, <2>2
<1>14. \E n \in us \cup vs : \A m \in us \cup vs : m <= n
  <2>1. us \cup vs \in SUBSET Int
    BY <1>13
  <2> QED
    BY <1>12, <1>13, <2>1, LargestNumber
<1>15. FindMaxNodeID(el) = CHOOSE n \in us \cup vs : \A m \in us \cup vs : m <= n
  BY <1>8, <1>9 DEF FindMaxNodeID
<1>16. FindMaxNodeID(el) \in us \cup vs /\ \A m \in us \cup vs : m <= FindMaxNodeID(el)
  BY <1>14, <1>15
<1>17. numNodes = FindMaxNodeID(el) + 1 /\ FindMaxNodeID(el) \in Nat
  BY <1>2, <1>13, <1>16 DEF InputOK
<1>18. \A k \in DOMAIN el : el[k].u \in us /\ el[k].v \in vs
  BY <1>8, <1>9
<1>19. \A k \in DOMAIN el : el[k].u \in Vertex /\ el[k].v \in Vertex
  <2> TAKE k \in DOMAIN el
  <2>1. /\ el[k].u \in Nat /\ el[k].u <= FindMaxNodeID(el)
        /\ el[k].v \in Nat /\ el[k].v <= FindMaxNodeID(el)
    BY <1>7, <1>16, <1>18
  <2> QED
    BY <1>17, <2>1 DEF Vertex
<1> QED
  BY <1>1, <1>2, <1>3, <1>4, <1>6, <1>7, <1>17, <1>19

-----------------------------------------------------------------------------
(* The two-pass builder. A token is an edge and which of its entries is    *)
(* meant; it belongs to the vertex at whose offsets it is stored.          *)
Entry(x) == Entries(input.el[x[1]])[x[2]]
Tokens == {x \in (DOMAIN input.el) \X {1, 2} : x[2] \in DOMAIN Entries(input.el[x[1]])}
TokensOf(n) == {x \in Tokens : Entry(x).of = n}

Degrees == CountDegrees(input.el, side = "in")

\* An edge has one or two entries, at vertices.
LEMMA EntryFacts ==
  ASSUME InputOK, side \in {"out", "in"}
  PROVE  /\ \A k \in DOMAIN input.el :
              /\ Len(Entries(input.el[k])) \in 1 .. 2
              /\ DOMAIN Entries(input.el[k]) = 1 .. Len(Entries(input.el[k]))
              /\ Entries(input.el[k]) \in Seq([of : Vertex, dest : [v : Vertex, w : Nat \ {0}]])
         /\ \A x \in Tokens : /\ Entry(x).of \in Vertex
                              /\ Entry(x).dest \in [v : Vertex, w : Nat \ {0}]
<1>1. ASSUME NEW k \in DOMAIN input.el
      PROVE  /\ Len(Entries(input.el[k])) \in 1 .. 2
             /\ DOMAIN Entries(input.el[k]) = 1 .. Len(Entries(input.el[k]))
             /\ Entries(input.el[k]) \in Seq([of : Vertex, dest : [v : Vertex, w : Nat \ {0}]])
  <2>1. input.el[k].u \in Vertex /\ input.el[k].v \in Vertex /\ input.el[k].w \in Nat \ {0}
    BY InputFacts
  <2>2. PICK f : f = [of |-> input.el[k].u, dest |-> Dest(input.el[k].v, input.el[k].w)]
    OBVIOUS
  <2>3. PICK b : b = [of |-> input.el[k].v, dest |-> Dest(input.el[k].u, input.el[k].w)]
    OBVIOUS
  <2>4. PICK D : D = [of : Vertex, dest : [v : Vertex, w : Nat \ {0}]]
    OBVIOUS
  <2>5. f \in D /\ b \in D
    BY <2>1, <2>2, <2>3, <2>4 DEF Dest
  <2>6. Entries(input.el[k]) \in {<<f, b>>, <<f>>, <<b>>}
    BY <2>2, <2>3 DEF Entries
  <2>7. PICK E : E = Entries(input.el[k])
    OBVIOUS
  <2>8. Len(E) \in 1 .. 2 /\ DOMAIN E = 1 .. Len(E) /\ E \in Seq(D)
    <3>1. CASE E = <<f, b>>
      BY <2>5, <3>1
    <3>2. CASE E = <<f>>
      BY <2>5, <3>2
    <3>3. CASE E = <<b>>
      BY <2>5, <3>3
    <3> QED
      BY <2>6, <2>7, <3>1, <3>2, <3>3
  <2> QED
    BY <2>4, <2>7, <2>8
<1>2. ASSUME NEW x \in Tokens
      PROVE  Entry(x).of \in Vertex /\ Entry(x).dest \in [v : Vertex, w : Nat \ {0}]
  <2>1. x[1] \in DOMAIN input.el /\ x[2] \in DOMAIN Entries(input.el[x[1]])
    BY DEF Tokens
  <2>2. PICK E : E = Entries(input.el[x[1]])
    OBVIOUS
  <2>3. PICK D : D = [of : Vertex, dest : [v : Vertex, w : Nat \ {0}]]
    OBVIOUS
  <2>4. E \in Seq(D) /\ x[2] \in DOMAIN E
    BY <1>1, <2>1, <2>2, <2>3
  <2>5. E[x[2]] \in D
    BY <2>4
  <2> QED
    BY <2>2, <2>3, <2>5 DEF Entry
<1> QED
  BY <1>1, <1>2

LEMMA TokensFinite ==
  ASSUME InputOK
  PROVE  IsFiniteSet(Tokens)
<1>1. IsFiniteSet({1, 2})
  <2>1. IsFiniteSet({1}) /\ {1} \cup {2} = {1, 2}
    BY FS_Singleton
  <2>2. IsFiniteSet({1} \cup {2})
    BY <2>1, FS_AddElement
  <2> QED
    BY <2>1, <2>2
<1>2. IsFiniteSet((DOMAIN input.el) \X {1, 2})
  BY <1>1, InputFacts, FS_Product
<1> QED
  BY <1>2, FS_Subset DEF Tokens

\* A degree is the number of the entries of its vertex.
LEMMA DegreesAreTokens ==
  ASSUME InputOK, ~input.inPlace, side \in {"out", "in"}, NEW n \in Vertex
  PROVE  Degrees[n] = Cardinality(TokensOf(n)) /\ Degrees[n] \in Nat
<1>1. PICK A : A = {k \in DOMAIN input.el : (input.symmetrize \/ side = "out") /\ input.el[k].u = n}
  OBVIOUS
<1>2. PICK B : B = {k \in DOMAIN input.el : (input.symmetrize \/ side = "in") /\ input.el[k].v = n}
  OBVIOUS
<1>3. Degrees[n] = Cardinality(A) + Cardinality(B)
  <2>1. PICK fwd : fwd = (input.symmetrize \/ ~(side = "in"))
    OBVIOUS
  <2>2. PICK bwd : bwd = ((input.symmetrize /\ ~input.inPlace) \/ (~input.symmetrize /\ side = "in"))
    OBVIOUS
  <2>3. Degrees[n] = Cardinality({k \in DOMAIN input.el : fwd /\ input.el[k].u = n})
                     + Cardinality({k \in DOMAIN input.el : bwd /\ input.el[k].v = n})
    BY <2>1, <2>2 DEF Degrees, CountDegrees
  <2>4. A = {k \in DOMAIN input.el : fwd /\ input.el[k].u = n}
    BY <1>1, <2>1
  <2>5. B = {k \in DOMAIN input.el : bwd /\ input.el[k].v = n}
    BY <1>2, <2>2
  <2> QED
    BY <2>3, <2>4, <2>5
<1>4. IsFiniteSet(A) /\ IsFiniteSet(B) /\ Cardinality(A) \in Nat /\ Cardinality(B) \in Nat
  <2>1. IsFiniteSet(DOMAIN input.el)
    BY InputFacts
  <2>2. IsFiniteSet(A) /\ IsFiniteSet(B)
    BY <1>1, <1>2, <2>1, FS_Subset
  <2> QED
    BY <2>2, FS_CardinalityType
<1>5. PICK i : i = IF input.symmetrize THEN 2 ELSE 1
  OBVIOUS
<1>6. PICK TA : TA = {<<k, 1>> : k \in A}
  OBVIOUS
<1>7. PICK TB : TB = {<<k, i>> : k \in B}
  OBVIOUS
<1>8. TokensOf(n) = TA \cup TB /\ TA \cap TB = {}
  <2>1. ASSUME NEW k \in DOMAIN input.el
        PROVE  /\ <<k, 1>> \in TokensOf(n) <=> k \in A \/ (i = 1 /\ k \in B)
               /\ <<k, 2>> \in TokensOf(n) <=> i = 2 /\ k \in B
    <3>1. PICK f : f = [of |-> input.el[k].u, dest |-> Dest(input.el[k].v, input.el[k].w)]
      OBVIOUS
    <3>2. PICK b : b = [of |-> input.el[k].v, dest |-> Dest(input.el[k].u, input.el[k].w)]
      OBVIOUS
    <3>3. Entries(input.el[k]) = IF input.symmetrize THEN <<f, b>> ELSE IF side = "out" THEN <<f>> ELSE <<b>>
      BY <3>1, <3>2 DEF Entries
    <3>4. /\ input.symmetrize => /\ DOMAIN Entries(input.el[k]) = 1 .. 2
                                 /\ Entries(input.el[k])[1] = f /\ Entries(input.el[k])[2] = b
          /\ ~input.symmetrize => /\ DOMAIN Entries(input.el[k]) = 1 .. 1
                                  /\ Entries(input.el[k])[1] = IF side = "out" THEN f ELSE b
      BY <3>3
    <3>5. \A j \in {1, 2} : <<k, j>> \in TokensOf(n)
             <=> j \in DOMAIN Entries(input.el[k]) /\ Entries(input.el[k])[j].of = n
      BY DEF TokensOf, Tokens, Entry
    <3>6. f.of = input.el[k].u /\ b.of = input.el[k].v
      BY <3>1, <3>2
    <3>7. CASE input.symmetrize
      BY <1>1, <1>2, <1>5, <3>4, <3>5, <3>6, <3>7
    <3>8. CASE ~input.symmetrize
      BY <1>1, <1>2, <1>5, <3>4, <3>5, <3>6, <3>8
    <3> QED
      BY <3>7, <3>8
  <2>2. \A x \in TokensOf(n) : \E k \in DOMAIN input.el : x = <<k, 1>> \/ x = <<k, 2>>
    BY DEF TokensOf, Tokens
  <2>3. A \subseteq DOMAIN input.el /\ B \subseteq DOMAIN input.el /\ i \in {1, 2}
    BY <1>1, <1>2, <1>5
  <2>4. i = 1 => A \cap B = {}
    BY <1>1, <1>2, <1>5
  <2>5. TokensOf(n) \subseteq TA \cup TB
    <3> SUFFICES ASSUME NEW x \in TokensOf(n) PROVE x \in TA \cup TB
      OBVIOUS
    <3>1. PICK k \in DOMAIN input.el : x = <<k, 1>> \/ x = <<k, 2>>
      BY <2>2
    <3>2. CASE x = <<k, 1>>
      BY <1>6, <1>7, <2>1, <3>2
    <3>3. CASE x = <<k, 2>>
      BY <1>6, <1>7, <2>1, <3>3
    <3> QED
      BY <3>1, <3>2, <3>3
  <2>6. TA \subseteq TokensOf(n)
    BY <1>6, <2>1, <2>3
  <2>7. TB \subseteq TokensOf(n)
    <3> SUFFICES ASSUME NEW k \in B PROVE <<k, i>> \in TokensOf(n)
      BY <1>7
    <3>1. CASE i = 1
      BY <2>1, <2>3, <3>1
    <3>2. CASE i = 2
      BY <2>1, <2>3, <3>2
    <3> QED
      BY <2>3, <3>1, <3>2
  <2>8. TA \cap TB = {}
    BY <1>6, <1>7, <2>3, <2>4
  <2> QED
    BY <2>5, <2>6, <2>7, <2>8
<1>9. IsFiniteSet(TA) /\ Cardinality(TA) = Cardinality(A)
  <2>1. PICK f : f = [k \in A |-> <<k, 1>>]
    OBVIOUS
  <2>2. f \in Bijection(A, TA)
    BY <1>6, <2>1 DEF Bijection, Injection, Surjection, IsInjective
  <2> QED
    BY <1>4, <2>2, FS_Bijection DEF ExistsBijection
<1>10. IsFiniteSet(TB) /\ Cardinality(TB) = Cardinality(B)
  <2>1. PICK f : f = [k \in B |-> <<k, i>>]
    OBVIOUS
  <2>2. f \in Bijection(B, TB)
    BY <1>7, <2>1 DEF Bijection, Injection, Surjection, IsInjective
  <2> QED
    BY <1>4, <2>2, FS_Bijection DEF ExistsBijection
<1>11. Cardinality(TokensOf(n)) = Cardinality(TA) + Cardinality(TB)
  <2>1. Cardinality(TA \cup TB) = Cardinality(TA) + Cardinality(TB) - Cardinality(TA \cap TB)
    BY <1>9, <1>10, FS_Union
  <2>2. Cardinality(TA \cap TB) = 0
    BY <1>8, FS_EmptySet
  <2> QED
    BY <1>4, <1>8, <1>9, <1>10, <2>1, <2>2
<1> QED
  BY <1>3, <1>4, <1>9, <1>10, <1>11

\* Sums of degrees do not fall.
LEMMA PrefixGrows ==
  ASSUME numNodes \in Nat \ {0}, NEW degrees, \A n \in Vertex : degrees[n] \in Nat,
         NEW P, IsPrefixSum(P, degrees), NEW i \in 0 .. numNodes, NEW j \in i .. numNodes
  PROVE  P[i] <= P[j] /\ P[i] \in Nat /\ P[j] \in Nat
<1> DEFINE Q == {d \in Nat : i + d <= numNodes => P[i] <= P[i + d]}
<1>1. P \in [0 .. numNodes -> Nat] /\ \A n \in Vertex : P[n + 1] = P[n] + degrees[n]
  BY DEF IsPrefixSum
<1>2. 0 \in Q
  <2>1. i + 0 = i /\ P[i] \in Nat
    BY <1>1
  <2> QED
    BY <2>1
<1>3. ASSUME NEW d \in Nat, d \in Q PROVE d + 1 \in Q
  <2> SUFFICES ASSUME i + (d + 1) <= numNodes PROVE P[i] <= P[i + (d + 1)]
    OBVIOUS
  <2>1. i + d \in Vertex /\ i + d \in 0 .. numNodes /\ i + (d + 1) = (i + d) + 1 /\ i + d <= numNodes
    BY DEF Vertex
  <2>2. P[i] <= P[i + d] /\ P[(i + d) + 1] = P[i + d] + degrees[i + d] /\ degrees[i + d] \in Nat
    BY <1>1, <1>3, <2>1
  <2>3. P[i] \in Nat /\ P[i + d] \in Nat
    BY <1>1, <2>1
  <2> QED
    BY <2>1, <2>2, <2>3
<1> HIDE DEF Q
<1>4. Nat \subseteq Q
  BY <1>2, <1>3, NatSetInduction
<1>5. j - i \in Nat /\ i + (j - i) = j /\ j <= numNodes /\ j \in 0 .. numNodes
  OBVIOUS
<1>6. P[i] <= P[j]
  <2>1. j - i \in Q
    BY <1>4, <1>5
  <2> QED
    BY <1>5, <2>1 DEF Q
<1> QED
  BY <1>1, <1>5, <1>6

LEMMA TailFacts ==
  ASSUME NEW D, NEW s \in Seq(D), s # <<>>
  PROVE  /\ Len(s) \in Nat \ {0} /\ DOMAIN s = 1 .. Len(s)
         /\ Head(s) = s[1] /\ Head(s) \in D
         /\ Tail(s) \in Seq(D) /\ Len(Tail(s)) = Len(s) - 1
         /\ \A i \in 1 .. Len(s) - 1 : Tail(s)[i] = s[i + 1]
         /\ Tail(s) = <<>> <=> Len(s) = 1
<1>1. Len(s) \in Nat \ {0} /\ DOMAIN s = 1 .. Len(s)
  OBVIOUS
<1>2. Head(s) = s[1] /\ s[1] \in D
  BY <1>1
<1>3. PICK t : t = Tail(s)
  OBVIOUS
<1>4. t \in Seq(D) /\ Len(t) = Len(s) - 1
  BY <1>1, <1>3
<1>5. \A i \in 1 .. Len(s) - 1 : t[i] = s[i + 1]
  BY <1>1, <1>3
<1>6. t = <<>> <=> Len(t) = 0
  <2>1. t = <<>> => Len(t) = 0
    OBVIOUS
  <2>2. ASSUME Len(t) = 0 PROVE t = <<>>
    <3>1. t \in Seq(D)
      BY <1>4
    <3> QED
      BY ONLY <2>2, <3>1
  <2> QED
    BY <2>1, <2>2
<1> QED
  BY <1>1, <1>2, <1>3, <1>4, <1>5, <1>6

(* The state of the copy loop. U are the tokens that are still to get a    *)
(* place, cur is what each thread is about, and place is where the entry   *)
(* of a token goes, which nobody else's does.                              *)
Start == csr[side].index

CopyThread(th, c, U, place) ==
  \/ th = Idle
  \/ /\ c \in Tokens /\ c[1] \notin todo
     /\ \/ th.at = "claim" /\ c \in U
        \/ th.at = "store" /\ c \notin U /\ th.place = place[c]
     /\ th.left \in Seq({Entry(x) : x \in Tokens})
     /\ Len(th.left) = Len(Entries(input.el[c[1]])) - c[2] + 1
     /\ \A j \in 1 .. Len(th.left) : th.left[j] = Entry(<<c[1], c[2] + j - 1>>)
     /\ \A x \in Tokens : x[1] = c[1] /\ x[2] # c[2] => (x \in U <=> x[2] > c[2])

Copying(U, cur, place) ==
  /\ U \subseteq Tokens
  /\ \A x \in Tokens : x[1] \in todo => x \in U
  /\ \A x \in U : x[1] \in todo \/ \E t \in Threads : thread[t] # Idle /\ cur[t][1] = x[1]
  /\ \A t \in Threads : CopyThread(thread[t], cur[t], U, place)
  /\ \A s, t \in Threads : s # t /\ thread[s] # Idle /\ thread[t] # Idle => cur[s][1] # cur[t][1]
  /\ \A n \in Vertex : offsets[n] = Start[n] + Cardinality(TokensOf(n) \ U)
  /\ \A x \in Tokens \ U : place[x] \in Start[Entry(x).of] .. offsets[Entry(x).of] - 1
  /\ \A x, y \in Tokens \ U : place[x] = place[y] => x = y
  /\ \A x \in Tokens \ U : \/ neighs[place[x]] = Entry(x).dest
                           \/ \E t \in Threads : thread[t] # Idle /\ thread[t].at = "store" /\ cur[t] = x

CopyTypes ==
  /\ InputOK /\ ~input.inPlace
  /\ stage = "copy" /\ side \in {"out", "in"} /\ todo \subseteq DOMAIN input.el
  /\ DOMAIN thread = Threads /\ DOMAIN csr = {"out", "in"}
  /\ IsPrefixSum(Start, Degrees)
  /\ offsets \in [0 .. numNodes -> Nat]
  /\ DOMAIN neighs = 0 .. Start[numNodes] - 1

LEMMA TokenStands ==
  ASSUME CopyTypes, NEW n \in Vertex, NEW U
  PROVE  /\ Cardinality(TokensOf(n) \ U) \in Nat
         /\ Cardinality(TokensOf(n) \ U) <= Degrees[n]
         /\ (\E x \in TokensOf(n) : x \in U) => Cardinality(TokensOf(n) \ U) < Degrees[n]
         /\ Start[n] \in Nat /\ Start[n] + Degrees[n] <= Start[numNodes]
         /\ Start[numNodes] \in Nat /\ Degrees[n] \in Nat
<1>1. InputOK /\ ~input.inPlace /\ side \in {"out", "in"} /\ IsPrefixSum(Start, Degrees)
  BY DEF CopyTypes
<1>2. Degrees[n] = Cardinality(TokensOf(n)) /\ Degrees[n] \in Nat
  BY <1>1, DegreesAreTokens
<1>3. PICK T : T = TokensOf(n)
  OBVIOUS
<1>4. IsFiniteSet(T)
  <2>1. T \subseteq Tokens
    BY <1>3 DEF TokensOf
  <2> QED
    BY <1>1, <2>1, TokensFinite, FS_Subset
<1>5. T \ U \subseteq T /\ Cardinality(T \ U) <= Cardinality(T) /\ (Cardinality(T) = Cardinality(T \ U) => T = T \ U)
  <2>1. T \ U \in SUBSET T
    OBVIOUS
  <2> QED
    BY <1>4, <2>1, FS_Subset
<1>6. /\ Cardinality(T \ U) \in Nat /\ Cardinality(T \ U) <= Degrees[n]
      /\ (\E x \in T : x \in U) => Cardinality(T \ U) < Degrees[n]
  <2>1. Cardinality(T \ U) \in Nat
    BY <1>4, <1>5, FS_Subset, FS_CardinalityType
  <2> QED
    BY <1>2, <1>3, <1>5, <2>1
<1>7. numNodes \in Nat \ {0}
  BY <1>1, InputFacts
<1>8. \A k \in Vertex : Degrees[k] \in Nat
  BY <1>1, DegreesAreTokens
<1>9. n + 1 \in 0 .. numNodes /\ numNodes \in n + 1 .. numNodes /\ n \in 0 .. numNodes
  BY <1>7 DEF Vertex
<1>10. Start[n + 1] <= Start[numNodes] /\ Start[n + 1] \in Nat /\ Start[numNodes] \in Nat
  <2>1. PICK P : P = Start
    OBVIOUS
  <2>2. PICK d : d = Degrees
    OBVIOUS
  <2>3. IsPrefixSum(P, d) /\ \A k \in Vertex : d[k] \in Nat
    BY <1>1, <1>8, <2>1, <2>2
  <2>4. P[n + 1] <= P[numNodes] /\ P[n + 1] \in Nat /\ P[numNodes] \in Nat
    BY <1>7, <1>9, <2>3, PrefixGrows
  <2> QED
    BY <2>1, <2>4
<1>11. Start[n + 1] = Start[n] + Degrees[n] /\ Start[n] \in Nat
  BY <1>1, <1>9 DEF IsPrefixSum
<1> QED
  BY <1>2, <1>3, <1>6, <1>10, <1>11

\* What the entries and tokens depend on.
LEMMA SameTokens ==
  input' = input /\ side' = side /\ numNodes' = numNodes
    => /\ Tokens' = Tokens /\ Vertex' = Vertex /\ Degrees' = Degrees
       /\ \A x : Entry(x)' = Entry(x)
       /\ \A e : Entries(e)' = Entries(e)
       /\ \A n : TokensOf(n)' = TokensOf(n)
<1> SUFFICES ASSUME input' = input, side' = side, numNodes' = numNodes
             PROVE /\ Tokens' = Tokens /\ Vertex' = Vertex /\ Degrees' = Degrees
                   /\ \A x : Entry(x)' = Entry(x)
                   /\ \A e : Entries(e)' = Entries(e)
                   /\ \A n : TokensOf(n)' = TokensOf(n)
  OBVIOUS
<1>1. \A e : Entries(e)' = Entries(e)
  BY DEF Entries
<1>2. \A x : Entry(x)' = Entry(x)
  BY <1>1 DEF Entry
<1>3. Tokens' = Tokens
  BY <1>1 DEF Tokens
<1>4. Vertex' = Vertex
  BY DEF Vertex
<1>5. Degrees' = Degrees
  BY <1>4 DEF Degrees, CountDegrees
<1>6. \A n : TokensOf(n)' = TokensOf(n)
  BY <1>2, <1>3 DEF TokensOf
<1> QED
  BY <1>1, <1>2, <1>3, <1>4, <1>5, <1>6

\* Another edge is taken.
LEMMA TakeStep ==
  ASSUME CopyTypes, NEW U, NEW cur, NEW place, Copying(U, cur, place),
         NEW t \in Threads, NEW k \in todo, TakeEdge(t, k)
  PROVE  CopyTypes' /\ \E c : Copying(U, c, place)'
<1>1. PICK c : c = [s \in Threads |-> IF s = t THEN <<k, 1>> ELSE cur[s]]
  OBVIOUS
<1>2. /\ stage = "copy" /\ thread[t] = Idle /\ k \in todo
      /\ todo' = todo \ {k}
      /\ thread' = [thread EXCEPT ![t] = [at |-> "claim", left |-> Entries(input.el[k])]]
      /\ input' = input /\ numNodes' = numNodes /\ stage' = stage /\ side' = side
      /\ offsets' = offsets /\ neighs' = neighs /\ csr' = csr
  BY DEF TakeEdge
<1>3. /\ InputOK /\ ~input.inPlace /\ side \in {"out", "in"} /\ todo \subseteq DOMAIN input.el
      /\ DOMAIN thread = Threads
  BY DEF CopyTypes
<1>4. /\ Tokens' = Tokens /\ Vertex' = Vertex /\ Degrees' = Degrees /\ Start' = Start
      /\ \A x : Entry(x)' = Entry(x)
      /\ \A n : TokensOf(n)' = TokensOf(n)
      /\ \A e : Entries(e)' = Entries(e)
  BY <1>2, SameTokens DEF Start
<1>5. CopyTypes'
  BY <1>2, <1>3, <1>4 DEF CopyTypes, InputOK, IsPrefixSum, Vertex
<1>6. PICK E : E = Entries(input.el[k])
  OBVIOUS
<1>7. /\ Len(E) \in 1 .. 2 /\ DOMAIN E = 1 .. Len(E)
      /\ E \in Seq([of : Vertex, dest : [v : Vertex, w : Nat \ {0}]])
  BY <1>2, <1>3, <1>6, EntryFacts
<1>8. \A j \in 1 .. Len(E) : <<k, j>> \in Tokens /\ Entry(<<k, j>>) = E[j]
  <2> TAKE j \in 1 .. Len(E)
  <2>0. k \in DOMAIN input.el
    BY <1>2, <1>3
  <2>1. j \in {1, 2} /\ j \in DOMAIN E
    BY <1>7
  <2> QED
    BY <1>6, <2>0, <2>1 DEF Tokens, Entry
<1>9. PICK th : th = [at |-> "claim", left |-> E]
  OBVIOUS
<1>10. thread'[t] = th /\ th # Idle /\ th.at = "claim" /\ th.left = E
  BY <1>2, <1>3, <1>6, <1>9 DEF Idle
<1>11. \A s \in Threads : s # t => thread'[s] = thread[s] /\ c[s] = cur[s]
  BY <1>1, <1>2, <1>3
<1>12. c[t] = <<k, 1>>
  BY <1>1
<1>13. \A s \in Threads : CopyThread(thread[s], cur[s], U, place)
  BY DEF Copying
<1>14. \A s \in Threads : thread[s] # Idle => cur[s][1] \notin todo
  BY <1>13 DEF CopyThread
<1>15. \A x \in Tokens : x[1] = k => x \in U
  BY DEF Copying
<1>16. CopyThread(th, <<k, 1>>, U, place)'
  <2>1. <<k, 1>> \in Tokens' /\ k \notin todo' /\ <<k, 1>> \in U
    <3>1. <<k, 1>> \in Tokens
      BY <1>7, <1>8
    <3>2. <<k, 1>>[1] = k
      OBVIOUS
    <3> QED
      BY <1>2, <1>4, <1>15, <3>1, <3>2
  <2>2. E \in Seq({Entry(x) : x \in Tokens})
    <3>1. \A j \in 1 .. Len(E) : E[j] \in {Entry(x) : x \in Tokens}
      BY <1>8
    <3> QED
      BY <1>7, <3>1
  <2>3. Len(E) = Len(Entries(input.el[k])) - 1 + 1
    BY <1>6, <1>7
  <2>4. \A j \in 1 .. Len(E) : E[j] = Entry(<<k, 1 + j - 1>>)
    <3> TAKE j \in 1 .. Len(E)
    <3>1. 1 + j - 1 = j
      BY <1>7
    <3> QED
      BY <1>8, <3>1
  <2>5. \A x \in Tokens : x[1] = k /\ x[2] # 1 => (x \in U <=> x[2] > 1)
    <3> SUFFICES ASSUME NEW x \in Tokens, x[1] = k, x[2] # 1 PROVE x \in U /\ x[2] > 1
      OBVIOUS
    <3>1. x[2] \in {1, 2}
      BY DEF Tokens
    <3> QED
      BY <1>15, <3>1
  <2>6. PICK d : d = <<k, 1>>
    OBVIOUS
  <2>7. d[1] = k /\ d[2] = 1
    BY <2>6
  <2>8. {Entry(x) : x \in Tokens}' = {Entry(x) : x \in Tokens}
    BY <1>4
  <2>9. CopyThread(th, d, U, place)'
    BY <1>2, <1>4, <1>10, <2>1, <2>2, <2>3, <2>4, <2>5, <2>6, <2>7, <2>8 DEF CopyThread
  <2> QED
    BY <2>6, <2>9
<1>17. \A s \in Threads : s # t => CopyThread(thread[s], cur[s], U, place)'
  <2> SUFFICES ASSUME NEW s \in Threads, s # t PROVE CopyThread(thread[s], cur[s], U, place)'
    OBVIOUS
  <2>1. PICK h : h = thread[s]
    OBVIOUS
  <2>2. CopyThread(h, cur[s], U, place)
    BY <1>13, <2>1
  <2>3. {Entry(x) : x \in Tokens}' = {Entry(x) : x \in Tokens}
    BY <1>4
  <2>4. CopyThread(h, cur[s], U, place)'
    BY <1>2, <1>4, <2>2, <2>3 DEF CopyThread
  <2> QED
    BY <1>11, <2>1, <2>4
<1>18. Copying(U, c, place)'
  <2>1. U \subseteq Tokens' /\ \A x \in Tokens' : x[1] \in todo' => x \in U
    BY <1>2, <1>4 DEF Copying
  <2>2. \A x \in U : x[1] \in todo' \/ \E s \in Threads : thread'[s] # Idle /\ c[s][1] = x[1]
    <3> TAKE x \in U
    <3>1. CASE x[1] = k
      BY <1>10, <1>12, <3>1
    <3>2. CASE x[1] # k
      <4>1. x[1] \in todo \/ \E s \in Threads : thread[s] # Idle /\ cur[s][1] = x[1]
        BY DEF Copying
      <4>2. ASSUME NEW s \in Threads, thread[s] # Idle, cur[s][1] = x[1]
            PROVE  thread'[s] # Idle /\ c[s][1] = x[1]
        BY <1>2, <1>11, <4>2
      <4> QED
        BY <1>2, <3>2, <4>1, <4>2
    <3> QED
      BY <3>1, <3>2
  <2>3. \A s \in Threads : CopyThread(thread[s], c[s], U, place)'
    <3> TAKE s \in Threads
    <3>1. CASE s = t
      BY <1>10, <1>12, <1>16, <3>1
    <3>2. CASE s # t
      BY <1>11, <1>17, <3>2
    <3> QED
      BY <3>1, <3>2
  <2>4. \A r, s \in Threads : r # s /\ thread'[r] # Idle /\ thread'[s] # Idle => c[r][1] # c[s][1]
    <3>1. \A s \in Threads : s # t /\ thread'[s] # Idle => c[s][1] # k
      BY <1>11, <1>14
    <3>2. \A r, s \in Threads : r # s /\ thread[r] # Idle /\ thread[s] # Idle => cur[r][1] # cur[s][1]
      BY DEF Copying
    <3>3. c[t][1] = k
      BY <1>12
    <3> QED
      BY <1>11, <3>1, <3>2, <3>3
  <2>5. \A x \in Tokens \ U : \/ neighs[place[x]] = Entry(x).dest
                              \/ \E s \in Threads : thread'[s] # Idle /\ thread'[s].at = "store" /\ c[s] = x
    <3> TAKE x \in Tokens \ U
    <3>1. \/ neighs[place[x]] = Entry(x).dest
          \/ \E s \in Threads : thread[s] # Idle /\ thread[s].at = "store" /\ cur[s] = x
      BY DEF Copying
    <3> QED
      BY <1>2, <1>11, <3>1
  <2>6. /\ \A n \in Vertex : offsets[n] = Start[n] + Cardinality(TokensOf(n) \ U)
        /\ \A x \in Tokens \ U : place[x] \in Start[Entry(x).of] .. offsets[Entry(x).of] - 1
        /\ \A x, y \in Tokens \ U : place[x] = place[y] => x = y
    BY DEF Copying
  <2> QED
    BY <1>2, <1>4, <2>1, <2>2, <2>3, <2>4, <2>5, <2>6 DEF Copying
<1> QED
  BY <1>5, <1>18

LEMMA StartGrows ==
  ASSUME InputOK, ~input.inPlace, side \in {"out", "in"}, IsPrefixSum(Start, Degrees),
         NEW m \in Vertex, NEW n \in Vertex, m < n
  PROVE  Start[m + 1] <= Start[n] /\ Start[m + 1] \in Nat /\ Start[n] \in Nat
<1>1. numNodes \in Nat \ {0}
  BY InputFacts
<1>2. PICK P : P = Start
  OBVIOUS
<1>3. PICK d : d = Degrees
  OBVIOUS
<1>4. IsPrefixSum(P, d) /\ \A k \in Vertex : d[k] \in Nat
  BY <1>2, <1>3, DegreesAreTokens
<1>5. m + 1 \in 0 .. numNodes /\ n \in m + 1 .. numNodes
  BY <1>1 DEF Vertex
<1>6. P[m + 1] <= P[n] /\ P[m + 1] \in Nat /\ P[n] \in Nat
  BY <1>1, <1>4, <1>5, PrefixGrows
<1> QED
  BY <1>2, <1>6

\* A thread claims the next place of the vertex at whose offsets the entry
\* it is about is stored, with one fetch_and_add.
LEMMA ClaimStep ==
  ASSUME CopyTypes, NEW U, NEW cur, NEW place, Copying(U, cur, place),
         NEW t \in Threads, ClaimPlace(t)
  PROVE  CopyTypes' /\ \E V, q : Copying(V, cur, q)'
<1>0. PICK c : c = cur[t]
  OBVIOUS
<1>1. \A s \in Threads : CopyThread(thread[s], cur[s], U, place)
  BY DEF Copying
<1>2. thread[t].at = "claim"
  BY DEF ClaimPlace
<1>3. thread[t] # Idle
  BY <1>2 DEF Idle
<1>4. PICK left : left = thread[t].left
  OBVIOUS
<1>5. /\ c \in Tokens /\ c[1] \notin todo /\ c \in U
      /\ left \in Seq({Entry(x) : x \in Tokens})
      /\ Len(left) = Len(Entries(input.el[c[1]])) - c[2] + 1
      /\ \A j \in 1 .. Len(left) : left[j] = Entry(<<c[1], c[2] + j - 1>>)
      /\ \A x \in Tokens : x[1] = c[1] /\ x[2] # c[2] => (x \in U <=> x[2] > c[2])
  BY <1>0, <1>1, <1>2, <1>3, <1>4 DEF CopyThread
<1>6. /\ InputOK /\ ~input.inPlace /\ side \in {"out", "in"} /\ todo \subseteq DOMAIN input.el
      /\ DOMAIN thread = Threads /\ stage = "copy" /\ offsets \in [0 .. numNodes -> Nat]
      /\ DOMAIN neighs = 0 .. Start[numNodes] - 1 /\ IsPrefixSum(Start, Degrees)
  BY DEF CopyTypes
<1>7. Head(left) = Entry(c) /\ left # <<>>
  <2>1. c[2] \in 1 .. Len(Entries(input.el[c[1]])) /\ Len(Entries(input.el[c[1]])) \in 1 .. 2 /\ c = <<c[1], c[2]>>
    <3>1. c[1] \in DOMAIN input.el /\ c[2] \in DOMAIN Entries(input.el[c[1]]) /\ c = <<c[1], c[2]>>
      BY <1>5 DEF Tokens
    <3> QED
      BY <1>6, <3>1, EntryFacts
  <2>2. Len(left) \in Nat /\ 1 \in 1 .. Len(left) /\ c[2] + 1 - 1 = c[2]
    BY <1>5, <2>1
  <2>3. left # <<>>
    BY <2>2
  <2>4. left[1] = Entry(c)
    BY <1>5, <2>1, <2>2
  <2> QED
    BY <1>5, <2>3, <2>4, TailFacts
<1>8. PICK n : n = Entry(c).of
  OBVIOUS
<1>9. n \in Vertex
  BY <1>5, <1>6, <1>8, EntryFacts
<1>10. /\ offsets' = [offsets EXCEPT ![n] = @ + 1]
       /\ thread' = [thread EXCEPT ![t] = [at |-> "store", left |-> thread[t].left, place |-> offsets[n]]]
       /\ input' = input /\ numNodes' = numNodes /\ stage' = stage /\ side' = side
       /\ todo' = todo /\ neighs' = neighs /\ csr' = csr
  BY <1>4, <1>7, <1>8 DEF ClaimPlace
<1>11. /\ Tokens' = Tokens /\ Vertex' = Vertex /\ Degrees' = Degrees /\ Start' = Start
       /\ \A x : Entry(x)' = Entry(x)
       /\ \A m : TokensOf(m)' = TokensOf(m)
       /\ \A e : Entries(e)' = Entries(e)
  BY <1>10, SameTokens DEF Start
<1>12. n \in 0 .. numNodes /\ numNodes \in Nat \ {0}
  BY <1>6, <1>9, InputFacts DEF Vertex
<1>13. offsets' \in [0 .. numNodes -> Nat] /\ offsets'[n] = offsets[n] + 1
       /\ \A m \in 0 .. numNodes : m # n => offsets'[m] = offsets[m]
  BY <1>6, <1>10, <1>12
<1>14. CopyTypes'
  BY <1>6, <1>10, <1>11, <1>13 DEF CopyTypes, InputOK, IsPrefixSum, Vertex
<1>15. PICK V : V = U \ {c}
  OBVIOUS
<1>16. PICK o : o = offsets[n]
  OBVIOUS
<1>17. PICK q : q = [x \in Tokens |-> IF x = c THEN o ELSE place[x]]
  OBVIOUS
<1>18. q[c] = o /\ \A x \in Tokens : x # c => q[x] = place[x]
  BY <1>5, <1>17
<1>19. PICK th : th = [at |-> "store", left |-> left, place |-> o]
  OBVIOUS
<1>20. thread'[t] = th /\ th # Idle /\ th.at = "store" /\ th.left = left /\ th.place = o
  BY <1>4, <1>6, <1>10, <1>16, <1>19 DEF Idle
<1>21. \A s \in Threads : s # t => thread'[s] = thread[s]
  BY <1>6, <1>10
<1>22. U \subseteq Tokens
  BY DEF Copying
<1>23. \A x \in Tokens : x \notin V <=> x \notin U \/ x = c
  BY <1>5, <1>15
<1>24. \A s \in Threads : s # t /\ thread[s] # Idle => cur[s][1] # c[1] /\ cur[s] # c
  BY <1>0, <1>3 DEF Copying
<1>25. {Entry(x) : x \in Tokens}' = {Entry(x) : x \in Tokens}
  BY <1>11
<1>26. CopyThread(th, c, V, q)'
  BY <1>5, <1>10, <1>11, <1>15, <1>18, <1>20, <1>25 DEF CopyThread
<1>27. \A s \in Threads : s # t => CopyThread(thread[s], cur[s], V, q)'
  <2> SUFFICES ASSUME NEW s \in Threads, s # t PROVE CopyThread(thread[s], cur[s], V, q)'
    OBVIOUS
  <2>1. PICK h : h = thread[s]
    OBVIOUS
  <2>2. PICK d : d = cur[s]
    OBVIOUS
  <2>3. CASE h = Idle
    BY <1>21, <2>1, <2>3 DEF CopyThread, Idle
  <2>4. CASE h # Idle
    <3>1. /\ d \in Tokens /\ d[1] \notin todo
          /\ \/ h.at = "claim" /\ d \in U
             \/ h.at = "store" /\ d \notin U /\ h.place = place[d]
          /\ h.left \in Seq({Entry(x) : x \in Tokens})
          /\ Len(h.left) = Len(Entries(input.el[d[1]])) - d[2] + 1
          /\ \A j \in 1 .. Len(h.left) : h.left[j] = Entry(<<d[1], d[2] + j - 1>>)
          /\ \A x \in Tokens : x[1] = d[1] /\ x[2] # d[2] => (x \in U <=> x[2] > d[2])
      BY <1>1, <2>1, <2>2, <2>4 DEF CopyThread
    <3>2. d[1] # c[1] /\ d # c
      BY <1>24, <2>1, <2>2, <2>4
    <3>3. q[d] = place[d] /\ (d \in V <=> d \in U)
      BY <1>15, <1>18, <3>1, <3>2
    <3>4. \A x \in Tokens : x[1] = d[1] => (x \in V <=> x \in U)
      BY <1>15, <3>2
    <3>5. CopyThread(h, d, V, q)'
      BY <1>10, <1>11, <1>25, <3>1, <3>3, <3>4 DEF CopyThread
    <3> QED
      BY <1>21, <2>1, <2>2, <3>5
  <2> QED
    BY <2>3, <2>4
<1>28. offsets[n] = Start[n] + Cardinality(TokensOf(n) \ U) /\ offsets[n] \in Nat
  BY <1>6, <1>9, <1>12 DEF Copying
<1>29. \A m \in Vertex : offsets'[m] = Start[m] + Cardinality(TokensOf(m) \ V)
  <2> TAKE m \in Vertex
  <2>1. CASE m = n
    <3>1. PICK T : T = TokensOf(n) \ U
      OBVIOUS
    <3>2. TokensOf(n) \ V = T \cup {c} /\ c \notin T
      BY <1>5, <1>8, <1>15, <3>1 DEF TokensOf
    <3>3. IsFiniteSet(T)
      <4>1. T \subseteq Tokens /\ IsFiniteSet(Tokens)
        BY <1>6, <3>1, TokensFinite DEF TokensOf
      <4> QED
        BY <4>1, FS_Subset
    <3>4. Cardinality(T \cup {c}) = Cardinality(T) + 1 /\ Cardinality(T) \in Nat
      BY <3>2, <3>3, FS_AddElement, FS_CardinalityType
    <3>5. Start[n] \in Nat
      BY <1>6, <1>12 DEF IsPrefixSum
    <3>6. offsets[n] = Start[n] + Cardinality(T)
      BY <1>28, <3>1
    <3>7. Start[n] + Cardinality(TokensOf(n) \ V) = offsets[n] + 1
      <4>1. PICK k : k = Cardinality(T)
        OBVIOUS
      <4>2. Cardinality(TokensOf(n) \ V) = k + 1 /\ k \in Nat /\ offsets[n] = Start[n] + k
        BY <3>2, <3>4, <3>6, <4>1
      <4>3. Start[n] + (k + 1) = (Start[n] + k) + 1
        BY <3>5, <4>2
      <4> QED
        BY <4>2, <4>3
    <3> QED
      BY <1>13, <2>1, <3>7
  <2>2. CASE m # n
    <3>1. TokensOf(m) \ V = TokensOf(m) \ U
      BY <1>8, <1>15, <2>2 DEF TokensOf
    <3>2. offsets'[m] = offsets[m]
      BY <1>12, <1>13, <2>2 DEF Vertex
    <3> QED
      BY <3>1, <3>2 DEF Copying
  <2> QED
    BY <2>1, <2>2
<1>30. \A x \in Tokens \ U : /\ place[x] \in Start[Entry(x).of] .. offsets[Entry(x).of] - 1
                             /\ place[x] \in Int
  BY DEF Copying
<1>31. \A x \in Tokens : Entry(x).of \in Vertex /\ Entry(x).of \in 0 .. numNodes
  BY <1>6, <1>12, EntryFacts DEF Vertex
<1>32. \A m \in 0 .. numNodes : offsets[m] \in Int /\ Start[m] \in Int /\ offsets'[m] \in Int /\ offsets[m] <= offsets'[m]
  <2> TAKE m \in 0 .. numNodes
  <2>1. offsets[m] \in Nat /\ Start[m] \in Nat /\ offsets'[m] \in Nat
    BY <1>6, <1>13 DEF IsPrefixSum
  <2>2. CASE m = n
    BY <1>13, <2>1, <2>2
  <2>3. CASE m # n
    BY <1>13, <2>1, <2>3
  <2> QED
    BY <2>1, <2>2, <2>3
<1>33. \A x \in Tokens \ V : q[x] \in Start[Entry(x).of] .. offsets'[Entry(x).of] - 1
  <2> TAKE x \in Tokens \ V
  <2>1. CASE x = c
    <3>1. o \in Start[n] .. offsets'[n] - 1
      <4>1. Cardinality(TokensOf(n) \ U) \in Nat
        <5>1. TokensOf(n) \ U \subseteq Tokens /\ IsFiniteSet(Tokens)
          BY <1>6, TokensFinite DEF TokensOf
        <5> QED
          BY <5>1, FS_Subset, FS_CardinalityType
      <4> QED
        BY <1>12, <1>13, <1>16, <1>28, <1>32, <4>1
    <3> QED
      BY <1>8, <1>18, <2>1, <3>1
  <2>2. CASE x # c
    <3>1. x \in Tokens \ U /\ q[x] = place[x]
      BY <1>18, <1>23, <2>2
    <3>2. PICK m : m = Entry(x).of
      OBVIOUS
    <3>3. m \in 0 .. numNodes /\ place[x] \in Start[m] .. offsets[m] - 1
      BY <1>30, <1>31, <3>1, <3>2
    <3>4. place[x] \in Start[m] .. offsets'[m] - 1
      BY <1>32, <3>3
    <3> QED
      BY <3>1, <3>2, <3>4
  <2> QED
    BY <2>1, <2>2
<1>34. \A x \in Tokens \ U : place[x] # o
  <2> SUFFICES ASSUME NEW x \in Tokens \ U, place[x] = o PROVE FALSE
    OBVIOUS
  <2>1. PICK m : m = Entry(x).of
    OBVIOUS
  <2>2. m \in Vertex /\ o \in Start[m] .. offsets[m] - 1
    BY <1>30, <1>31, <2>1
  <2>3. m # n
    BY <1>12, <1>16, <1>28, <1>32, <2>2
  <2>4. o < Start[n] + Degrees[n] /\ o >= Start[n] /\ Degrees[n] \in Nat
    <3>1. \E y \in TokensOf(n) : y \in U
      BY <1>5, <1>8 DEF TokensOf
    <3>2. PICK k : k = Cardinality(TokensOf(n) \ U)
      OBVIOUS
    <3>3. k \in Nat /\ k < Degrees[n] /\ Start[n] \in Nat /\ Degrees[n] \in Nat
      BY <1>9, <3>1, <3>2, TokenStands
    <3> QED
      BY <1>16, <1>28, <3>2, <3>3
  <2>5. o < Start[m] + Degrees[m] /\ o >= Start[m] /\ Degrees[m] \in Nat
    <3>1. PICK k : k = Cardinality(TokensOf(m) \ U)
      OBVIOUS
    <3>2. k \in Nat /\ k <= Degrees[m] /\ Start[m] \in Nat /\ Degrees[m] \in Nat
      BY <2>2, <3>1, TokenStands
    <3>3. offsets[m] = Start[m] + k
      BY <2>2, <3>1 DEF Copying
    <3> QED
      BY <2>2, <3>2, <3>3
  <2>6. Start[m] + Degrees[m] = Start[m + 1] /\ Start[n] + Degrees[n] = Start[n + 1]
    BY <1>6, <1>9, <2>2 DEF IsPrefixSum
  <2>7. m < n \/ n < m
    BY <1>9, <2>2, <2>3 DEF Vertex
  <2>8. CASE m < n
    <3>1. Start[m + 1] <= Start[n] /\ Start[m + 1] \in Int /\ Start[n] \in Int
      BY <1>6, <1>9, <1>12, <2>2, <2>8, StartGrows
    <3> QED
      BY <1>28, <1>16, <2>4, <2>5, <2>6, <3>1
  <2>9. CASE n < m
    <3>1. Start[n + 1] <= Start[m] /\ Start[n + 1] \in Int /\ Start[m] \in Int
      BY <1>6, <1>9, <1>12, <2>2, <2>9, StartGrows
    <3> QED
      BY <1>28, <1>16, <2>4, <2>5, <2>6, <3>1
  <2> QED
    BY <2>7, <2>8, <2>9
<1>35. \A x, y \in Tokens \ V : q[x] = q[y] => x = y
  <2> SUFFICES ASSUME NEW x \in Tokens \ V, NEW y \in Tokens \ V, q[x] = q[y] PROVE x = y
    OBVIOUS
  <2>1. \A z \in Tokens \ V : z # c => z \in Tokens \ U /\ q[z] = place[z]
    BY <1>18, <1>23
  <2>2. \A a, b \in Tokens \ U : place[a] = place[b] => a = b
    BY DEF Copying
  <2> QED
    BY <1>18, <1>34, <2>1, <2>2
<1>36. Copying(V, cur, q)'
  <2>1. V \subseteq Tokens' /\ \A x \in Tokens' : x[1] \in todo' => x \in V
    <3>1. \A x \in Tokens : x[1] \in todo => x \in U
      BY DEF Copying
    <3>2. V \subseteq Tokens
      BY <1>15, <1>22
    <3> QED
      BY <1>5, <1>10, <1>11, <1>15, <3>1, <3>2
  <2>2. \A x \in V : x[1] \in todo' \/ \E s \in Threads : thread'[s] # Idle /\ cur[s][1] = x[1]
    <3> TAKE x \in V
    <3>1. x[1] \in todo \/ \E s \in Threads : thread[s] # Idle /\ cur[s][1] = x[1]
      BY <1>15 DEF Copying
    <3> QED
      BY <1>10, <1>20, <1>21, <3>1
  <2>3. \A s \in Threads : CopyThread(thread[s], cur[s], V, q)'
    <3> TAKE s \in Threads
    <3>1. CASE s = t
      BY <1>0, <1>20, <1>26, <3>1
    <3>2. CASE s # t
      BY <1>27, <3>2
    <3> QED
      BY <3>1, <3>2
  <2>4. \A r, s \in Threads : r # s /\ thread'[r] # Idle /\ thread'[s] # Idle => cur[r][1] # cur[s][1]
    <3>1. \A r, s \in Threads : r # s /\ thread[r] # Idle /\ thread[s] # Idle => cur[r][1] # cur[s][1]
      BY DEF Copying
    <3>2. \A s \in Threads : thread'[s] # Idle => thread[s] # Idle
      BY <1>3, <1>21
    <3> QED
      BY <3>1, <3>2
  <2>5. \A x \in Tokens \ V : \/ neighs[q[x]] = Entry(x).dest
                              \/ \E s \in Threads : thread'[s] # Idle /\ thread'[s].at = "store" /\ cur[s] = x
    <3> TAKE x \in Tokens \ V
    <3>1. CASE x = c
      BY <1>0, <1>20, <3>1
    <3>2. CASE x # c
      <4>1. x \in Tokens \ U /\ q[x] = place[x]
        BY <1>18, <1>23, <3>2
      <4>2. \/ neighs[place[x]] = Entry(x).dest
            \/ \E s \in Threads : thread[s] # Idle /\ thread[s].at = "store" /\ cur[s] = x
        BY <4>1 DEF Copying
      <4>3. ASSUME NEW s \in Threads, thread[s].at = "store" PROVE s # t
        BY <1>2, <4>3
      <4> QED
        BY <1>21, <4>1, <4>2, <4>3
    <3> QED
      BY <3>1, <3>2
  <2> QED
    BY <1>10, <1>11, <1>29, <1>33, <1>35, <2>1, <2>2, <2>3, <2>4, <2>5 DEF Copying
<1> QED
  BY <1>14, <1>36

\* A claimed place lies within neighs.
LEMMA PlaceInside ==
  ASSUME CopyTypes, NEW U, NEW cur, NEW place, Copying(U, cur, place), NEW x \in Tokens \ U
  PROVE  place[x] \in DOMAIN neighs
<1>1. PICK n : n = Entry(x).of
  OBVIOUS
<1>2. InputOK /\ side \in {"out", "in"} /\ DOMAIN neighs = 0 .. Start[numNodes] - 1
  BY DEF CopyTypes
<1>3. n \in Vertex
  BY <1>1, <1>2, EntryFacts
<1>4. PICK k : k = Cardinality(TokensOf(n) \ U)
  OBVIOUS
<1>5. /\ k \in Nat /\ k <= Degrees[n] /\ Start[n] \in Nat /\ Degrees[n] \in Nat
      /\ Start[n] + Degrees[n] <= Start[numNodes] /\ Start[numNodes] \in Nat
  BY <1>3, <1>4, TokenStands
<1>6. offsets[n] = Start[n] + k /\ place[x] \in Start[n] .. offsets[n] - 1
  BY <1>1, <1>3, <1>4 DEF Copying
<1> QED
  BY <1>2, <1>5, <1>6

\* A thread writes an entry to the place it claimed, which is its own, and
\* goes on to the edge's other entry or to another edge.
LEMMA StoreStep ==
  ASSUME CopyTypes, NEW U, NEW cur, NEW place, Copying(U, cur, place),
         NEW t \in Threads, Store(t)
  PROVE  CopyTypes' /\ \E d : Copying(U, d, place)'
<1>0. PICK c : c = cur[t]
  OBVIOUS
<1>1. \A s \in Threads : CopyThread(thread[s], cur[s], U, place)
  BY DEF Copying
<1>2. thread[t].at = "store"
  BY DEF Store
<1>3. thread[t] # Idle
  BY <1>2 DEF Idle
<1>4. PICK left : left = thread[t].left
  OBVIOUS
<1>5. /\ c \in Tokens /\ c[1] \notin todo /\ c \notin U /\ thread[t].place = place[c]
      /\ left \in Seq({Entry(x) : x \in Tokens})
      /\ Len(left) = Len(Entries(input.el[c[1]])) - c[2] + 1
      /\ \A j \in 1 .. Len(left) : left[j] = Entry(<<c[1], c[2] + j - 1>>)
      /\ \A x \in Tokens : x[1] = c[1] /\ x[2] # c[2] => (x \in U <=> x[2] > c[2])
  BY <1>0, <1>1, <1>2, <1>3, <1>4 DEF CopyThread
<1>6. /\ InputOK /\ ~input.inPlace /\ side \in {"out", "in"} /\ todo \subseteq DOMAIN input.el
      /\ DOMAIN thread = Threads /\ stage = "copy" /\ offsets \in [0 .. numNodes -> Nat]
      /\ DOMAIN neighs = 0 .. Start[numNodes] - 1 /\ IsPrefixSum(Start, Degrees)
  BY DEF CopyTypes
<1>7. PICK E : E = Entries(input.el[c[1]])
  OBVIOUS
<1>8. /\ c[1] \in DOMAIN input.el /\ c[2] \in {1, 2} /\ c[2] \in 1 .. Len(E) /\ c = <<c[1], c[2]>>
      /\ Len(E) \in 1 .. 2 /\ DOMAIN E = 1 .. Len(E)
  <2>1. c[1] \in DOMAIN input.el /\ c[2] \in {1, 2} /\ c[2] \in DOMAIN E /\ c = <<c[1], c[2]>>
    BY <1>5, <1>7 DEF Tokens
  <2>2. Len(E) \in 1 .. 2 /\ DOMAIN E = 1 .. Len(E)
    BY <1>6, <1>7, <2>1, EntryFacts
  <2> QED
    BY <2>1, <2>2
<1>9. Head(left) = Entry(c) /\ left # <<>>
  <2>1. Len(left) \in Nat /\ 1 \in 1 .. Len(left) /\ c[2] + 1 - 1 = c[2]
    BY <1>5, <1>7, <1>8
  <2>2. left # <<>>
    BY <2>1
  <2>3. left[1] = Entry(c)
    BY <1>5, <1>8, <2>1
  <2> QED
    BY <1>5, <2>2, <2>3, TailFacts
<1>10. PICK th : th = IF Tail(left) = <<>> THEN Idle ELSE [at |-> "claim", left |-> Tail(left)]
  OBVIOUS
<1>11. PICK pl : pl = place[c]
  OBVIOUS
<1>12. /\ neighs' = [neighs EXCEPT ![pl] = Entry(c).dest]
       /\ thread' = [thread EXCEPT ![t] = th]
       /\ input' = input /\ numNodes' = numNodes /\ stage' = stage /\ side' = side
       /\ todo' = todo /\ offsets' = offsets /\ csr' = csr
  BY <1>4, <1>5, <1>9, <1>10, <1>11 DEF Store
<1>13. /\ Tokens' = Tokens /\ Vertex' = Vertex /\ Degrees' = Degrees /\ Start' = Start
       /\ \A x : Entry(x)' = Entry(x)
       /\ \A m : TokensOf(m)' = TokensOf(m)
       /\ \A e : Entries(e)' = Entries(e)
  BY <1>12, SameTokens DEF Start
<1>14. DOMAIN neighs' = DOMAIN neighs /\ DOMAIN thread' = DOMAIN thread
  BY <1>12
<1>15. CopyTypes'
  BY <1>6, <1>12, <1>13, <1>14 DEF CopyTypes, InputOK, IsPrefixSum, Vertex
<1>16. thread'[t] = th /\ \A s \in Threads : s # t => thread'[s] = thread[s]
  BY <1>6, <1>12
<1>17. pl \in DOMAIN neighs
  BY <1>1, <1>2, <1>3, <1>6, <1>5, <1>11, PlaceInside
<1>18. neighs'[pl] = Entry(c).dest /\ \A p \in DOMAIN neighs : p # pl => neighs'[p] = neighs[p]
  BY <1>12, <1>17
<1>19. PICK d : d = [s \in Threads |-> IF s = t THEN <<c[1], c[2] + 1>> ELSE cur[s]]
  OBVIOUS
<1>20. d[t] = <<c[1], c[2] + 1>> /\ \A s \in Threads : s # t => d[s] = cur[s]
  BY <1>19
<1>21. {Entry(x) : x \in Tokens}' = {Entry(x) : x \in Tokens}
  BY <1>13
<1>22. CopyThread(th, <<c[1], c[2] + 1>>, U, place)' /\ (th # Idle => th.at = "claim")
  <2>1. CASE Tail(left) = <<>>
    <3>1. th = Idle
      BY <1>10, <2>1
    <3> QED
      BY <3>1 DEF CopyThread, Idle
  <2>2. CASE Tail(left) # <<>>
    <3>1. PICK tl : tl = Tail(left)
      OBVIOUS
    <3>2. /\ tl \in Seq({Entry(x) : x \in Tokens}) /\ Len(tl) = Len(left) - 1
          /\ \A j \in 1 .. Len(left) - 1 : tl[j] = left[j + 1]
          /\ Len(left) # 1 /\ Len(left) \in Nat \ {0}
      BY <1>5, <1>9, <2>2, <3>1, TailFacts
    <3>3. c[2] = 1 /\ Len(E) = 2 /\ Len(left) = 2 /\ Len(tl) = 1
      <4>1. PICK a : a = c[2]
        OBVIOUS
      <4>2. PICK b : b = Len(E)
        OBVIOUS
      <4>3. PICK l : l = Len(left)
        OBVIOUS
      <4>4. a \in {1, 2} /\ b \in 1 .. 2 /\ l = b - a + 1 /\ l # 1 /\ l \in Nat \ {0}
        BY <1>5, <1>7, <1>8, <3>2, <4>1, <4>2, <4>3
      <4>5. a = 1 /\ b = 2 /\ l = 2
        BY <4>4
      <4> QED
        BY <3>2, <4>1, <4>2, <4>3, <4>5
    <3>4. PICK e : e = <<c[1], 2>>
      OBVIOUS
    <3>5. e[1] = c[1] /\ e[2] = 2 /\ <<c[1], c[2] + 1>> = e
      BY <3>3, <3>4
    <3>6. e \in Tokens
      <4>1. 2 \in DOMAIN E
        BY <1>8, <3>3
      <4> QED
        BY <1>7, <1>8, <3>4, <4>1 DEF Tokens
    <3>7. e \in U
      BY <1>5, <3>3, <3>5, <3>6
    <3>8. \A x \in Tokens : x[1] = c[1] /\ x[2] # 2 => (x \in U <=> x[2] > 2)
      <4> SUFFICES ASSUME NEW x \in Tokens, x[1] = c[1], x[2] # 2 PROVE x \notin U /\ ~(x[2] > 2)
        OBVIOUS
      <4>1. x[2] = 1 /\ x = <<x[1], x[2]>>
        BY DEF Tokens
      <4>2. x = c
        BY <1>8, <3>3, <4>1
      <4> QED
        BY <1>5, <4>1, <4>2
    <3>9. \A j \in 1 .. Len(tl) : tl[j] = Entry(<<e[1], e[2] + j - 1>>)
      <4> TAKE j \in 1 .. Len(tl)
      <4>1. j = 1
        BY <3>3
      <4>2. tl[1] = left[2] /\ left[2] = Entry(<<c[1], 2>>)
        BY <1>5, <3>2, <3>3
      <4>3. e[2] + j - 1 = 2
        BY <3>5, <4>1
      <4> QED
        BY <3>5, <4>1, <4>2, <4>3
    <3>10. th = [at |-> "claim", left |-> tl]
      BY <1>10, <2>2, <3>1
    <3>11. th.at = "claim" /\ th.left = tl
      BY <3>10
    <3>12. Len(tl) = Len(Entries(input.el[e[1]])) - e[2] + 1
      BY <1>7, <3>3, <3>5
    <3>13. CopyThread(th, e, U, place)'
      BY <1>5, <1>12, <1>13, <1>21, <3>2, <3>5, <3>6, <3>7, <3>8, <3>9, <3>11, <3>12 DEF CopyThread
    <3> QED
      BY <3>5, <3>11, <3>13
  <2> QED
    BY <2>1, <2>2
<1>23. \A s \in Threads : s # t => CopyThread(thread[s], cur[s], U, place)'
  <2> SUFFICES ASSUME NEW s \in Threads, s # t PROVE CopyThread(thread[s], cur[s], U, place)'
    OBVIOUS
  <2>1. PICK h : h = thread[s]
    OBVIOUS
  <2>2. CopyThread(h, cur[s], U, place)
    BY <1>1, <2>1
  <2>3. CopyThread(h, cur[s], U, place)'
    BY <1>12, <1>13, <1>21, <2>2 DEF CopyThread
  <2> QED
    BY <1>16, <2>1, <2>3
<1>24. Copying(U, d, place)'
  <2>1. U \subseteq Tokens' /\ \A x \in Tokens' : x[1] \in todo' => x \in U
    BY <1>12, <1>13 DEF Copying
  <2>2. \A x \in U : x[1] \in todo' \/ \E s \in Threads : thread'[s] # Idle /\ d[s][1] = x[1]
    <3> TAKE x \in U
    <3>0. x \in Tokens
      BY DEF Copying
    <3>1. x[1] \in todo \/ \E s \in Threads : thread[s] # Idle /\ cur[s][1] = x[1]
      BY DEF Copying
    <3>2. CASE x[1] = c[1]
      <4>1. x # c /\ x[2] \in {1, 2} /\ x = <<x[1], x[2]>> /\ x[2] \in DOMAIN Entries(input.el[x[1]])
        BY <1>5, <3>0 DEF Tokens
      <4>2. x[2] # c[2]
        BY <1>8, <3>2, <4>1
      <4>3. x[2] > c[2]
        BY <1>5, <3>0, <3>2, <4>2
      <4>4. x[2] \in 1 .. Len(E)
        BY <1>7, <1>8, <3>2, <4>1
      <4>5. Len(left) # 1
        BY <1>5, <1>7, <1>8, <4>3, <4>4
      <4>6. Tail(left) # <<>>
        BY <1>5, <1>9, <4>5, TailFacts
      <4>7. th # Idle
        BY <1>10, <4>6 DEF Idle
      <4>8. d[t][1] = c[1]
        BY <1>20
      <4> QED
        BY <1>16, <3>2, <4>7, <4>8
    <3>3. CASE x[1] # c[1]
      BY <1>0, <1>12, <1>16, <1>20, <3>1, <3>3
    <3> QED
      BY <3>2, <3>3
  <2>3. \A s \in Threads : CopyThread(thread[s], d[s], U, place)'
    <3> TAKE s \in Threads
    <3>1. CASE s = t
      BY <1>16, <1>20, <1>22, <3>1
    <3>2. CASE s # t
      BY <1>20, <1>23, <3>2
    <3> QED
      BY <3>1, <3>2
  <2>4. \A r, s \in Threads : r # s /\ thread'[r] # Idle /\ thread'[s] # Idle => d[r][1] # d[s][1]
    <3>1. \A r, s \in Threads : r # s /\ thread[r] # Idle /\ thread[s] # Idle => cur[r][1] # cur[s][1]
      BY DEF Copying
    <3>2. \A s \in Threads : thread'[s] # Idle => thread[s] # Idle
      BY <1>3, <1>16
    <3>3. \A s \in Threads : d[s][1] = cur[s][1]
      BY <1>0, <1>20
    <3> QED
      BY <3>1, <3>2, <3>3
  <2>5. \A x \in Tokens \ U : \/ neighs'[place[x]] = Entry(x).dest
                              \/ \E s \in Threads : thread'[s] # Idle /\ thread'[s].at = "store" /\ d[s] = x
    <3> TAKE x \in Tokens \ U
    <3>1. CASE x = c
      BY <1>11, <1>18, <3>1
    <3>2. CASE x # c
      <4>1. \/ neighs[place[x]] = Entry(x).dest
            \/ \E s \in Threads : thread[s] # Idle /\ thread[s].at = "store" /\ cur[s] = x
        BY DEF Copying
      <4>2. place[x] # pl
        BY <1>5, <1>11, <3>2 DEF Copying
      <4>3. place[x] \in DOMAIN neighs
        BY <1>6, PlaceInside
      <4> QED
        BY <1>0, <1>16, <1>18, <1>20, <3>2, <4>1, <4>2, <4>3
    <3> QED
      BY <3>1, <3>2
  <2>6. /\ \A n \in Vertex : offsets[n] = Start[n] + Cardinality(TokensOf(n) \ U)
        /\ \A x \in Tokens \ U : place[x] \in Start[Entry(x).of] .. offsets[Entry(x).of] - 1
        /\ \A x, y \in Tokens \ U : place[x] = place[y] => x = y
    BY DEF Copying
  <2> QED
    BY <1>12, <1>13, <2>1, <2>2, <2>3, <2>4, <2>5, <2>6 DEF Copying
<1> QED
  BY <1>15, <1>24

\* What the entries of a vertex say.
Weights(s, n, m) == IF s = "out" THEN Given(n, m) ELSE Given(m, n)
Wanted(s, n) == {d \in [v : Vertex, w : Nat \ {0}] : d.w \in Weights(s, n, d.v)}

LEMMA TokensSayWanted ==
  ASSUME InputOK, side \in {"out", "in"}, input.symmetrize => side = "out", NEW n \in Vertex
  PROVE  {Entry(x).dest : x \in TokensOf(n)} = Wanted(side, n)
<1>1. \A k \in DOMAIN input.el : /\ input.el[k].u \in Vertex /\ input.el[k].v \in Vertex
                                 /\ input.el[k].w \in Nat \ {0}
  BY InputFacts
<1>2. PICK el : el = input.el
  OBVIOUS
<1>3. ASSUME NEW k \in DOMAIN el
      PROVE  /\ input.symmetrize =>
                  /\ <<k, 1>> \in Tokens /\ Entry(<<k, 1>>).of = el[k].u
                  /\ Entry(<<k, 1>>).dest = Dest(el[k].v, el[k].w)
                  /\ <<k, 2>> \in Tokens /\ Entry(<<k, 2>>).of = el[k].v
                  /\ Entry(<<k, 2>>).dest = Dest(el[k].u, el[k].w)
             /\ ~input.symmetrize =>
                  /\ <<k, 1>> \in Tokens /\ <<k, 2>> \notin Tokens
                  /\ Entry(<<k, 1>>).of = IF side = "out" THEN el[k].u ELSE el[k].v
                  /\ Entry(<<k, 1>>).dest = IF side = "out" THEN Dest(el[k].v, el[k].w)
                                            ELSE Dest(el[k].u, el[k].w)
  <2>1. PICK f : f = [of |-> el[k].u, dest |-> Dest(el[k].v, el[k].w)]
    OBVIOUS
  <2>2. PICK b : b = [of |-> el[k].v, dest |-> Dest(el[k].u, el[k].w)]
    OBVIOUS
  <2>3. PICK E : E = Entries(el[k])
    OBVIOUS
  <2>4. E = IF input.symmetrize THEN <<f, b>> ELSE IF side = "out" THEN <<f>> ELSE <<b>>
    BY <2>1, <2>2, <2>3 DEF Entries
  <2>5. /\ input.symmetrize => DOMAIN E = 1 .. 2 /\ E[1] = f /\ E[2] = b
        /\ ~input.symmetrize => DOMAIN E = 1 .. 1 /\ E[1] = IF side = "out" THEN f ELSE b
    BY <2>4
  <2>6. \A j \in {1, 2} : /\ <<k, j>> \in Tokens <=> j \in DOMAIN E
                          /\ Entry(<<k, j>>) = E[j]
    BY <1>2, <1>3, <2>3 DEF Tokens, Entry
  <2>7. /\ f.of = el[k].u /\ f.dest = Dest(el[k].v, el[k].w)
        /\ b.of = el[k].v /\ b.dest = Dest(el[k].u, el[k].w)
    BY <2>1, <2>2
  <2>8. CASE input.symmetrize
    BY <2>5, <2>6, <2>7, <2>8
  <2>9. CASE ~input.symmetrize
    BY <2>5, <2>6, <2>7, <2>9
  <2> QED
    BY <2>8, <2>9
<1>4. ASSUME NEW x \in TokensOf(n)
      PROVE  \E k \in DOMAIN el : x = <<k, 1>> \/ x = <<k, 2>>
  BY <1>2 DEF TokensOf, Tokens
<1>5. \A u, v, w : Dest(u, w).v = u /\ Dest(u, w).w = w
  BY DEF Dest
<1>6. \A u, v : Given(u, v) = {el[k].w : k \in {j \in DOMAIN el :
                                 \/ el[j].u = u /\ el[j].v = v
                                 \/ input.symmetrize /\ el[j].u = v /\ el[j].v = u}}
  BY <1>2 DEF Given
<1>7. ASSUME NEW x \in TokensOf(n) PROVE Entry(x).dest \in Wanted(side, n)
  <2>1. PICK k \in DOMAIN el : x = <<k, 1>> \/ x = <<k, 2>>
    BY <1>4
  <2>2. x \in Tokens /\ Entry(x).of = n
    BY DEF TokensOf
  <2>3. Entry(x).dest \in [v : Vertex, w : Nat \ {0}]
    BY <2>2, EntryFacts
  <2>4. PICK d : d = Entry(x).dest
    OBVIOUS
  <2>5. /\ d.w = el[k].w
        /\ \/ el[k].u = n /\ el[k].v = d.v /\ side = "out"
           \/ el[k].v = n /\ el[k].u = d.v /\ (input.symmetrize \/ side = "in")
    <3>0. PICK a : a = Dest(el[k].v, el[k].w)
      OBVIOUS
    <3>00. PICK b : b = Dest(el[k].u, el[k].w)
      OBVIOUS
    <3>1. \/ el[k].u = n /\ d = a /\ side = "out"
          \/ el[k].v = n /\ d = b /\ (input.symmetrize \/ side = "in")
      <4>1. CASE input.symmetrize
        <5>1. CASE x = <<k, 1>>
          BY <1>3, <2>2, <2>4, <3>0, <4>1, <5>1
        <5>2. CASE x = <<k, 2>>
          BY <1>3, <2>2, <2>4, <3>00, <4>1, <5>2
        <5> QED
          BY <2>1, <5>1, <5>2
      <4>2. CASE ~input.symmetrize
        <5>1. x = <<k, 1>>
          BY <1>3, <2>1, <2>2, <4>2
        <5>2. CASE side = "out"
          BY <1>3, <2>2, <2>4, <3>0, <4>2, <5>1, <5>2
        <5>3. CASE side = "in"
          BY <1>3, <2>2, <2>4, <3>00, <4>2, <5>1, <5>3
        <5> QED
          BY <5>2, <5>3
      <4> QED
        BY <4>1, <4>2
    <3>2. a.v = el[k].v /\ a.w = el[k].w /\ b.v = el[k].u /\ b.w = el[k].w
      BY <1>5, <3>0, <3>00
    <3> QED
      BY <3>1, <3>2
  <2>6. d.w \in Weights(side, n, d.v)
    <3>1. CASE side = "out"
      <4>1. el[k].w \in Given(n, d.v)
        BY <1>6, <2>5, <3>1
      <4> QED
        BY <2>5, <3>1, <4>1 DEF Weights
    <3>2. CASE side = "in"
      <4>1. el[k].w \in Given(d.v, n)
        BY <1>6, <2>5, <3>2
      <4> QED
        BY <2>5, <3>2, <4>1 DEF Weights
    <3> QED
      BY <3>1, <3>2
  <2> QED
    BY <2>3, <2>4, <2>6 DEF Wanted
<1>8. ASSUME NEW d \in Wanted(side, n) PROVE \E x \in TokensOf(n) : Entry(x).dest = d
  <2>1. d = Dest(d.v, d.w) /\ d.w \in Weights(side, n, d.v)
    BY DEF Wanted, Dest
  <2>2. PICK k \in DOMAIN el :
          /\ d.w = el[k].w
          /\ \/ el[k].u = n /\ el[k].v = d.v /\ (side = "out" \/ input.symmetrize)
             \/ el[k].v = n /\ el[k].u = d.v /\ (input.symmetrize \/ side = "in")
    <3>1. CASE side = "out"
      <4>1. d.w \in Given(n, d.v)
        BY <2>1, <3>1 DEF Weights
      <4> QED
        BY <1>6, <3>1, <4>1
    <3>2. CASE side = "in"
      <4>1. d.w \in Given(d.v, n)
        BY <2>1, <3>2 DEF Weights
      <4> QED
        BY <1>6, <3>2, <4>1
    <3> QED
      BY <3>1, <3>2
  <2>3. CASE input.symmetrize
    <3>1. CASE el[k].u = n /\ el[k].v = d.v
      BY <1>3, <2>1, <2>2, <2>3, <3>1 DEF TokensOf
    <3>2. CASE el[k].v = n /\ el[k].u = d.v
      BY <1>3, <2>1, <2>2, <2>3, <3>2 DEF TokensOf
    <3> QED
      BY <2>2, <3>1, <3>2
  <2>4. CASE ~input.symmetrize
    <3>1. <<k, 1>> \in Tokens /\ Entry(<<k, 1>>).of = n /\ Entry(<<k, 1>>).dest = d
      BY <1>3, <2>1, <2>2, <2>4
    <3> QED
      BY <3>1 DEF TokensOf
  <2> QED
    BY <2>3, <2>4
<1> QED
  BY <1>7, <1>8

IsGraph(g) ==
  /\ g.index \in [0 .. numNodes -> Nat] /\ g.index[0] = 0
  /\ \A n \in Vertex : n + 1 \in 0 .. numNodes /\ g.index[n] <= g.index[n + 1]
  /\ DOMAIN g.neighs = 0 .. g.index[numNodes] - 1

Filled(g, s) ==
  /\ IsGraph(g)
  /\ \A n \in Vertex : {g.neighs[p] : p \in Span(g, n)} = Wanted(s, n)

\* The list of a vertex lies within neighs.
LEMMA SpanInside ==
  ASSUME numNodes \in Nat \ {0}, NEW g, IsGraph(g), NEW n \in Vertex
  PROVE  /\ n \in 0 .. numNodes /\ n + 1 \in 0 .. numNodes
         /\ g.index[n] \in Nat /\ g.index[n + 1] \in Nat /\ g.index[numNodes] \in Nat
         /\ g.index[n] <= g.index[n + 1] /\ g.index[n + 1] <= g.index[numNodes]
         /\ \A m \in Vertex : m < n => g.index[m + 1] <= g.index[n]
<1>1. PICK P : P = g.index
  OBVIOUS
<1>2. PICK d : d = [k \in Vertex |-> P[k + 1] - P[k]]
  OBVIOUS
<1>3. /\ P \in [0 .. numNodes -> Nat] /\ P[0] = 0
      /\ \A k \in Vertex : k + 1 \in 0 .. numNodes /\ P[k] <= P[k + 1]
  BY <1>1 DEF IsGraph
<1>4. \A k \in Vertex : k \in 0 .. numNodes
  BY DEF Vertex
<1>5. \A k \in Vertex : d[k] \in Nat /\ P[k + 1] = P[k] + d[k]
  <2> TAKE k \in Vertex
  <2>1. P[k] \in Nat /\ P[k + 1] \in Nat /\ P[k] <= P[k + 1] /\ d[k] = P[k + 1] - P[k]
    BY <1>2, <1>3, <1>4
  <2> QED
    BY <2>1
<1>6. IsPrefixSum(P, d)
  BY <1>3, <1>5 DEF IsPrefixSum
<1>7. n \in 0 .. numNodes /\ n + 1 \in 0 .. numNodes /\ numNodes \in n + 1 .. numNodes /\ numNodes \in 0 .. numNodes
  BY DEF Vertex
<1>8. P[n + 1] <= P[numNodes]
  BY <1>5, <1>6, <1>7, PrefixGrows
<1>9. ASSUME NEW m \in Vertex, m < n PROVE P[m + 1] <= P[n]
  <2>1. m + 1 \in 0 .. numNodes /\ n \in m + 1 .. numNodes
    BY <1>9 DEF Vertex
  <2> QED
    BY <1>5, <1>6, <2>1, PrefixGrows
<1> QED
  BY <1>1, <1>3, <1>7, <1>8, <1>9

\* At the end of the copy, when every token has a place of its own and was
\* written to it, the list of a vertex holds what the edges say.
LEMMA CopyDone ==
  ASSUME CopyTypes, NEW U, NEW cur, NEW place, Copying(U, cur, place),
         input.symmetrize => side = "out",
         todo = {}, \A t \in Threads : thread[t] = Idle,
         NEW g, g.index = Start, g.neighs = neighs
  PROVE  Filled(g, side)
<1>1. /\ InputOK /\ ~input.inPlace /\ side \in {"out", "in"}
      /\ DOMAIN neighs = 0 .. Start[numNodes] - 1 /\ IsPrefixSum(Start, Degrees)
  BY DEF CopyTypes
<1>2. numNodes \in Nat \ {0}
  BY <1>1, InputFacts
<1>3. U = {}
  BY DEF Copying
<1>4. \A x \in Tokens : neighs[place[x]] = Entry(x).dest
  BY <1>3 DEF Copying
<1>5. \A n \in Vertex : Degrees[n] = Cardinality(TokensOf(n)) /\ Degrees[n] \in Nat
  BY <1>1, DegreesAreTokens
<1>6. IsGraph(g)
  <2>1. ASSUME NEW n \in Vertex PROVE n + 1 \in 0 .. numNodes /\ Start[n] <= Start[n + 1]
    <3>1. n \in 0 .. numNodes
      BY <1>2 DEF Vertex
    <3>2. Start[n + 1] = Start[n] + Degrees[n] /\ Start[n] \in Nat /\ n + 1 \in 0 .. numNodes
      BY <1>1, <3>1 DEF IsPrefixSum
    <3> QED
      BY <1>5, <3>2
  <2> QED
    BY <1>1, <2>1 DEF IsGraph, IsPrefixSum
<1>7. ASSUME NEW n \in Vertex PROVE {g.neighs[p] : p \in Span(g, n)} = Wanted(side, n)
  <2>1. PICK T : T = TokensOf(n)
    OBVIOUS
  <2>2. PICK k : k = Cardinality(T)
    OBVIOUS
  <2>3. IsFiniteSet(T) /\ k \in Nat
    <3>1. T \subseteq Tokens /\ IsFiniteSet(Tokens)
      BY <1>1, <2>1, TokensFinite DEF TokensOf
    <3> QED
      BY <2>2, <3>1, FS_Subset, FS_CardinalityType
  <2>4. PICK a : a = Start[n]
    OBVIOUS
  <2>5. a \in Nat /\ Start[n + 1] = a + k
    <3>1. n \in 0 .. numNodes
      BY <1>2 DEF Vertex
    <3> QED
      BY <1>1, <1>5, <2>1, <2>2, <2>4, <3>1 DEF IsPrefixSum
  <2>6. Span(g, n) = a .. a + k - 1
    <3>1. g.index[n] = a /\ g.index[n + 1] = a + k
      BY <2>4, <2>5
    <3>2. Span(g, n) = g.index[n] .. g.index[n + 1] - 1
      BY DEF Span
    <3> QED
      BY <2>3, <2>5, <3>1, <3>2
  <2>7. offsets[n] = a + k
    <3>1. TokensOf(n) \ U = T
      BY <1>3, <2>1
    <3> QED
      BY <2>2, <2>4, <3>1 DEF Copying
  <2>8. PICK f : f = [x \in T |-> place[x]]
    OBVIOUS
  <2>9. f \in [T -> a .. a + k - 1]
    <3>1. ASSUME NEW x \in T PROVE place[x] \in a .. a + k - 1
      <4>1. x \in Tokens \ U /\ Entry(x).of = n
        BY <1>3, <2>1 DEF TokensOf
      <4>2. place[x] \in Start[n] .. offsets[n] - 1
        BY <4>1 DEF Copying
      <4>3. Entry(x).of = n
        BY <4>1
      <4>4. place[x] \in Start[n] .. (a + k) - 1
        BY <2>7, <4>2
      <4> QED
        BY <2>3, <2>4, <2>5, <4>4
    <3> QED
      BY <2>8, <3>1
  <2>10. \A x, y \in T : f[x] = f[y] => x = y
    <3>1. \A x \in T : x \in Tokens \ U
      BY <1>3, <2>1 DEF TokensOf
    <3>2. \A x, y \in Tokens \ U : place[x] = place[y] => x = y
      BY DEF Copying
    <3> QED
      BY <2>8, <3>1, <3>2
  <2>11. f \in Injection(T, a .. a + k - 1)
    BY <2>9, <2>10 DEF Injection, IsInjective
  <2>12. IsFiniteSet(a .. a + k - 1) /\ Cardinality(a .. a + k - 1) = k
    <3>1. a \in Int /\ a + k - 1 \in Int
      BY <2>3, <2>5
    <3>2. /\ IsFiniteSet(a .. a + k - 1)
          /\ Cardinality(a .. a + k - 1) = IF a > a + k - 1 THEN 0 ELSE (a + k - 1) - a + 1
      BY <3>1, FS_Interval
    <3>3. (IF a > a + k - 1 THEN 0 ELSE (a + k - 1) - a + 1) = k
      BY <2>3, <2>5
    <3> QED
      BY <3>2, <3>3
  <2>13. f \in Surjection(T, a .. a + k - 1)
    BY <2>2, <2>3, <2>11, <2>12, FS_Injection
  <2>14. \A p \in a .. a + k - 1 : \E x \in T : place[x] = p
    BY <2>8, <2>13 DEF Surjection
  <2>15. {g.neighs[p] : p \in Span(g, n)} = {Entry(x).dest : x \in TokensOf(n)}
    <3>1. \A x \in T : x \in Tokens /\ place[x] \in a .. a + k - 1
      BY <2>1, <2>8, <2>9 DEF TokensOf
    <3>2. \A p \in a .. a + k - 1 : \E x \in T : g.neighs[p] = Entry(x).dest
      BY <1>4, <2>14, <3>1
    <3>3. \A x \in T : g.neighs[place[x]] = Entry(x).dest
      BY <1>4, <3>1
    <3> QED
      BY <2>1, <2>6, <3>1, <3>2, <3>3
  <2>16. {Entry(x).dest : x \in TokensOf(n)} = Wanted(side, n)
    BY <1>1, TokensSayWanted
  <2> QED
    BY <2>15, <2>16
<1> QED
  BY <1>6, <1>7 DEF Filled

\* Every place of neighs is in some vertex's list.
LEMMA OwnerExists ==
  ASSUME numNodes \in Nat \ {0}, NEW index \in [0 .. numNodes -> Nat], index[0] = 0,
         NEW p \in 0 .. index[numNodes] - 1
  PROVE  \E n \in Vertex : p \in index[n] .. index[n + 1] - 1
<1> SUFFICES ASSUME \A n \in Vertex : ~(p \in index[n] .. index[n + 1] - 1) PROVE FALSE
  OBVIOUS
<1>0. p \in Nat /\ numNodes \in 0 .. numNodes /\ index[numNodes] \in Nat /\ p < index[numNodes]
  <2>1. numNodes \in 0 .. numNodes
    OBVIOUS
  <2> QED
    BY <2>1
<1> DEFINE P == {k \in Nat : k <= numNodes => index[k] <= p}
<1>1. 0 \in P
  BY <1>0
<1>2. ASSUME NEW k \in 1 .. numNodes, k - 1 \in P PROVE k \in P
  <2>1. k - 1 \in Vertex /\ (k - 1) + 1 = k /\ k - 1 <= numNodes /\ k \in 0 .. numNodes /\ k - 1 \in 0 .. numNodes /\ k \in Nat
    BY DEF Vertex
  <2>2. index[k - 1] <= p /\ ~(p \in index[k - 1] .. index[k] - 1)
    BY <1>2, <2>1
  <2>3. index[k - 1] \in Nat /\ index[k] \in Nat
    BY <2>1
  <2>4. index[k] <= p
    BY <1>0, <2>2, <2>3
  <2> QED
    BY <2>1, <2>4
<1> HIDE DEF P
<1>3. \A k \in 0 .. numNodes : k \in P
  BY ONLY <1>1, <1>2, numNodes \in Nat \ {0}, UpTo
<1>4. numNodes \in P
  BY <1>0, <1>3
<1> QED
  BY <1>0, <1>4 DEF P

-----------------------------------------------------------------------------
(* Layout lays the lists it is given one after another.                    *)
Lengths(lists) == [n \in Vertex |-> Len(lists[n])]

\* Layout puts each list where its index says.
LEMMA LayoutHolds ==
  ASSUME numNodes \in Nat \ {0}, NEW D, NEW lists, \A n \in Vertex : lists[n] \in Seq(D)
  PROVE  /\ IsGraph(Layout(lists)) /\ IsPrefixSum(Layout(lists).index, Lengths(lists))
         /\ \A n \in Vertex : Neigh(Layout(lists), n) = lists[n]
         /\ \A p \in 0 .. Layout(lists).index[numNodes] - 1 : Layout(lists).neighs[p] \in D
<1>1. PICK g : g = Layout(lists)
  OBVIOUS
<1>2. PICK index : index = ParallelPrefixSum(Lengths(lists))
  OBVIOUS
<1>3. \A n \in Vertex : Lengths(lists)[n] = Len(lists[n]) /\ Lengths(lists)[n] \in Nat
  BY DEF Lengths
<1>4. IsPrefixSum(index, Lengths(lists))
  BY <1>2, <1>3, PrefixSums
<1>5. PICK owner : owner = [p \in 0 .. index[numNodes] - 1 |-> CHOOSE n \in Vertex : p \in index[n] .. index[n + 1] - 1]
  OBVIOUS
<1>6. /\ g.index = index
      /\ g.neighs = [p \in 0 .. index[numNodes] - 1 |-> lists[owner[p]][p - index[owner[p]] + 1]]
  BY <1>1, <1>2, <1>5 DEF Layout, Lengths
<1>7. /\ index \in [0 .. numNodes -> Nat] /\ index[0] = 0
      /\ \A n \in Vertex : n + 1 \in 0 .. numNodes /\ index[n + 1] = index[n] + Len(lists[n]) /\ Len(lists[n]) \in Nat
  BY <1>3, <1>4 DEF IsPrefixSum
<1>8. \A n \in Vertex : n \in 0 .. numNodes /\ index[n] \in Nat
  BY <1>7 DEF Vertex
<1>9. IsGraph(g)
  <2>1. \A n \in Vertex : index[n] <= index[n + 1]
    BY <1>7, <1>8
  <2>2. DOMAIN g.neighs = 0 .. index[numNodes] - 1
    BY <1>6
  <2> QED
    BY <1>6, <1>7, <2>1, <2>2 DEF IsGraph
<1>10. ASSUME NEW p \in 0 .. index[numNodes] - 1
       PROVE  owner[p] \in Vertex /\ p \in index[owner[p]] .. index[owner[p] + 1] - 1
  <2>1. \E n \in Vertex : p \in index[n] .. index[n + 1] - 1
    BY <1>7, <1>10, OwnerExists
  <2> QED
    BY <1>5, <2>1
<1>11. ASSUME NEW n \in Vertex, NEW p \in index[n] .. index[n + 1] - 1
       PROVE  p \in 0 .. index[numNodes] - 1 /\ owner[p] = n
  <2>1. /\ index[n] \in Nat /\ index[n + 1] \in Nat /\ index[numNodes] \in Nat
        /\ index[n + 1] <= index[numNodes]
    BY <1>6, <1>9, SpanInside
  <2>2. p \in 0 .. index[numNodes] - 1
    BY <2>1
  <2>3. PICK m : m = owner[p]
    OBVIOUS
  <2>4. m \in Vertex /\ p \in index[m] .. index[m + 1] - 1
    BY <1>10, <2>2, <2>3
  <2>5. index[m] \in Nat /\ index[m + 1] \in Nat
    BY <1>6, <1>9, <2>4, SpanInside
  <2>6. m = n
    <3>1. ASSUME m < n PROVE FALSE
      <4>1. index[m + 1] <= index[n]
        BY <1>6, <1>9, <2>4, <3>1, SpanInside
      <4> QED
        BY <2>1, <2>4, <2>5, <4>1
    <3>2. ASSUME n < m PROVE FALSE
      <4>1. index[n + 1] <= index[m]
        BY <1>6, <1>9, <2>4, <3>2, SpanInside
      <4> QED
        BY <2>1, <2>4, <2>5, <4>1
    <3> QED
      BY <2>4, <3>1, <3>2 DEF Vertex
  <2> QED
    BY <2>2, <2>3, <2>6
<1>12. ASSUME NEW n \in Vertex PROVE Neigh(g, n) = lists[n]
  <2>1. PICK l : l = lists[n]
    OBVIOUS
  <2>2. l \in Seq(D) /\ Len(l) \in Nat /\ DOMAIN l = 1 .. Len(l)
    BY <2>1
  <2>3. PICK a : a = index[n]
    OBVIOUS
  <2>4. a \in Nat /\ index[n + 1] = a + Len(l)
    BY <1>7, <1>8, <2>1, <2>3
  <2>5. (a + Len(l)) - a = Len(l)
    BY <2>2, <2>4
  <2>6. Neigh(g, n) = [i \in 1 .. Len(l) |-> g.neighs[a + i - 1]]
    BY <1>6, <2>3, <2>4, <2>5 DEF Neigh
  <2>7. ASSUME NEW i \in 1 .. Len(l) PROVE g.neighs[a + i - 1] = l[i]
    <3>1. PICK p : p = a + i - 1
      OBVIOUS
    <3>2. p \in a .. (a + Len(l)) - 1 /\ p - a + 1 = i
      BY <2>2, <2>4, <3>1
    <3>3. p \in index[n] .. index[n + 1] - 1
      BY <2>3, <2>4, <3>2
    <3>4. p \in 0 .. index[numNodes] - 1 /\ owner[p] = n
      BY <1>11, <3>3
    <3>5. g.neighs[p] = lists[n][p - index[n] + 1]
      BY <1>6, <3>4
    <3> QED
      BY <2>1, <2>3, <3>1, <3>2, <3>5
  <2>8. l = [i \in 1 .. Len(l) |-> l[i]]
    BY <2>2
  <2> QED
    BY <2>1, <2>6, <2>7, <2>8
<1>13. ASSUME NEW p \in 0 .. index[numNodes] - 1 PROVE g.neighs[p] \in D
  <2>1. PICK n : n = owner[p]
    OBVIOUS
  <2>2. n \in Vertex /\ p \in index[n] .. index[n + 1] - 1
    BY <1>10, <2>1
  <2>3. lists[n] \in Seq(D) /\ Len(lists[n]) \in Nat /\ index[n] \in Nat /\ index[n + 1] = index[n] + Len(lists[n])
    BY <1>7, <1>8, <2>2
  <2>4. p - index[n] + 1 \in 1 .. Len(lists[n])
    BY <2>2, <2>3
  <2>5. lists[n][p - index[n] + 1] \in D
    BY <2>3, <2>4
  <2> QED
    BY <1>6, <2>1, <2>5
<1> QED
  BY <1>1, <1>4, <1>6, <1>9, <1>12, <1>13

-----------------------------------------------------------------------------
(* Sorting and squishing a list.                                           *)
Neighbor == [v : Vertex, w : Nat \ {0}]

\* A finite set of numbers that is not empty has a smallest member.
LEMMA SmallestNumber ==
  ASSUME NEW S \in SUBSET Int, IsFiniteSet(S), S # {}
  PROVE  \E n \in S : \A m \in S : n <= m
<1>1. PICK c : c = Cardinality(S)
  OBVIOUS
<1>2. c \in Nat /\ c # 0
  BY <1>1, FS_CardinalityType, FS_EmptySet
<1>3. 1 \in 1 .. c
  BY <1>2
<1>4. PICK n \in S : n = Nth(S, 1)
  BY <1>1, <1>3, NthInOrder
<1>5. ASSUME NEW m \in S PROVE n <= m
  <2>1. PICK i \in 1 .. c : Nth(S, i) = m
    BY <1>1, NthInOrder
  <2>2. CASE i = 1
    BY <1>4, <2>1, <2>2
  <2>3. CASE i # 1
    <3>1. 1 < i
      BY <1>2, <2>3
    <3>2. Nth(S, 1) < Nth(S, i)
      BY <1>1, <1>3, <3>1, NthInOrder
    <3> QED
      BY <1>4, <2>1, <3>2
  <2> QED
    BY <2>2, <2>3
<1> QED
  BY <1>5

\* What Kept keeps, it keeps in order.
Keeps(at, c, S, s, l) ==
  /\ at \in [1 .. c -> S]
  /\ \A i, j \in 1 .. c : i < j => at[i] < at[j]
  /\ \A x \in S : \E i \in 1 .. c : at[i] = x
  /\ Len(l) = c
  /\ \A i \in 1 .. c : l[i] = s[at[i]]

\* Kept takes the elements at the places in S, in their order.
LEMMA KeptInOrder ==
  ASSUME NEW S \in SUBSET Int, IsFiniteSet(S), NEW D, NEW s, \A x \in S : s[x] \in D
  PROVE  Kept(s, S) \in Seq(D) /\ \E at : Keeps(at, Cardinality(S), S, s, Kept(s, S))
<1>1. PICK c : c = Cardinality(S)
  OBVIOUS
<1>2. c \in Nat
  BY <1>1, FS_CardinalityType
<1>3. PICK at : at = [i \in 1 .. c |-> Nth(S, i)]
  OBVIOUS
<1>4. /\ \A i \in 1 .. c : Nth(S, i) \in S
      /\ \A i, j \in 1 .. c : i < j => Nth(S, i) < Nth(S, j)
      /\ \A x \in S : \E i \in 1 .. c : Nth(S, i) = x
  BY <1>1, NthInOrder
<1>5. PICK r : r = Kept(s, S)
  OBVIOUS
<1>6. r = [i \in 1 .. c |-> s[Nth(S, i)]]
  BY <1>1, <1>5 DEF Kept
<1>7. r \in [1 .. c -> D]
  BY <1>4, <1>6
<1>8. r \in Seq(D) /\ Len(r) = c
  BY <1>2, <1>7
<1>9. at \in [1 .. c -> S] /\ \A i \in 1 .. c : r[i] = s[at[i]]
  BY <1>3, <1>4, <1>6
<1>10. /\ \A i, j \in 1 .. c : i < j => at[i] < at[j]
       /\ \A x \in S : \E i \in 1 .. c : at[i] = x
  BY <1>3, <1>4
<1>11. Keeps(at, c, S, s, r)
  BY <1>8, <1>9, <1>10 DEF Keeps
<1> QED
  BY <1>1, <1>5, <1>8, <1>11

\* The standard order of neighbours.
LEMMA SortedListFacts ==
  ASSUME numNodes \in Nat \ {0}, NEW s \in Seq(Neighbor)
  PROVE  /\ SortedList(s) \in Seq(Neighbor) /\ Len(SortedList(s)) = Len(s)
         /\ {SortedList(s)[i] : i \in 1 .. Len(s)} = {s[i] : i \in 1 .. Len(s)}
         /\ \A i, j \in 1 .. Len(s) : i < j => ~Before(SortedList(s)[j], SortedList(s)[i])
         /\ (\A i, j \in 1 .. Len(s) : i # j => s[i] # s[j])
              => \A i, j \in 1 .. Len(s) : i # j => SortedList(s)[i] # SortedList(s)[j]
<1>1. PICK n : n = Len(s)
  OBVIOUS
<1>2. n \in Nat /\ DOMAIN s = 1 .. n /\ \A i \in 1 .. n : s[i] \in Neighbor
  BY <1>1
<1>3. PICK less : less = {p \in (DOMAIN s) \X (DOMAIN s) : Before(s[p[1]], s[p[2]])}
  OBVIOUS
<1>4. \A i, j \in 1 .. n : <<i, j>> \in less <=> Before(s[i], s[j])
  BY <1>2, <1>3
<1>5. \A i \in 1 .. n : s[i].v \in Int /\ s[i].w \in Int
  BY <1>2 DEF Neighbor, Vertex
<1>6. IsComparison(less, 1 .. n)
  <2>1. \A i \in 1 .. n : <<i, i>> \notin less
    BY <1>4, <1>5 DEF Before
  <2>2. \A i, j, k \in 1 .. n : <<i, j>> \in less /\ <<j, k>> \in less => <<i, k>> \in less
    <3> SUFFICES ASSUME NEW i \in 1 .. n, NEW j \in 1 .. n, NEW k \in 1 .. n, Before(s[i], s[j]), Before(s[j], s[k])
                 PROVE  Before(s[i], s[k])
      BY <1>4
    <3> QED
      BY <1>5 DEF Before
  <2>3. \A i, j, k \in 1 .. n : <<i, j>> \notin less /\ <<j, k>> \notin less => <<i, k>> \notin less
    <3> SUFFICES ASSUME NEW i \in 1 .. n, NEW j \in 1 .. n, NEW k \in 1 .. n, ~Before(s[i], s[j]), ~Before(s[j], s[k])
                 PROVE  ~Before(s[i], s[k])
      BY <1>4
    <3> QED
      BY <1>5 DEF Before
  <2> QED
    BY <2>1, <2>2, <2>3 DEF IsComparison
<1>7. PICK r : r = SortedList(s)
  OBVIOUS
<1>8. r = Sorted(s, less)
  BY <1>3, <1>7 DEF SortedList
<1>9. PICK pi : /\ Orders(pi, s, r)
                /\ \A i, j \in 1 .. n : i < j => <<pi[j], pi[i]>> \notin less
  BY <1>2, <1>6, <1>8, SortedInOrder
<1>10. /\ pi \in [1 .. n -> 1 .. n] /\ r = [i \in 1 .. n |-> s[pi[i]]]
       /\ \A k \in 1 .. n : \E i \in 1 .. n : pi[i] = k
       /\ \A i, j \in 1 .. n : pi[i] = pi[j] => i = j
  BY <1>2, <1>9 DEF Orders
<1>11. \A i \in 1 .. n : r[i] = s[pi[i]] /\ pi[i] \in 1 .. n
  BY <1>10
<1>12. r \in [1 .. n -> Neighbor]
  BY <1>2, <1>10
<1>13. r \in Seq(Neighbor) /\ Len(r) = n
  BY <1>2, <1>12
<1>14. {r[i] : i \in 1 .. n} = {s[i] : i \in 1 .. n}
  <2>1. ASSUME NEW i \in 1 .. n PROVE r[i] \in {s[k] : k \in 1 .. n}
    BY <1>11
  <2>2. ASSUME NEW k \in 1 .. n PROVE s[k] \in {r[i] : i \in 1 .. n}
    <3>1. PICK i \in 1 .. n : pi[i] = k
      BY <1>10
    <3>2. r[i] = s[k]
      BY <1>11, <3>1
    <3> QED
      BY <3>2
  <2> QED
    BY <2>1, <2>2
<1>15. \A i, j \in 1 .. n : i < j => ~Before(r[j], r[i])
  BY <1>4, <1>9, <1>11
<1>16. (\A i, j \in 1 .. n : i # j => s[i] # s[j]) => \A i, j \in 1 .. n : i # j => r[i] # r[j]
  <2>1. \A i, j \in 1 .. n : i # j => pi[i] # pi[j]
    BY <1>10
  <2> QED
    BY ONLY <1>11, <2>1
<1> QED
  BY <1>1, <1>7, <1>13, <1>14, <1>15, <1>16

\* A list with every other end of an edge of n, in order and once, with
\* the least of the weights.
ListHolds(l, s, n) ==
  /\ l \in Seq(Neighbor)
  /\ \A i, j \in 1 .. Len(l) : i < j => l[i].v < l[j].v
  /\ {l[i].v : i \in 1 .. Len(l)} = {m \in Vertex \ {n} : Weights(s, n, m) # {}}
  /\ \A i \in 1 .. Len(l) : l[i].w = Least(Weights(s, n, l[i].v))

LEMMA LeastIs ==
  ASSUME NEW S \in SUBSET Int, NEW x \in S, \A y \in S : x <= y
  PROVE  Least(S) = x
<1>1. Least(S) \in S /\ \A y \in S : Least(S) <= y
  BY DEF Least
<1>2. Least(S) <= x /\ x <= Least(S) /\ x \in Int /\ Least(S) \in Int
  BY <1>1
<1>3. PICK y : y = Least(S)
  OBVIOUS
<1>4. y <= x /\ x <= y /\ x \in Int /\ y \in Int
  BY <1>2, <1>3
<1>5. y = x
  BY <1>4
<1> QED
  BY <1>3, <1>5

LEMMA WeightsAreNumbers ==
  ASSUME InputOK, NEW s, NEW m, NEW n
  PROVE  Weights(s, n, m) \subseteq Nat \ {0}
<1>1. \A a, b : Given(a, b) \subseteq Nat \ {0}
  BY InputFacts DEF Given
<1> QED
  BY <1>1 DEF Weights

\* SquishCSR leaves of a list what the graph is to have of it.
LEMMA SquishedHolds ==
  ASSUME InputOK, NEW s \in {"out", "in"}, NEW g, Filled(g, s), NEW n \in Vertex
  PROVE  ListHolds(Squished(g, n), s, n)
<1>1. numNodes \in Nat \ {0}
  BY InputFacts
<1>2. PICK N : N = Neigh(g, n)
  OBVIOUS
<1>3. PICK a : a = g.index[n]
  OBVIOUS
<1>4. PICK k : k = g.index[n + 1] - g.index[n]
  OBVIOUS
<1>5. a \in Nat /\ k \in Nat /\ g.index[n + 1] = a + k
  <2>1. g.index[n] \in Nat /\ g.index[n + 1] \in Nat /\ g.index[n] <= g.index[n + 1]
    BY <1>1, SpanInside DEF Filled
  <2> QED
    BY <1>3, <1>4, <2>1
<1>6. {g.neighs[p] : p \in a .. a + k - 1} = Wanted(s, n)
  <2>1. Span(g, n) = a .. a + k - 1
    <3>1. Span(g, n) = g.index[n] .. g.index[n + 1] - 1
      BY DEF Span
    <3> QED
      BY <1>3, <1>5, <3>1
  <2> QED
    BY <2>1 DEF Filled
<1>7. N = [i \in 1 .. k |-> g.neighs[a + i - 1]]
  BY <1>2, <1>3, <1>4 DEF Neigh
<1>8. \A i \in 1 .. k : a + i - 1 \in a .. a + k - 1 /\ N[i] \in Wanted(s, n) /\ N[i] = g.neighs[a + i - 1]
  <2> TAKE i \in 1 .. k
  <2>1. a + i - 1 \in a .. a + k - 1
    BY <1>5
  <2> QED
    BY <1>6, <1>7, <2>1
<1>9. \A d \in Wanted(s, n) : \E i \in 1 .. k : N[i] = d
  <2> TAKE d \in Wanted(s, n)
  <2>1. PICK p \in a .. a + k - 1 : g.neighs[p] = d
    BY <1>6
  <2>2. p - a + 1 \in 1 .. k /\ a + (p - a + 1) - 1 = p
    BY <1>5
  <2> QED
    BY <1>8, <2>1, <2>2
<1>10. Wanted(s, n) \subseteq Neighbor
  BY DEF Wanted, Neighbor
<1>11. N \in Seq(Neighbor) /\ Len(N) = k
  <2>1. N \in [1 .. k -> Neighbor]
    BY <1>7, <1>8, <1>10
  <2> QED
    BY <1>5, <2>1
<1>12. PICK r : r = SortedList(N)
  OBVIOUS
<1>13. /\ r \in Seq(Neighbor) /\ Len(r) = k
       /\ {r[i] : i \in 1 .. k} = {N[i] : i \in 1 .. k}
       /\ \A i, j \in 1 .. k : i < j => ~Before(r[j], r[i])
  BY <1>1, <1>11, <1>12, SortedListFacts
<1>14. DOMAIN r = 1 .. k /\ \A i \in 1 .. k : r[i] \in Wanted(s, n) /\ r[i].v \in Vertex /\ r[i].v \in Int /\ r[i].w \in Int
  <2>1. DOMAIN r = 1 .. k
    BY <1>13
  <2>2. \A i \in 1 .. k : r[i] \in Wanted(s, n)
    <3>1. \A i \in 1 .. k : \E j \in 1 .. k : r[i] = N[j]
      BY ONLY <1>13
    <3> QED
      BY ONLY <1>8, <3>1
  <2>3. \A i \in 1 .. k : r[i].v \in Vertex /\ r[i].v \in Int /\ r[i].w \in Int
    BY <2>2 DEF Wanted, Vertex
  <2> QED
    BY <2>1, <2>2, <2>3
<1>15. \A d \in Wanted(s, n) : \E i \in 1 .. k : r[i] = d
  BY <1>9, <1>13
<1>16. \A i, j \in 1 .. k : i <= j => r[i].v <= r[j].v /\ (r[i].v = r[j].v => r[i].w <= r[j].w)
  <2> SUFFICES ASSUME NEW i \in 1 .. k, NEW j \in 1 .. k, i <= j
               PROVE  r[i].v <= r[j].v /\ (r[i].v = r[j].v => r[i].w <= r[j].w)
    OBVIOUS
  <2>1. CASE i = j
    BY <1>14, <2>1
  <2>2. CASE i # j
    <3>1. ~Before(r[j], r[i])
      BY <1>13, <2>2
    <3> QED
      BY <1>14, <3>1 DEF Before
  <2> QED
    BY <2>1, <2>2
<1>17. PICK S : S = {i \in 1 .. k : (i > 1 => r[i - 1].v # r[i].v) /\ r[i].v # n}
  OBVIOUS
<1>18. PICK l : l = Kept(r, S)
  OBVIOUS
<1>19. Squished(g, n) = l
  BY <1>2, <1>12, <1>14, <1>17, <1>18 DEF Squished
<1>20. S \in SUBSET Int /\ IsFiniteSet(S) /\ \A x \in S : r[x] \in Neighbor
  <2>1. S \subseteq 1 .. k /\ IsFiniteSet(1 .. k)
    BY <1>5, <1>17, FS_Interval
  <2>2. IsFiniteSet(S)
    BY <2>1, FS_Subset
  <2>3. \A x \in S : r[x] \in Neighbor
    BY <1>10, <1>14, <2>1
  <2>4. 1 .. k \subseteq Int
    BY <1>5
  <2> QED
    BY <2>1, <2>2, <2>3, <2>4
<1>21. PICK c : c = Cardinality(S)
  OBVIOUS
<1>22. PICK f : /\ f \in [1 .. c -> S]
                /\ \A i, j \in 1 .. c : i < j => f[i] < f[j]
                /\ \A x \in S : \E i \in 1 .. c : f[i] = x
                /\ l \in Seq(Neighbor) /\ Len(l) = c
                /\ \A i \in 1 .. c : l[i] = r[f[i]]
  <2>1. PICK D : D = Neighbor
    OBVIOUS
  <2>2. S \in SUBSET Int /\ IsFiniteSet(S) /\ \A x \in S : r[x] \in D
    BY <1>20, <2>1
  <2>3. Kept(r, S) \in Seq(D) /\ \E f : Keeps(f, Cardinality(S), S, r, Kept(r, S))
    BY ONLY <2>2, KeptInOrder
  <2>4. l \in Seq(Neighbor) /\ \E f : Keeps(f, c, S, r, l)
    BY <1>18, <1>21, <2>1, <2>3
  <2> QED
    BY <2>4 DEF Keeps
<1>23. c \in Nat /\ \A i \in 1 .. c : f[i] \in S /\ f[i] \in 1 .. k
  BY <1>17, <1>20, <1>21, <1>22, FS_CardinalityType
<1>24. ASSUME NEW i \in 1 .. c, NEW j \in 1 .. c, i < j PROVE l[i].v < l[j].v
  <2>1. PICK x : x = f[i]
    OBVIOUS
  <2>2. PICK y : y = f[j]
    OBVIOUS
  <2>3. x \in 1 .. k /\ y \in 1 .. k /\ x < y /\ y \in S
    BY <1>22, <1>23, <1>24, <2>1, <2>2
  <2>4. y - 1 \in 1 .. k /\ x <= y - 1 /\ y - 1 <= y /\ y > 1
    BY <1>5, <2>3
  <2>5. r[y - 1].v # r[y].v
    BY <1>17, <2>3, <2>4
  <2>6. r[x].v <= r[y - 1].v /\ r[y - 1].v <= r[y].v
    BY <1>16, <2>3, <2>4
  <2>7. r[x].v \in Int /\ r[y - 1].v \in Int /\ r[y].v \in Int
    BY <1>14, <2>3, <2>4
  <2>8. r[x].v < r[y].v
    BY <2>5, <2>6, <2>7
  <2> QED
    BY <1>22, <2>1, <2>2, <2>8
<1>25. \A d \in Neighbor : d \in Wanted(s, n) <=> d.w \in Weights(s, n, d.v)
  BY DEF Wanted, Neighbor
\* The first of the entries of a vertex is kept, and has the least weight.
<1>26. ASSUME NEW d \in Wanted(s, n), d.v # n
       PROVE  \E i \in 1 .. c : l[i].v = d.v
  <2>1. PICK A : A = {i \in 1 .. k : r[i].v = d.v}
    OBVIOUS
  <2>2. A # {} /\ A \in SUBSET Int /\ IsFiniteSet(A)
    <3>1. A # {}
      BY <1>15, <2>1
    <3>2. A \subseteq 1 .. k /\ IsFiniteSet(1 .. k) /\ 1 .. k \subseteq Int
      BY <1>5, <2>1, FS_Interval
    <3>3. IsFiniteSet(A)
      BY <3>2, FS_Subset
    <3> QED
      BY <3>1, <3>2, <3>3
  <2>3. PICK x \in A : \A y \in A : x <= y
    BY <2>2, SmallestNumber
  <2>4. x \in 1 .. k /\ r[x].v = d.v
    BY <2>1
  <2>5. x > 1 => r[x - 1].v # r[x].v
    <3> SUFFICES ASSUME x > 1, r[x - 1].v = r[x].v PROVE FALSE
      OBVIOUS
    <3>1. x - 1 \in 1 .. k /\ ~(x <= x - 1)
      BY <1>5, <2>4
    <3>2. x - 1 \in A
      BY <2>1, <2>4, <3>1
    <3> QED
      BY <2>3, <3>1, <3>2
  <2>6. x \in S
    BY <1>17, <1>26, <2>4, <2>5
  <2> QED
    BY <1>22, <2>4, <2>6
<1>27. ASSUME NEW i \in 1 .. c
       PROVE  /\ l[i] \in Wanted(s, n) /\ l[i].v # n
              /\ \A d \in Wanted(s, n) : d.v = l[i].v => l[i].w <= d.w
  <2>1. PICK x : x = f[i]
    OBVIOUS
  <2>2. x \in S /\ x \in 1 .. k /\ l[i] = r[x]
    BY <1>22, <1>23, <2>1
  <2>3. l[i] \in Wanted(s, n) /\ l[i].v # n
    BY <1>14, <1>17, <2>2
  <2>4. ASSUME NEW d \in Wanted(s, n), d.v = r[x].v PROVE r[x].w <= d.w
    <3>1. PICK y \in 1 .. k : r[y] = d
      BY <1>15
    <3>2. CASE x <= y
      BY <1>16, <2>2, <2>4, <3>1, <3>2
    <3>3. CASE y < x
      <4>1. x - 1 \in 1 .. k /\ y <= x - 1 /\ x - 1 <= x /\ x > 1
        BY <1>5, <2>2, <3>3
      <4>2. r[y].v <= r[x - 1].v /\ r[x - 1].v <= r[x].v
        BY <1>16, <2>2, <4>1
      <4>3. r[y].v \in Int /\ r[x - 1].v \in Int /\ r[x].v \in Int
        BY <1>14, <2>2, <4>1
      <4>4. r[x - 1].v = r[x].v
        BY <2>4, <3>1, <4>2, <4>3
      <4> QED
        BY <1>17, <2>2, <4>1, <4>4
    <3> QED
      BY <1>5, <2>2, <3>2, <3>3
  <2> QED
    BY <2>2, <2>3, <2>4
<1>28. {l[i].v : i \in 1 .. c} = {m \in Vertex \ {n} : Weights(s, n, m) # {}}
  <2>1. ASSUME NEW i \in 1 .. c PROVE l[i].v \in {m \in Vertex \ {n} : Weights(s, n, m) # {}}
    <3>1. l[i] \in Neighbor /\ l[i].v # n /\ l[i].w \in Weights(s, n, l[i].v)
      BY <1>10, <1>25, <1>27
    <3>2. l[i].v \in Vertex
      BY <3>1 DEF Neighbor
    <3> QED
      BY <3>1, <3>2
  <2>2. ASSUME NEW m \in Vertex \ {n}, Weights(s, n, m) # {} PROVE \E i \in 1 .. c : l[i].v = m
    <3>1. PICK w \in Weights(s, n, m) : TRUE
      BY <2>2
    <3>2. PICK d : d = [v |-> m, w |-> w]
      OBVIOUS
    <3>3. w \in Nat \ {0}
      BY WeightsAreNumbers
    <3>4. d \in Neighbor /\ d.v = m /\ d.w = w
      BY <3>2, <3>3 DEF Neighbor
    <3>5. d \in Wanted(s, n)
      BY <1>25, <3>4
    <3> QED
      BY <1>26, <2>2, <3>4, <3>5
  <2> QED
    BY <2>1, <2>2
<1>29. ASSUME NEW i \in 1 .. c PROVE l[i].w = Least(Weights(s, n, l[i].v))
  <2>1. PICK W : W = Weights(s, n, l[i].v)
    OBVIOUS
  <2>2. W \subseteq Nat \ {0}
    BY <2>1, WeightsAreNumbers
  <2>3. l[i] \in Neighbor /\ l[i].w \in W
    BY <1>10, <1>25, <1>27, <2>1
  <2>4. ASSUME NEW w \in W PROVE l[i].w <= w
    <3>1. PICK d : d = [v |-> l[i].v, w |-> w]
      OBVIOUS
    <3>2. d \in Neighbor /\ d.v = l[i].v /\ d.w = w
      BY <2>2, <2>3, <3>1 DEF Neighbor
    <3>3. d \in Wanted(s, n)
      BY <1>25, <2>1, <3>2
    <3> QED
      BY <1>27, <3>2, <3>3
  <2>5. W \in SUBSET Int
    BY <2>2
  <2> QED
    BY <2>1, <2>3, <2>4, <2>5, LeastIs
<1> QED
  BY <1>19, <1>22, <1>24, <1>28, <1>29 DEF ListHolds

-----------------------------------------------------------------------------
(* A finished graph, and the number of its entries.                        *)
GraphHolds(g, s) ==
  /\ IsGraph(g)
  /\ \A n \in Vertex : ListHolds(Neigh(g, n), s, n)

LEMMA SquishCSRHolds ==
  ASSUME InputOK, NEW s \in {"out", "in"}, NEW g, Filled(g, s)
  PROVE  GraphHolds(SquishCSR(g), s)
<1>1. numNodes \in Nat \ {0}
  BY InputFacts
<1>2. PICK lists : lists = [n \in Vertex |-> Squished(g, n)]
  OBVIOUS
<1>3. \A n \in Vertex : ListHolds(lists[n], s, n)
  BY <1>2, SquishedHolds
<1>4. \A n \in Vertex : lists[n] \in Seq(Neighbor)
  BY <1>3 DEF ListHolds
<1>5. PICK h : h = Layout(lists)
  OBVIOUS
<1>6. IsGraph(h) /\ \A n \in Vertex : Neigh(h, n) = lists[n]
  BY <1>1, <1>4, <1>5, LayoutHolds
<1>7. SquishCSR(g) = h
  BY <1>2, <1>5 DEF SquishCSR
<1> QED
  BY <1>3, <1>6, <1>7 DEF GraphHolds

Joined(s, n, m) == m # n /\ Weights(s, n, m) # {}

\* How long a list of distinct vertices in order is.
LEMMA LengthIsDegree ==
  ASSUME InputOK, NEW s, NEW n \in Vertex, NEW l, ListHolds(l, s, n)
  PROVE  Len(l) = Cardinality({m \in Vertex : Joined(s, n, m)}) /\ Len(l) \in Nat
<1>1. PICK c : c = Len(l)
  OBVIOUS
<1>2. /\ l \in Seq(Neighbor) /\ c \in Nat
      /\ \A i, j \in 1 .. c : i < j => l[i].v < l[j].v
      /\ {l[i].v : i \in 1 .. c} = {m \in Vertex \ {n} : Weights(s, n, m) # {}}
  BY <1>1 DEF ListHolds
<1>3. PICK M : M = {m \in Vertex : Joined(s, n, m)}
  OBVIOUS
<1>4. M = {l[i].v : i \in 1 .. c}
  BY <1>2, <1>3 DEF Joined
<1>5. PICK f : f = [i \in 1 .. c |-> l[i].v]
  OBVIOUS
<1>6. \A i \in 1 .. c : f[i] \in M /\ f[i] \in Int
  BY <1>3, <1>4, <1>5 DEF Vertex
<1>7. \A i, j \in 1 .. c : f[i] = f[j] => i = j
  <2> SUFFICES ASSUME NEW i \in 1 .. c, NEW j \in 1 .. c, f[i] = f[j], i # j PROVE FALSE
    OBVIOUS
  <2>1. i < j \/ j < i
    BY <1>2
  <2>2. f[i] < f[j] \/ f[j] < f[i]
    BY <1>2, <1>5, <2>1
  <2> QED
    BY <1>6, <2>2
<1>8. f \in Bijection(1 .. c, M)
  BY <1>4, <1>5, <1>6, <1>7 DEF Bijection, Injection, Surjection, IsInjective
<1>9. IsFiniteSet(1 .. c) /\ Cardinality(1 .. c) = c
  BY <1>2, FS_Interval
<1>10. Cardinality(M) = c
  BY <1>8, <1>9, FS_Bijection DEF ExistsBijection
<1> QED
  BY <1>1, <1>2, <1>3, <1>10

\* The last of the prefix sums is the sum.
LEMMA PrefixSumTotal ==
  ASSUME numNodes \in Nat \ {0}, NEW d, \A n \in Vertex : d[n] \in Nat, NEW P, IsPrefixSum(P, d)
  PROVE  P[numNodes] = SumFunctionOnSet(d, Vertex)
<1> DEFINE Q == {k \in Nat : P[k] = SumFunctionOnSet(d, 0 .. k - 1)}
<1>1. P[0] = 0 /\ \A n \in Vertex : P[n + 1] = P[n] + d[n]
  BY DEF IsPrefixSum
<1>2. 0 \in Q
  <2>1. 0 .. 0 - 1 = {}
    OBVIOUS
  <2> QED
    BY <1>1, <2>1, SumEmpty
<1>3. ASSUME NEW k \in 1 .. numNodes, k - 1 \in Q PROVE k \in Q
  <2>1. PICK j : j = k - 1
    OBVIOUS
  <2>2. j \in Vertex /\ j + 1 = k /\ j \in Nat /\ k \in Nat /\ j = k - 1
    BY <2>1 DEF Vertex
  <2>3. PICK S : S = 0 .. j - 1
    OBVIOUS
  <2>4. IsFiniteSet(S) /\ j \notin S /\ 0 .. k - 1 = S \cup {j} /\ S \subseteq Vertex
    <3>1. IsFiniteSet(S)
      BY <2>2, <2>3, FS_Interval
    <3>2. j \notin S /\ 0 .. j = S \cup {j}
      BY <2>2, <2>3
    <3>3. 0 .. k - 1 = 0 .. j
      BY <2>2
    <3>4. S \subseteq Vertex
      BY <2>2, <2>3 DEF Vertex
    <3> QED
      BY <3>1, <3>2, <3>3, <3>4
  <2>5. d[j] \in Int /\ \A y \in S : d[y] \in Int
    BY <2>2, <2>4
  <2>6. SumFunctionOnSet(d, S \cup {j}) = SumFunctionOnSet(d, S) + d[j]
    BY ONLY <2>4, <2>5, SumAdd
  <2>7. P[j] = SumFunctionOnSet(d, S) /\ P[k] = P[j] + d[j]
    BY <1>1, <1>3, <2>1, <2>2, <2>3
  <2> QED
    BY <2>2, <2>4, <2>6, <2>7
<1> HIDE DEF Q
<1>4. \A k \in 0 .. numNodes : k \in Q
  BY ONLY <1>2, <1>3, numNodes \in Nat \ {0}, UpTo
<1>5. numNodes \in Q
  BY <1>4
<1> QED
  BY <1>5 DEF Q, Vertex

LEMMA VertexFinite ==
  ASSUME numNodes \in Nat \ {0}
  PROVE  IsFiniteSet(Vertex)
BY FS_Interval DEF Vertex

\* A number of elements as a sum.
LEMMA CountIsSum ==
  ASSUME NEW S, IsFiniteSet(S), NEW U \in SUBSET S, NEW f, \A x \in S : f[x] = IF x \in U THEN 1 ELSE 0
  PROVE  Cardinality(U) = SumFunctionOnSet(f, S)
<1>1. SumFunctionOnSet(f, S) = SumFunctionOnSet(f, U)
  <2>1. (\A x \in S : f[x] \in Int) /\ \A x \in S \ U : f[x] = 0
    OBVIOUS
  <2> QED
    BY <2>1, SumWithin
<1>2. IsFiniteSet(U) /\ \A x \in U : f[x] = 1
  BY FS_Subset
<1>3. SumFunctionOnSet(f, U) = Cardinality(U) * 1
  BY <1>2, SumEqual
<1>4. Cardinality(U) \in Nat
  BY <1>2, FS_CardinalityType
<1> QED
  BY <1>1, <1>3, <1>4

\* The entries are the pairs of joined vertices.
Pair(s) == [p \in Vertex \X Vertex |-> IF Joined(s, p[1], p[2]) THEN 1 ELSE 0]
SumOfRows(F) == SumFunctionOnSet([n \in Vertex |-> SumFunctionOnSet([m \in Vertex |-> F[<<n, m>>]], Vertex)], Vertex)

LEMMA EntriesArePairs ==
  ASSUME InputOK, NEW s, NEW g, GraphHolds(g, s)
  PROVE  g.index[numNodes] = SumOfRows(Pair(s))
<1>1. numNodes \in Nat \ {0} /\ IsFiniteSet(Vertex)
  BY InputFacts, VertexFinite
<1>2. PICK V : V = Vertex
  OBVIOUS
<1>3. PICK d : d = [n \in V |-> SumFunctionOnSet([m \in V |-> Pair(s)[<<n, m>>]], V)]
  OBVIOUS
<1>4. ASSUME NEW n \in V
      PROVE  d[n] = Len(Neigh(g, n)) /\ d[n] \in Nat
  <2>1. PICK f : f = [m \in V |-> Pair(s)[<<n, m>>]]
    OBVIOUS
  <2>2. PICK U : U = {m \in V : Joined(s, n, m)}
    OBVIOUS
  <2>3. \A m \in V : f[m] = IF m \in U THEN 1 ELSE 0
    BY <1>2, <2>1, <2>2 DEF Pair
  <2>4. Cardinality(U) = SumFunctionOnSet(f, V)
    BY <1>1, <1>2, <2>2, <2>3, CountIsSum
  <2>5. ListHolds(Neigh(g, n), s, n)
    BY <1>2 DEF GraphHolds
  <2>6. Len(Neigh(g, n)) = Cardinality(U) /\ Len(Neigh(g, n)) \in Nat
    BY <1>2, <2>2, <2>5, LengthIsDegree
  <2> QED
    BY <1>3, <2>1, <2>4, <2>6
<1>5. ASSUME NEW n \in Vertex PROVE g.index[n + 1] = g.index[n] + Len(Neigh(g, n))
  <2>1. /\ g.index[n] \in Nat /\ g.index[n + 1] \in Nat /\ g.index[n] <= g.index[n + 1]
    BY <1>1, SpanInside DEF GraphHolds
  <2>2. PICK k : k = g.index[n + 1] - g.index[n]
    OBVIOUS
  <2>3. k \in Nat /\ g.index[n + 1] = g.index[n] + k
    BY <2>1, <2>2
  <2>4. PICK l : l = Neigh(g, n)
    OBVIOUS
  <2>5. l = [i \in 1 .. k |-> g.neighs[g.index[n] + i - 1]]
    BY <2>2, <2>4 DEF Neigh
  <2>6. l \in Seq(Neighbor)
    BY <2>4 DEF GraphHolds, ListHolds
  <2>7. DOMAIN l = 1 .. k
    BY <2>5
  <2>8. Len(l) = k
    <3>1. DOMAIN l = 1 .. Len(l) /\ Len(l) \in Nat
      BY <2>6
    <3>2. l \in [1 .. k -> Neighbor]
      <4>1. \A i \in DOMAIN l : l[i] \in Neighbor
        BY <2>6
      <4> QED
        BY <2>5, <2>7, <4>1
    <3> QED
      BY <2>3, <3>2
  <2> QED
    BY <2>3, <2>4, <2>8
<1>6. IsPrefixSum(g.index, d)
  <2>1. IsGraph(g)
    BY DEF GraphHolds
  <2>2. \A n \in Vertex : g.index[n + 1] = g.index[n] + d[n]
    BY <1>2, <1>4, <1>5
  <2> QED
    BY <2>1, <2>2 DEF IsPrefixSum, IsGraph
<1>7. g.index[numNodes] = SumFunctionOnSet(d, Vertex)
  <2>1. PICK P : P = g.index
    OBVIOUS
  <2>2. IsPrefixSum(P, d) /\ \A n \in Vertex : d[n] \in Nat
    BY <1>2, <1>4, <1>6, <2>1
  <2>3. P[numNodes] = SumFunctionOnSet(d, Vertex)
    BY <1>1, <2>2, PrefixSumTotal
  <2> QED
    BY <2>1, <2>3
<1> QED
  BY <1>2, <1>3, <1>7 DEF SumOfRows

LEMMA RowsExchange ==
  ASSUME numNodes \in Nat \ {0}, NEW F, NEW G,
         \A n, m \in Vertex : F[<<n, m>>] \in Int /\ G[<<n, m>>] = F[<<m, n>>]
  PROVE  SumOfRows(G) = SumOfRows(F)
<1>1. PICK V : V = Vertex
  OBVIOUS
<1>2. IsFiniteSet(V) /\ \A x \in V : \A y \in V : F[<<x, y>>] \in Int
  BY <1>1, VertexFinite
<1>3. SumFunctionOnSet([x \in V |-> SumFunctionOnSet([y \in V |-> F[<<x, y>>]], V)], V)
        = SumFunctionOnSet([y \in V |-> SumFunctionOnSet([x \in V |-> F[<<x, y>>]], V)], V)
  BY ONLY <1>2, SumExchange
<1>4. ASSUME NEW n \in V PROVE [m \in V |-> G[<<n, m>>]] = [x \in V |-> F[<<x, n>>]]
  BY <1>1
<1>5. [n \in V |-> SumFunctionOnSet([m \in V |-> G[<<n, m>>]], V)]
        = [y \in V |-> SumFunctionOnSet([x \in V |-> F[<<x, y>>]], V)]
  BY <1>4
<1> QED
  BY <1>1, <1>3, <1>5 DEF SumOfRows

LEMMA RowsPlus ==
  ASSUME numNodes \in Nat \ {0}, NEW F, NEW G, NEW H,
         \A n, m \in Vertex : F[<<n, m>>] \in Int /\ G[<<n, m>>] \in Int /\ H[<<n, m>>] = F[<<n, m>>] + G[<<n, m>>]
  PROVE  /\ SumOfRows(H) = SumOfRows(F) + SumOfRows(G)
         /\ SumOfRows(F) \in Int /\ SumOfRows(G) \in Int
<1>1. PICK V : V = Vertex
  OBVIOUS
<1>2. IsFiniteSet(V)
  BY <1>1, VertexFinite
<1>3. PICK f : f = [n \in V |-> SumFunctionOnSet([m \in V |-> F[<<n, m>>]], V)]
  OBVIOUS
<1>4. PICK g : g = [n \in V |-> SumFunctionOnSet([m \in V |-> G[<<n, m>>]], V)]
  OBVIOUS
<1>5. PICK h : h = [n \in V |-> SumFunctionOnSet([m \in V |-> H[<<n, m>>]], V)]
  OBVIOUS
<1>6. ASSUME NEW n \in V PROVE f[n] \in Int /\ g[n] \in Int /\ h[n] = f[n] + g[n]
  <2>1. PICK a : a = [m \in V |-> F[<<n, m>>]]
    OBVIOUS
  <2>2. PICK b : b = [m \in V |-> G[<<n, m>>]]
    OBVIOUS
  <2>3. PICK c : c = [m \in V |-> H[<<n, m>>]]
    OBVIOUS
  <2>4. \A m \in V : a[m] \in Int /\ b[m] \in Int /\ c[m] = a[m] + b[m]
    BY <1>1, <2>1, <2>2, <2>3
  <2>5. SumFunctionOnSet(c, V) = SumFunctionOnSet(a, V) + SumFunctionOnSet(b, V)
    BY ONLY <1>2, <2>4, SumPlus
  <2>6. (\A m \in V : a[m] \in Int) /\ \A m \in V : b[m] \in Int
    BY <2>4
  <2>7. SumFunctionOnSet(a, V) \in Int /\ SumFunctionOnSet(b, V) \in Int
    BY ONLY <1>2, <2>6, SumSplit
  <2> QED
    BY <1>3, <1>4, <1>5, <2>1, <2>2, <2>3, <2>5, <2>7
<1>7. SumFunctionOnSet(h, V) = SumFunctionOnSet(f, V) + SumFunctionOnSet(g, V)
  BY ONLY <1>2, <1>6, SumPlus
<1>8. (\A n \in V : f[n] \in Int) /\ \A n \in V : g[n] \in Int
  BY <1>6
<1>9. SumFunctionOnSet(f, V) \in Int /\ SumFunctionOnSet(g, V) \in Int
  BY ONLY <1>2, <1>8, SumSplit
<1> QED
  BY <1>1, <1>3, <1>4, <1>5, <1>7, <1>9 DEF SumOfRows

\* As many entries for one direction as for the other; and, of an
\* undirected graph, twice as many as edges.
LEMMA EntriesBothWays ==
  ASSUME InputOK, NEW g, GraphHolds(g, "out"), NEW h, GraphHolds(h, "in")
  PROVE  h.index[numNodes] = g.index[numNodes]
<1>1. numNodes \in Nat \ {0}
  BY InputFacts
<1>2. PICK F : F = Pair("out")
  OBVIOUS
<1>3. PICK G : G = Pair("in")
  OBVIOUS
<1>4. \A n, m \in Vertex : Joined("in", n, m) <=> Joined("out", m, n)
  BY DEF Joined, Weights
<1>5. ASSUME NEW n \in Vertex, NEW m \in Vertex PROVE F[<<n, m>>] \in Int /\ G[<<n, m>>] = F[<<m, n>>]
  <2>1. F[<<n, m>>] = (IF Joined("out", n, m) THEN 1 ELSE 0) /\ F[<<m, n>>] = IF Joined("out", m, n) THEN 1 ELSE 0
    BY <1>2 DEF Pair
  <2>2. G[<<n, m>>] = IF Joined("in", n, m) THEN 1 ELSE 0
    BY <1>3 DEF Pair
  <2> QED
    BY <1>4, <2>1, <2>2
<1>6. SumOfRows(G) = SumOfRows(F)
  BY <1>1, <1>5, RowsExchange
<1> QED
  BY <1>2, <1>3, <1>6, EntriesArePairs

\* An undirected graph has an even number of entries.
LEMMA EntriesEven ==
  ASSUME InputOK, input.symmetrize, NEW g, GraphHolds(g, "out")
  PROVE  2 * (g.index[numNodes] \div 2) = g.index[numNodes]
<1>1. numNodes \in Nat \ {0}
  BY InputFacts
<1>2. PICK P : P = Pair("out")
  OBVIOUS
<1>3. PICK F : F = [p \in Vertex \X Vertex |-> IF p[2] < p[1] THEN P[p] ELSE 0]
  OBVIOUS
<1>4. PICK G : G = [p \in Vertex \X Vertex |-> IF p[1] < p[2] THEN P[p] ELSE 0]
  OBVIOUS
<1>5. \A n, m : Given(n, m) = Given(m, n)
  BY DEF Given
<1>6. \A n, m \in Vertex : (Joined("out", n, m) <=> Joined("out", m, n)) /\ ~Joined("out", n, n)
  BY <1>5 DEF Joined, Weights
<1>7. ASSUME NEW n \in Vertex, NEW m \in Vertex
      PROVE  /\ P[<<n, m>>] = IF Joined("out", n, m) THEN 1 ELSE 0
             /\ F[<<n, m>>] = IF m < n THEN P[<<n, m>>] ELSE 0
             /\ G[<<n, m>>] = IF n < m THEN P[<<n, m>>] ELSE 0
  BY <1>2, <1>3, <1>4 DEF Pair
<1>8. ASSUME NEW n \in Vertex, NEW m \in Vertex
      PROVE  F[<<n, m>>] \in Int /\ G[<<n, m>>] \in Int /\ P[<<n, m>>] = F[<<n, m>>] + G[<<n, m>>]
  <2>1. m < n \/ n < m \/ n = m
    BY DEF Vertex
  <2>2. ~(m < n /\ n < m) /\ (n = m => ~(m < n) /\ ~(n < m))
    BY DEF Vertex
  <2> QED
    BY <1>6, <1>7, <2>1, <2>2
<1>9. ASSUME NEW n \in Vertex, NEW m \in Vertex PROVE G[<<n, m>>] = F[<<m, n>>]
  BY <1>6, <1>7
<1>10. SumOfRows(P) = SumOfRows(F) + SumOfRows(G) /\ SumOfRows(F) \in Int
  <2>1. \A n, m \in Vertex : F[<<n, m>>] \in Int /\ G[<<n, m>>] \in Int /\ P[<<n, m>>] = F[<<n, m>>] + G[<<n, m>>]
    BY <1>8
  <2> QED
    BY ONLY <1>1, <2>1, RowsPlus
<1>11. SumOfRows(G) = SumOfRows(F)
  BY <1>1, <1>8, <1>9, RowsExchange
<1>12. PICK k : k = SumOfRows(F)
  OBVIOUS
<1>13. g.index[numNodes] = k + k /\ k \in Int
  BY <1>2, <1>10, <1>11, <1>12, EntriesArePairs
<1>14. 2 * ((k + k) \div 2) = k + k
  BY <1>13
<1> QED
  BY <1>13, <1>14

-----------------------------------------------------------------------------
(* The two-pass builder, from the first pass to the squish.                *)
Sides == {"out", "in"}

DegreesRight == \A n \in Vertex : Degrees[n] = Cardinality(TokensOf(n)) /\ Degrees[n] \in Nat

TwoPass == InputOK /\ ~input.inPlace /\ side \in Sides

LEMMA DegreesFacts ==
  TwoPass => DegreesRight
BY DegreesAreTokens DEF DegreesRight, TwoPass, Sides

\* Both passes begin with every token still to get its place.
LEMMA BeginStep ==
  ASSUME InputOK, ~input.inPlace, NEW s \in Sides, NEW g, g = [r \in Sides |-> g[r]], g[s] = Empty,
         BeginCSR(s, g), \A t \in Threads : thread[t] = Idle, DOMAIN thread = Threads,
         input' = input, numNodes' = numNodes, thread' = thread
  PROVE  /\ CopyTypes' /\ \E U, cur, place : Copying(U, cur, place)'
         /\ csr' = [r \in Sides |-> csr'[r]] /\ side' = s
         /\ csr'[s] = [index |-> csr'[s].index, neighs |-> <<>>]
         /\ \A r \in Sides : r # s => csr'[r] = g[r]
         /\ \A n \in DOMAIN offsets' : offsets'[n] \in Nat
<1>1. PICK start : start = ParallelPrefixSum(CountDegrees(input.el, s = "in"))
  OBVIOUS
<1>2. /\ side' = s /\ offsets' = start /\ stage' = "copy" /\ todo' = DOMAIN input.el
      /\ neighs' = [p \in 0 .. start[numNodes] - 1 |-> Dest(-1, 0)]
      /\ csr' = [g EXCEPT ![s].index = start]
  BY <1>1 DEF BeginCSR
<1>3. /\ csr' = [r \in Sides |-> csr'[r]]
      /\ csr'[s] = [index |-> start, neighs |-> <<>>]
      /\ \A r \in Sides : r # s => csr'[r] = g[r]
  BY <1>2 DEF Empty
<1>4. csr'[s].index = start /\ Start' = start
  BY <1>2, <1>3 DEF Start
<1>5. InputOK' /\ ~input'.inPlace /\ side' \in {"out", "in"} /\ Vertex' = Vertex
  BY <1>2 DEF InputOK, Sides, Vertex
<1>6. Degrees' = CountDegrees(input.el, s = "in")
  BY <1>2, <1>5 DEF Degrees, CountDegrees
<1>7. \A n \in Vertex' : Degrees'[n] = Cardinality(TokensOf(n)') /\ Degrees'[n] \in Nat
  <2>0. TwoPass'
    BY <1>5 DEF TwoPass, Sides
  <2>1. DegreesRight'
    BY <2>0, DegreesFacts, PTL
  <2> QED
    BY <2>1 DEF DegreesRight
<1>8. numNodes \in Nat \ {0}
  BY InputFacts
<1>9. IsPrefixSum(start, Degrees')
  <2>1. PICK d : d = Degrees'
    OBVIOUS
  <2>2. \A n \in Vertex : d[n] \in Nat
    BY <1>5, <1>7, <2>1
  <2>3. IsPrefixSum(ParallelPrefixSum(d), d)
    BY <1>8, <2>2, PrefixSums
  <2> QED
    BY <1>1, <1>6, <2>1, <2>3
<1>10. start \in [0 .. numNodes -> Nat]
  BY <1>9 DEF IsPrefixSum
<1>11. CopyTypes'
  <2>1. IsPrefixSum(Start, Degrees)'
    BY <1>4, <1>5, <1>9 DEF IsPrefixSum
  <2>2. DOMAIN neighs' = 0 .. start[numNodes] - 1
    BY <1>2
  <2>3. DOMAIN csr' = {"out", "in"}
    <3>1. DOMAIN csr' = Sides
      BY <1>3
    <3> QED
      BY <3>1 DEF Sides
  <2> QED
    BY <1>2, <1>4, <1>5, <1>10, <2>1, <2>2, <2>3 DEF CopyTypes
<1>12. PICK U : U = Tokens'
  OBVIOUS
<1>13. PICK cur : cur = <<>>
  OBVIOUS
<1>14. Copying(U, cur, cur)'
  <2>1. \A x \in U : x \in Tokens' /\ x[1] \in todo'
    BY <1>2, <1>12 DEF Tokens
  <2>2. \A t \in Threads : thread'[t] = Idle
    OBVIOUS
  <2>3. \A t \in Threads : CopyThread(thread[t], cur[t], U, cur)'
    BY <2>2 DEF CopyThread, Idle
  <2>4. \A n \in Vertex' : offsets'[n] = Start'[n] + Cardinality(TokensOf(n)' \ U)
    <3> TAKE n \in Vertex'
    <3>1. TokensOf(n)' \ U = {}
      BY <1>12 DEF TokensOf
    <3>2. start[n] \in Nat
      <4>1. n \in 0 .. numNodes
        BY <1>5, <1>8 DEF Vertex
      <4> QED
        BY <1>10, <4>1
    <3>3. Cardinality(TokensOf(n)' \ U) = 0
      BY <3>1, FS_EmptySet
    <3>4. offsets'[n] = start[n] /\ Start'[n] = start[n]
      BY <1>2, <1>4
    <3> QED
      BY <3>2, <3>3, <3>4
  <2>5. \A s1, t \in Threads : ~(thread'[s1] # Idle)
    BY <2>2
  <2> QED
    BY <1>12, <2>1, <2>3, <2>4, <2>5 DEF Copying
<1> QED
  BY <1>2, <1>3, <1>10, <1>11, <1>14

-----------------------------------------------------------------------------
(* The in-place builder begins with the list sorted, without repetitions   *)
(* and self loops.                                                         *)
Arc == [u : Vertex, v : Vertex, w : Nat \ {0}]
Ahead(d, e) == IF d.u = e.u THEN d.v < e.v ELSE d.u < e.u
IsArc(n, m) == n # m /\ \E k \in DOMAIN input.el : input.el[k].u = n /\ input.el[k].v = m

SquishedArcs(r) ==
  /\ r \in Seq(Arc)
  /\ \A i, j \in 1 .. Len(r) : i < j => Ahead(r[i], r[j])
  /\ \A i \in 1 .. Len(r) : IsArc(r[i].u, r[i].v)
  /\ \A n, m : IsArc(n, m) => \E i \in 1 .. Len(r) : r[i].u = n /\ r[i].v = m

\* The squished edge list holds every arc once, in order.
LEMMA SquishedListHolds ==
  ASSUME InputOK
  PROVE  SquishedArcs(SquishedList(input.el))
<1>1. PICK el : el = input.el
  OBVIOUS
<1>2. PICK k : k = Len(el)
  OBVIOUS
<1>3. /\ k \in Nat /\ DOMAIN el = 1 .. k
      /\ \A i \in 1 .. k : el[i] \in Arc
  <2>1. el \in Seq(InputEdge) /\ DOMAIN el = 1 .. Len(el)
    BY <1>1, InputFacts
  <2>2. \A i \in DOMAIN el : el[i].u \in Vertex /\ el[i].v \in Vertex /\ el[i].w \in Nat \ {0}
    BY <1>1, InputFacts
  <2>3. \A i \in DOMAIN el : el[i] \in InputEdge
    BY <2>1
  <2>4. \A i \in DOMAIN el : el[i] \in Arc
    BY <2>2, <2>3 DEF InputEdge, Arc
  <2> QED
    BY <1>2, <2>1, <2>4
<1>4. \A i \in 1 .. k : el[i].u \in Int /\ el[i].v \in Int
  BY <1>3 DEF Arc, Vertex
<1>5. PICK less : less = {p \in (DOMAIN el) \X (DOMAIN el) : Ahead(el[p[1]], el[p[2]])}
  OBVIOUS
<1>6. \A i, j \in 1 .. k : <<i, j>> \in less <=> Ahead(el[i], el[j])
  BY <1>3, <1>5
<1>7. IsComparison(less, 1 .. k)
  <2>1. \A i \in 1 .. k : <<i, i>> \notin less
    BY <1>4, <1>6 DEF Ahead
  <2>2. \A h, i, j \in 1 .. k : <<h, i>> \in less /\ <<i, j>> \in less => <<h, j>> \in less
    <3> SUFFICES ASSUME NEW h \in 1 .. k, NEW i \in 1 .. k, NEW j \in 1 .. k, Ahead(el[h], el[i]), Ahead(el[i], el[j])
                 PROVE  Ahead(el[h], el[j])
      BY <1>6
    <3> QED
      BY <1>4 DEF Ahead
  <2>3. \A h, i, j \in 1 .. k : <<h, i>> \notin less /\ <<i, j>> \notin less => <<h, j>> \notin less
    <3> SUFFICES ASSUME NEW h \in 1 .. k, NEW i \in 1 .. k, NEW j \in 1 .. k, ~Ahead(el[h], el[i]), ~Ahead(el[i], el[j])
                 PROVE  ~Ahead(el[h], el[j])
      BY <1>6
    <3> QED
      BY <1>4 DEF Ahead
  <2> QED
    BY <2>1, <2>2, <2>3 DEF IsComparison
<1>8. PICK s : s = Sorted(el, less)
  OBVIOUS
<1>9. PICK pi : /\ Orders(pi, el, s)
                /\ \A i, j \in 1 .. k : i < j => <<pi[j], pi[i]>> \notin less
  BY <1>3, <1>7, <1>8, SortedInOrder
<1>10. /\ pi \in [1 .. k -> 1 .. k] /\ s = [i \in 1 .. k |-> el[pi[i]]]
       /\ \A j \in 1 .. k : \E i \in 1 .. k : pi[i] = j
  BY <1>3, <1>9 DEF Orders
<1>11. DOMAIN s = 1 .. k /\ \A i \in 1 .. k : s[i] = el[pi[i]] /\ pi[i] \in 1 .. k /\ s[i] \in Arc
  BY <1>3, <1>10
<1>12. \A i \in 1 .. k : s[i].u \in Int /\ s[i].v \in Int
  BY <1>4, <1>11
<1>13. \A i, j \in 1 .. k : i < j => ~Ahead(s[j], s[i])
  BY <1>6, <1>9, <1>11
<1>14. PICK S : S = {i \in 1 .. k : (i > 1 => ~(s[i - 1].u = s[i].u /\ s[i - 1].v = s[i].v)) /\ s[i].u # s[i].v}
  OBVIOUS
<1>15. PICK l : l = Kept(s, S)
  OBVIOUS
<1>16. SquishedList(el) = l
  <2>1. less = {p \in (DOMAIN el) \X (DOMAIN el) : IF el[p[1]].u = el[p[2]].u THEN el[p[1]].v < el[p[2]].v
                                                   ELSE el[p[1]].u < el[p[2]].u}
    BY <1>5 DEF Ahead
  <2>2. S = {i \in DOMAIN s : (i > 1 => ~(s[i - 1].u = s[i].u /\ s[i - 1].v = s[i].v)) /\ s[i].u # s[i].v}
    BY <1>11, <1>14
  <2> QED
    BY <1>8, <1>15, <2>1, <2>2 DEF SquishedList
<1>17. S \subseteq 1 .. k /\ IsFiniteSet(S) /\ S \in SUBSET Int /\ \A x \in S : s[x] \in Arc
  <2>1. S \subseteq 1 .. k /\ IsFiniteSet(1 .. k)
    BY <1>3, <1>14, FS_Interval
  <2>2. IsFiniteSet(S)
    BY <2>1, FS_Subset
  <2>3. 1 .. k \subseteq Int
    BY <1>3
  <2> QED
    BY <1>11, <2>1, <2>2, <2>3
<1>18. PICK c : c = Cardinality(S)
  OBVIOUS
<1>19. c \in Nat
  BY <1>17, <1>18, FS_CardinalityType
<1>20. PICK A : A = Arc
  OBVIOUS
<1>21. l \in Seq(A) /\ \E f : Keeps(f, c, S, s, l)
  <2>1. S \in SUBSET Int /\ IsFiniteSet(S) /\ \A x \in S : s[x] \in A
    BY <1>17, <1>20
  <2>2. Kept(s, S) \in Seq(A) /\ \E f : Keeps(f, Cardinality(S), S, s, Kept(s, S))
    BY ONLY <2>1, KeptInOrder
  <2> QED
    BY <1>15, <1>18, <2>2
<1>22. PICK f : /\ f \in [1 .. c -> S]
                /\ \A i, j \in 1 .. c : i < j => f[i] < f[j]
                /\ \A x \in S : \E i \in 1 .. c : f[i] = x
                /\ Len(l) = c
                /\ \A i \in 1 .. c : l[i] = s[f[i]]
  BY <1>21 DEF Keeps
<1>23. ASSUME NEW i \in 1 .. c, NEW j \in 1 .. c, i < j PROVE Ahead(l[i], l[j])
  <2>1. PICK x : x = f[i]
    OBVIOUS
  <2>2. PICK y : y = f[j]
    OBVIOUS
  <2>3. x \in 1 .. k /\ y \in 1 .. k /\ x < y /\ y \in S
    BY <1>17, <1>22, <1>23, <2>1, <2>2
  <2>4. y - 1 \in 1 .. k /\ (x = y - 1 \/ x < y - 1) /\ y - 1 < y /\ y > 1
    BY <1>3, <2>3
  <2>5. ~(s[y - 1].u = s[y].u /\ s[y - 1].v = s[y].v)
    BY <1>14, <2>3, <2>4
  <2>6. ~Ahead(s[y], s[y - 1]) /\ (x = y - 1 \/ ~Ahead(s[y - 1], s[x]))
    BY <1>13, <2>3, <2>4
  <2>7. Ahead(s[x], s[y])
    BY <1>12, <2>3, <2>4, <2>5, <2>6 DEF Ahead
  <2> QED
    BY <1>22, <2>1, <2>2, <2>7
<1>24. ASSUME NEW i \in 1 .. c PROVE IsArc(l[i].u, l[i].v)
  <2>1. f[i] \in S /\ f[i] \in 1 .. k /\ l[i] = s[f[i]]
    BY <1>17, <1>22
  <2>2. l[i].u # l[i].v
    BY <1>14, <2>1
  <2>3. l[i] = el[pi[f[i]]] /\ pi[f[i]] \in DOMAIN el
    BY <1>3, <1>11, <2>1
  <2> QED
    BY <1>1, <2>2, <2>3 DEF IsArc
<1>25. ASSUME NEW n, NEW m, IsArc(n, m) PROVE \E i \in 1 .. c : l[i].u = n /\ l[i].v = m
  <2>1. PICK B : B = {i \in 1 .. k : s[i].u = n /\ s[i].v = m}
    OBVIOUS
  <2>2. B # {}
    <3>1. PICK j \in 1 .. k : el[j].u = n /\ el[j].v = m
      BY <1>1, <1>3, <1>25 DEF IsArc
    <3>2. PICK i \in 1 .. k : pi[i] = j
      BY <1>10
    <3> QED
      BY <1>11, <2>1, <3>1, <3>2
  <2>3. IsFiniteSet(B) /\ B \in SUBSET Int
    <3>1. B \subseteq 1 .. k /\ IsFiniteSet(1 .. k) /\ 1 .. k \subseteq Int
      BY <1>3, <2>1, FS_Interval
    <3>2. IsFiniteSet(B)
      BY <3>1, FS_Subset
    <3> QED
      BY <3>1, <3>2
  <2>4. PICK x \in B : \A y \in B : x <= y
    BY <2>2, <2>3, SmallestNumber
  <2>5. x \in 1 .. k /\ s[x].u = n /\ s[x].v = m
    BY <2>1
  <2>6. x > 1 => ~(s[x - 1].u = s[x].u /\ s[x - 1].v = s[x].v)
    <3> SUFFICES ASSUME x > 1, s[x - 1].u = s[x].u, s[x - 1].v = s[x].v PROVE FALSE
      OBVIOUS
    <3>1. x - 1 \in 1 .. k /\ ~(x <= x - 1)
      BY <1>3, <2>5
    <3>2. x - 1 \in B
      BY <2>1, <2>5, <3>1
    <3> QED
      BY <2>4, <3>1, <3>2
  <2>7. x \in S
    BY <1>14, <1>25, <2>5, <2>6 DEF IsArc
  <2> QED
    BY <1>22, <2>5, <2>7
<1> QED
  BY <1>1, <1>16, <1>20, <1>21, <1>22, <1>23, <1>24, <1>25 DEF SquishedArcs

-----------------------------------------------------------------------------
(* The loops of the in-place builder. Where a list begins, as many         *)
(* elements lie before it as belong to smaller vertices.                   *)
Occurs(f, k, n) == Cardinality({j \in 1 .. k : f[j] = n})
Counted(f, D) == [n \in Vertex |-> Cardinality({j \in D : f[j] = n})]

LEMMA CountedFacts ==
  ASSUME numNodes \in Nat \ {0}, NEW D, IsFiniteSet(D), NEW f, \A j \in D : f[j] \in Vertex
  PROVE  \A n \in Vertex : /\ Counted(f, D)[n] = Cardinality({j \in D : f[j] = n})
                           /\ Counted(f, D)[n] \in Nat
<1> TAKE n \in Vertex
<1>1. IsFiniteSet({j \in D : f[j] = n})
  BY FS_Subset
<1>2. Cardinality({j \in D : f[j] = n}) \in Nat
  BY <1>1, FS_CardinalityType
<1> QED
  BY <1>2 DEF Counted

\* A prefix sum of counts counts what lies below.
LEMMA CountsBelow ==
  ASSUME numNodes \in Nat \ {0}, NEW D, IsFiniteSet(D), NEW f, \A j \in D : f[j] \in Vertex,
         NEW P, IsPrefixSum(P, Counted(f, D))
  PROVE  \A n \in 0 .. numNodes : P[n] = Cardinality({j \in D : f[j] < n})
<1> DEFINE Q == {n \in Nat : P[n] = Cardinality({j \in D : f[j] < n})}
<1>1. P[0] = 0 /\ P \in [0 .. numNodes -> Nat] /\ \A n \in Vertex : P[n + 1] = P[n] + Counted(f, D)[n]
  BY DEF IsPrefixSum
<1>2. \A j \in D : f[j] \in Nat
  BY DEF Vertex
<1>3. 0 \in Q
  <2>1. {j \in D : f[j] < 0} = {}
    BY <1>2
  <2> QED
    BY <1>1, <2>1, FS_EmptySet
<1>4. ASSUME NEW n \in 1 .. numNodes, n - 1 \in Q PROVE n \in Q
  <2>1. PICK m : m = n - 1
    OBVIOUS
  <2>2. m \in Vertex /\ n = m + 1 /\ n \in Nat /\ m \in Nat
    BY <2>1 DEF Vertex
  <2>3. PICK A : A = {j \in D : f[j] < m}
    OBVIOUS
  <2>4. PICK B : B = {j \in D : f[j] = m}
    OBVIOUS
  <2>5. A \cup B = {j \in D : f[j] < n} /\ A \cap B = {}
    BY <1>2, <2>2, <2>3, <2>4
  <2>6. IsFiniteSet(A) /\ IsFiniteSet(B) /\ Cardinality(A) \in Nat /\ Cardinality(B) \in Nat
    <3>1. A \subseteq D /\ B \subseteq D
      BY <2>3, <2>4
    <3>2. IsFiniteSet(A) /\ IsFiniteSet(B)
      BY <3>1, FS_Subset
    <3> QED
      BY <3>2, FS_CardinalityType
  <2>7. Cardinality(A \cup B) = Cardinality(A) + Cardinality(B)
    <3>1. Cardinality(A \cup B) = Cardinality(A) + Cardinality(B) - Cardinality(A \cap B)
      BY <2>6, FS_Union
    <3>2. Cardinality(A \cap B) = 0
      BY <2>5, FS_EmptySet
    <3> QED
      BY <2>6, <3>1, <3>2
  <2>8. P[m] = Cardinality(A) /\ P[n] = P[m] + Cardinality(B)
    <3>1. Counted(f, D)[m] = Cardinality(B)
      BY <2>2, <2>4, CountedFacts
    <3> QED
      BY <1>1, <1>4, <2>1, <2>2, <2>3, <3>1
  <2> QED
    BY <2>2, <2>5, <2>7, <2>8
<1> HIDE DEF Q
<1>5. \A n \in 0 .. numNodes : n \in Q
  BY ONLY <1>3, <1>4, numNodes \in Nat \ {0}, UpTo
<1> QED
  BY <1>5 DEF Q

\* In a list ordered by source, an edge's place is where its source's list
\* begins and as many places on as edges of that source come before.
LEMMA PlaceInOrder ==
  ASSUME numNodes \in Nat \ {0}, NEW M \in Nat, NEW f, \A j \in 1 .. M : f[j] \in Vertex,
         \A i, j \in 1 .. M : i < j => f[i] <= f[j],
         NEW P, IsPrefixSum(P, Counted(f, 1 .. M)), NEW k \in 1 .. M
  PROVE  /\ P[f[k]] + Occurs(f, k - 1, f[k]) = k - 1
         /\ Occurs(f, k - 1, f[k]) \in Nat
<1>1. PICK n : n = f[k]
  OBVIOUS
<1>2. n \in Vertex /\ n \in 0 .. numNodes /\ n \in Nat
  BY <1>1 DEF Vertex
<1>3. \A j \in 1 .. M : f[j] \in Nat
  BY DEF Vertex
<1>4. PICK A : A = {j \in 1 .. M : f[j] < n}
  OBVIOUS
<1>5. PICK B : B = {j \in 1 .. k - 1 : f[j] = n}
  OBVIOUS
<1>6. IsFiniteSet(1 .. M) /\ Cardinality(1 .. M) = M /\ IsFiniteSet(1 .. k - 1) /\ Cardinality(1 .. k - 1) = k - 1
  <2>1. k - 1 \in Nat
    OBVIOUS
  <2> QED
    BY <2>1, FS_Interval
<1>7. P[n] = Cardinality(A)
  BY <1>2, <1>4, <1>6, CountsBelow
<1>8. A \cup B = 1 .. k - 1 /\ A \cap B = {}
  <2>1. ASSUME NEW j \in A PROVE j \in 1 .. k - 1 /\ j \notin B
    <3>1. j \in 1 .. M /\ f[j] < n
      BY <1>4
    <3>2. ~(k < j) /\ j # k
      BY <1>1, <1>2, <1>3, <3>1
    <3>3. j < k
      BY <3>1, <3>2
    <3> QED
      BY <1>2, <1>3, <1>5, <3>1, <3>3
  <2>2. ASSUME NEW j \in 1 .. k - 1 PROVE j \in A \cup B
    <3>1. j \in 1 .. M /\ j < k
      OBVIOUS
    <3>2. f[j] <= n /\ f[j] \in Nat
      BY <1>1, <1>3, <3>1
    <3> QED
      BY <1>2, <1>4, <1>5, <3>1, <3>2
  <2>3. B \subseteq 1 .. k - 1
    BY <1>5
  <2> QED
    BY <2>1, <2>2, <2>3
<1>9. IsFiniteSet(A) /\ IsFiniteSet(B) /\ Cardinality(A) \in Nat /\ Cardinality(B) \in Nat
  <2>1. A \subseteq 1 .. M /\ B \subseteq 1 .. k - 1
    BY <1>4, <1>5
  <2>2. IsFiniteSet(A) /\ IsFiniteSet(B)
    BY <1>6, <2>1, FS_Subset
  <2> QED
    BY <2>2, FS_CardinalityType
<1>10. Cardinality(A \cup B) = Cardinality(A) + Cardinality(B)
  <2>1. Cardinality(A \cup B) = Cardinality(A) + Cardinality(B) - Cardinality(A \cap B)
    BY <1>9, FS_Union
  <2>2. Cardinality(A \cap B) = 0
    BY <1>8, FS_EmptySet
  <2> QED
    BY <1>9, <2>1, <2>2
<1> QED
  BY <1>1, <1>5, <1>6, <1>7, <1>8, <1>9, <1>10 DEF Occurs

\* One more element counted.
LEMMA CountOneMore ==
  ASSUME NEW k \in Nat \ {0}, NEW f, NEW n
  PROVE  /\ f[k] = n => Occurs(f, k, n) = Occurs(f, k - 1, n) + 1
         /\ f[k] # n => Occurs(f, k, n) = Occurs(f, k - 1, n)
         /\ Occurs(f, k - 1, n) \in Nat
<1>1. PICK A : A = {j \in 1 .. k - 1 : f[j] = n}
  OBVIOUS
<1>2. IsFiniteSet(A) /\ Cardinality(A) \in Nat
  <2>1. A \subseteq 1 .. k - 1 /\ IsFiniteSet(1 .. k - 1)
    BY <1>1, FS_Interval
  <2>2. IsFiniteSet(A)
    BY <2>1, FS_Subset
  <2> QED
    BY <2>2, FS_CardinalityType
<1>3. k \notin A
  BY <1>1
<1>4. CASE f[k] = n
  <2>1. {j \in 1 .. k : f[j] = n} = A \cup {k}
    BY <1>1, <1>4
  <2>2. Cardinality(A \cup {k}) = Cardinality(A) + 1
    BY <1>2, <1>3, FS_AddElement
  <2> QED
    BY <1>1, <1>2, <1>4, <2>1, <2>2 DEF Occurs
<1>5. CASE f[k] # n
  <2>1. {j \in 1 .. k : f[j] = n} = A
    BY <1>1, <1>5
  <2> QED
    BY <1>1, <1>2, <1>5, <2>1 DEF Occurs
<1> QED
  BY <1>4, <1>5

Sources(r) == [k \in 1 .. Len(r) |-> r[k].u]
Targets(r) == [k \in 1 .. Len(r) |-> r[k].v]

PutTarget(m, c) ==
  [cell |-> [m.cell EXCEPT ![m.at[m.cell[c]]] = m.cell[c + 1]],
   at |-> [m.at EXCEPT ![m.cell[c]] = @ + 1]]

PairCells(r) == [c \in 0 .. 2 * Len(r) - 1 |-> IF c % 2 = 0 THEN r[c \div 2 + 1].u ELSE r[c \div 2 + 1].v]

\* After k rounds the first k cells have the first k targets, and the
\* others, from which all later edges are read, are as they were.
OverwriteStates(r, start, k) ==
  {m \in [cell : [0 .. 2 * Len(r) - 1 -> Vertex], at : [0 .. numNodes -> Nat]] :
     /\ \A p \in 0 .. 2 * Len(r) - 1 : m.cell[p] = IF p < k THEN r[p + 1].v ELSE PairCells(r)[p]
     /\ \A n \in 0 .. numNodes : m.at[n] = start[n] + Occurs(Sources(r), k, n)}

LEMMA ArcFacts ==
  ASSUME numNodes \in Nat \ {0}, NEW r, SquishedArcs(r)
  PROVE  /\ Len(r) \in Nat /\ DOMAIN r = 1 .. Len(r)
         /\ \A k \in 1 .. Len(r) : /\ r[k].u \in Vertex /\ r[k].v \in Vertex
                                   /\ r[k].u \in Nat /\ r[k].v \in Nat
                                   /\ Sources(r)[k] = r[k].u /\ Targets(r)[k] = r[k].v
         /\ \A i, j \in 1 .. Len(r) : i < j => Sources(r)[i] <= Sources(r)[j]
<1>1. r \in Seq(Arc)
  BY DEF SquishedArcs
<1>2. Len(r) \in Nat /\ DOMAIN r = 1 .. Len(r) /\ \A k \in 1 .. Len(r) : r[k] \in Arc
  BY <1>1
<1>3. \A k \in 1 .. Len(r) : /\ r[k].u \in Vertex /\ r[k].v \in Vertex
                             /\ r[k].u \in Nat /\ r[k].v \in Nat
                             /\ Sources(r)[k] = r[k].u /\ Targets(r)[k] = r[k].v
  BY <1>2 DEF Arc, Vertex, Sources, Targets
<1>4. \A i, j \in 1 .. Len(r) : i < j => Sources(r)[i] <= Sources(r)[j]
  <2> SUFFICES ASSUME NEW i \in 1 .. Len(r), NEW j \in 1 .. Len(r), i < j
               PROVE  Sources(r)[i] <= Sources(r)[j]
    OBVIOUS
  <2>1. Ahead(r[i], r[j])
    BY DEF SquishedArcs
  <2> QED
    BY <1>3, <2>1 DEF Ahead
<1> QED
  BY <1>2, <1>3, <1>4

\* One edge is read from its two cells and written to one no edge still needs.
LEMMA OverwriteRound ==
  ASSUME numNodes \in Nat \ {0}, NEW r, SquishedArcs(r),
         NEW start, IsPrefixSum(start, Counted(Sources(r), 1 .. Len(r))),
         NEW k \in 1 .. Len(r), NEW m \in OverwriteStates(r, start, k - 1)
  PROVE  PutTarget(m, 2 * (k - 1)) \in OverwriteStates(r, start, k)
<1>1. PICK M : M = Len(r)
  OBVIOUS
<1>2. PICK f : f = Sources(r)
  OBVIOUS
<1>3. /\ M \in Nat /\ \A j \in 1 .. M : /\ r[j].u \in Vertex /\ r[j].v \in Vertex
                                        /\ r[j].u \in Nat /\ f[j] = r[j].u
      /\ \A i, j \in 1 .. M : i < j => f[i] <= f[j]
  BY <1>1, <1>2, ArcFacts
<1>4. PICK cell : cell = m.cell
  OBVIOUS
<1>5. PICK at : at = m.at
  OBVIOUS
<1>6. /\ cell \in [0 .. 2 * M - 1 -> Vertex] /\ at \in [0 .. numNodes -> Nat]
      /\ \A p \in 0 .. 2 * M - 1 : cell[p] = IF p < k - 1 THEN r[p + 1].v ELSE PairCells(r)[p]
      /\ \A n \in 0 .. numNodes : at[n] = start[n] + Occurs(f, k - 1, n)
  BY <1>1, <1>2, <1>4, <1>5 DEF OverwriteStates
<1>7. PICK c : c = 2 * (k - 1)
  OBVIOUS
<1>8. /\ k \in 1 .. M /\ c \in 0 .. 2 * M - 1 /\ c + 1 \in 0 .. 2 * M - 1
      /\ ~(c < k - 1) /\ ~(c + 1 < k - 1) /\ c % 2 = 0 /\ c \div 2 + 1 = k
      /\ (c + 1) % 2 # 0 /\ (c + 1) \div 2 + 1 = k
  <2>1. PICK j : j = k - 1
    OBVIOUS
  <2>2. M \in Nat /\ k \in 1 .. M /\ j \in Nat /\ k = j + 1 /\ c = 2 * j
    BY <1>1, <1>3, <1>7, <2>1
  <2>3. (2 * j) % 2 = 0 /\ (2 * j) \div 2 = j
    BY ONLY <2>2
  <2>4. (2 * j + 1) % 2 = 1 /\ (2 * j + 1) \div 2 = j
    BY ONLY <2>2
  <2>5. k \in 1 .. M /\ c \in 0 .. 2 * M - 1 /\ c + 1 \in 0 .. 2 * M - 1
    BY ONLY <2>2
  <2>6. ~(c < k - 1) /\ ~(c + 1 < k - 1)
    BY ONLY <2>2
  <2> QED
    BY ONLY <2>2, <2>3, <2>4, <2>5, <2>6
<1>9. cell[c] = r[k].u /\ cell[c + 1] = r[k].v
  <2>1. PairCells(r)[c] = r[k].u /\ PairCells(r)[c + 1] = r[k].v
    BY <1>1, <1>8 DEF PairCells
  <2> QED
    BY <1>6, <1>8, <2>1
<1>10. PICK n : n = r[k].u
  OBVIOUS
<1>11. n \in Vertex /\ n \in 0 .. numNodes /\ f[k] = n
  BY <1>3, <1>8, <1>10 DEF Vertex
<1>12. at[n] = k - 1
  <2>1. \A j \in 1 .. M : f[j] \in Vertex
    BY <1>3
  <2>2. IsPrefixSum(start, Counted(f, 1 .. M))
    BY <1>1, <1>2
  <2>3. start[f[k]] + Occurs(f, k - 1, f[k]) = k - 1
    <3>1. M \in Nat /\ k \in 1 .. M /\ numNodes \in Nat \ {0}
      BY <1>3, <1>8
    <3>2. \A i, j \in 1 .. M : i < j => f[i] <= f[j]
      BY <1>3
    <3> QED
      BY ONLY <2>1, <2>2, <3>1, <3>2, PlaceInOrder
  <2> QED
    BY <1>6, <1>11, <2>3
<1>13. PICK cell2 : cell2 = [cell EXCEPT ![k - 1] = r[k].v]
  OBVIOUS
<1>14. PICK at2 : at2 = [at EXCEPT ![n] = @ + 1]
  OBVIOUS
<1>15. PutTarget(m, 2 * (k - 1)) = [cell |-> cell2, at |-> at2]
  BY <1>4, <1>5, <1>7, <1>9, <1>10, <1>12, <1>13, <1>14 DEF PutTarget
<1>16. k - 1 \in 0 .. 2 * M - 1 /\ (k - 1) + 1 = k
  BY <1>3, <1>8
<1>17. cell2 \in [0 .. 2 * M - 1 -> Vertex]
  BY <1>3, <1>6, <1>8, <1>13
<1>18. \A p \in 0 .. 2 * M - 1 : cell2[p] = IF p < k THEN r[p + 1].v ELSE PairCells(r)[p]
  <2> TAKE p \in 0 .. 2 * M - 1
  <2>1. CASE p = k - 1
    BY <1>6, <1>13, <1>16, <2>1
  <2>2. CASE p # k - 1
    <3>1. cell2[p] = cell[p] /\ (p < k <=> p < k - 1)
      BY <1>6, <1>8, <1>13, <2>2
    <3> QED
      BY <1>6, <3>1
  <2> QED
    BY <2>1, <2>2
<1>19. \A q \in 0 .. numNodes : start[q] \in Nat
  BY DEF IsPrefixSum
<1>20. at2 \in [0 .. numNodes -> Nat]
  BY <1>6, <1>11, <1>14
<1>21. \A q \in 0 .. numNodes : at2[q] = start[q] + Occurs(f, k, q)
  <2> TAKE q \in 0 .. numNodes
  <2>1. PICK x : x = Occurs(f, k - 1, q)
    OBVIOUS
  <2>2. PICK y : y = Occurs(f, k, q)
    OBVIOUS
  <2>3. k \in Nat \ {0}
    OBVIOUS
  <2>4. x \in Nat /\ (f[k] = q => y = x + 1) /\ (f[k] # q => y = x)
    BY <2>1, <2>2, <2>3, CountOneMore
  <2>5. at[q] = start[q] + x /\ start[q] \in Nat
    BY <1>6, <1>19, <2>1
  <2>6. CASE q = n
    <3>1. at2[n] = at[n] + 1
      BY <1>6, <1>11, <1>14
    <3>2. y = x + 1
      BY <1>11, <2>4, <2>6
    <3>3. at2[q] = start[q] + x + 1
      BY <2>5, <2>6, <3>1
    <3> QED
      BY <2>2, <2>4, <2>5, <3>2, <3>3
  <2>7. CASE q # n
    BY <1>6, <1>11, <1>14, <2>2, <2>4, <2>5, <2>7
  <2> QED
    BY <2>6, <2>7
<1>22. PICK z : z = [cell |-> cell2, at |-> at2]
  OBVIOUS
<1>23. z.cell = cell2 /\ z.at = at2 /\ z \in [cell : [0 .. 2 * M - 1 -> Vertex], at : [0 .. numNodes -> Nat]]
  BY <1>17, <1>20, <1>22
<1>24. z \in OverwriteStates(r, start, k)
  BY <1>1, <1>2, <1>18, <1>21, <1>23 DEF OverwriteStates
<1> QED
  BY <1>15, <1>22, <1>24

\* The degrees of sources, as the in-place builder counts them.
LEMMA SourcesCounted ==
  ASSUME InputOK, input.inPlace, NEW r, SquishedArcs(r)
  PROVE  /\ CountDegrees(r, FALSE) = Counted(Sources(r), 1 .. Len(r))
         /\ \A n \in Vertex : CountDegrees(r, FALSE)[n] \in Nat
<1>1. Len(r) \in Nat /\ DOMAIN r = 1 .. Len(r) /\ IsFiniteSet(1 .. Len(r))
  BY InputFacts, ArcFacts, FS_Interval
<1>2. input.symmetrize \in BOOLEAN /\ numNodes \in Nat \ {0}
  BY InputFacts
<1>3. \A n \in Vertex : /\ {k \in DOMAIN r : (input.symmetrize \/ ~FALSE) /\ r[k].u = n} = {k \in 1 .. Len(r) : Sources(r)[k] = n}
                        /\ {k \in DOMAIN r : ((input.symmetrize /\ ~input.inPlace) \/ (~input.symmetrize /\ FALSE)) /\ r[k].v = n} = {}
  BY <1>1 DEF Sources
<1>4. \A n \in Vertex : /\ Counted(Sources(r), 1 .. Len(r))[n] = Cardinality({k \in 1 .. Len(r) : Sources(r)[k] = n})
                        /\ Counted(Sources(r), 1 .. Len(r))[n] \in Nat
  <2>1. \A j \in 1 .. Len(r) : Sources(r)[j] \in Vertex
    BY <1>2, ArcFacts
  <2> QED
    BY <1>1, <1>2, <2>1, CountedFacts
<1>5. PICK z : z = Counted(Sources(r), 1 .. Len(r))
  OBVIOUS
<1>6. z = [n \in Vertex |-> z[n]] /\ \A n \in Vertex : z[n] \in Nat
  BY <1>4, <1>5 DEF Counted
<1>7. Cardinality({}) = 0
  BY FS_EmptySet
<1>8. PICK d : d = CountDegrees(r, FALSE)
  OBVIOUS
<1>9. d = [n \in Vertex |-> d[n]]
  BY <1>8 DEF CountDegrees
<1>10. \A n \in Vertex : d[n] = z[n] + 0
  BY <1>3, <1>4, <1>5, <1>7, <1>8 DEF CountDegrees
<1>11. \A n \in Vertex : d[n] = z[n]
  BY <1>6, <1>10
<1>12. d = z
  BY <1>6, <1>9, <1>11
<1> QED
  BY <1>5, <1>6, <1>8, <1>12

\* The degrees of targets, unless the graph is symmetrized.
LEMMA TargetsCounted ==
  ASSUME InputOK, input.inPlace, ~input.symmetrize, NEW r, SquishedArcs(r)
  PROVE  CountDegrees(r, TRUE) = Counted(Targets(r), 1 .. Len(r))
<1>1. Len(r) \in Nat /\ DOMAIN r = 1 .. Len(r) /\ IsFiniteSet(1 .. Len(r))
  BY InputFacts, ArcFacts, FS_Interval
<1>2. numNodes \in Nat \ {0}
  BY InputFacts
<1>3. \A n \in Vertex : /\ {k \in DOMAIN r : (input.symmetrize \/ ~TRUE) /\ r[k].u = n} = {}
                        /\ {k \in DOMAIN r : ((input.symmetrize /\ ~input.inPlace) \/ (~input.symmetrize /\ TRUE)) /\ r[k].v = n}
                             = {k \in 1 .. Len(r) : Targets(r)[k] = n}
  BY <1>1 DEF Targets
<1>4. \A n \in Vertex : /\ Counted(Targets(r), 1 .. Len(r))[n] = Cardinality({k \in 1 .. Len(r) : Targets(r)[k] = n})
                        /\ Counted(Targets(r), 1 .. Len(r))[n] \in Nat
  <2>1. \A j \in 1 .. Len(r) : Targets(r)[j] \in Vertex
    BY <1>2, ArcFacts
  <2> QED
    BY <1>1, <1>2, <2>1, CountedFacts
<1>5. PICK z : z = Counted(Targets(r), 1 .. Len(r))
  OBVIOUS
<1>6. z = [n \in Vertex |-> z[n]] /\ \A n \in Vertex : z[n] \in Nat
  BY <1>4, <1>5 DEF Counted
<1>7. Cardinality({}) = 0
  BY FS_EmptySet
<1>8. PICK d : d = CountDegrees(r, TRUE)
  OBVIOUS
<1>9. d = [n \in Vertex |-> d[n]]
  BY <1>8 DEF CountDegrees
<1>10. \A n \in Vertex : d[n] = 0 + z[n]
  BY <1>3, <1>4, <1>5, <1>7, <1>8 DEF CountDegrees
<1>11. \A n \in Vertex : d[n] = z[n]
  BY <1>6, <1>10
<1> QED
  BY <1>5, <1>6, <1>8, <1>9, <1>11

\* What the overwriting loop leaves.
LEMMA OverwrittenHolds ==
  ASSUME InputOK, input.inPlace, NEW r, SquishedArcs(r)
  PROVE  \E start : /\ IsPrefixSum(start, Counted(Sources(r), 1 .. Len(r)))
                    /\ Overwritten(r) \in OverwriteStates(r, start, Len(r))
<1>1. PICK M : M = Len(r)
  OBVIOUS
<1>2. PICK start : start = ParallelPrefixSum(CountDegrees(r, FALSE))
  OBVIOUS
<1>3. numNodes \in Nat \ {0} /\ M \in Nat /\ 0 \in 0 .. M /\ M \in 0 .. M
  BY <1>1, InputFacts, ArcFacts
<1>4. IsPrefixSum(start, Counted(Sources(r), 1 .. M))
  <2>1. PICK d : d = CountDegrees(r, FALSE)
    OBVIOUS
  <2>2. d = Counted(Sources(r), 1 .. M) /\ \A n \in Vertex : d[n] \in Nat
    BY <1>1, <2>1, SourcesCounted
  <2>3. IsPrefixSum(ParallelPrefixSum(d), d)
    BY <1>3, <2>2, PrefixSums
  <2> QED
    BY <1>2, <2>1, <2>2, <2>3
<1>5. PICK first : first = [cell |-> PairCells(r), at |-> start]
  OBVIOUS
<1>6. first \in OverwriteStates(r, start, 0)
  <2>1. PICK c : c = PairCells(r)
    OBVIOUS
  <2>2. c \in [0 .. 2 * M - 1 -> Vertex]
    <3>1. \A p \in 0 .. 2 * M - 1 : p \div 2 + 1 \in 1 .. M
      BY <1>3
    <3>2. \A k \in 1 .. M : r[k].u \in Vertex /\ r[k].v \in Vertex
      BY <1>1, <1>3, ArcFacts
    <3> QED
      BY <1>1, <2>1, <3>1, <3>2 DEF PairCells
  <2>3. start \in [0 .. numNodes -> Nat]
    BY <1>4 DEF IsPrefixSum
  <2>4. \A n \in 0 .. numNodes : Occurs(Sources(r), 0, n) = 0
    <3> TAKE n \in 0 .. numNodes
    <3>1. {j \in 1 .. 0 : Sources(r)[j] = n} = {}
      OBVIOUS
    <3> QED
      BY <3>1, FS_EmptySet DEF Occurs
  <2>5. \A n \in 0 .. numNodes : start[n] = start[n] + Occurs(Sources(r), 0, n)
    <3> TAKE n \in 0 .. numNodes
    <3>1. Occurs(Sources(r), 0, n) = 0 /\ start[n] \in Nat
      BY <2>3, <2>4
    <3> QED
      BY <3>1
  <2>6. first.cell = c /\ first.at = start
    BY <1>5, <2>1
  <2>7. first \in [cell : [0 .. 2 * Len(r) - 1 -> Vertex], at : [0 .. numNodes -> Nat]]
    BY <1>1, <1>5, <2>1, <2>2, <2>3
  <2>8. \A p \in 0 .. 2 * Len(r) - 1 : first.cell[p] = IF p < 0 THEN r[p + 1].v ELSE PairCells(r)[p]
    BY <2>1, <2>6
  <2> QED
    BY <2>5, <2>6, <2>7, <2>8 DEF OverwriteStates
<1> DEFINE D == [k \in 0 .. M |-> OverwriteStates(r, start, k)]
           G == [k \in 1 .. M |-> [m \in D[k - 1] |-> PutTarget(m, 2 * (k - 1))]]
           Solves(F) == F = [k \in 0 .. M |-> IF k = 0 THEN first ELSE PutTarget(F[k - 1], 2 * (k - 1))]
<1>7. \A k \in 1 .. M : \A m \in D[k - 1] :
        PutTarget(m, 2 * (k - 1)) \in D[k] /\ G[k][m] = PutTarget(m, 2 * (k - 1))
  <2> SUFFICES ASSUME NEW k \in 1 .. M, NEW m \in D[k - 1]
               PROVE  PutTarget(m, 2 * (k - 1)) \in D[k] /\ G[k][m] = PutTarget(m, 2 * (k - 1))
    OBVIOUS
  <2>1. k \in 0 .. M /\ k - 1 \in 0 .. M
    BY <1>3
  <2>2. m \in OverwriteStates(r, start, k - 1)
    BY <2>1
  <2>3. PutTarget(m, 2 * (k - 1)) \in OverwriteStates(r, start, k)
    BY <1>1, <1>3, <1>4, <2>2, OverwriteRound
  <2> QED
    BY <2>1, <2>3
<1>8. first \in D[0]
  BY <1>3, <1>6
<1>9. \E F : Follows(F, M, first, G) /\ \A k \in 0 .. M : F[k] \in D[k]
  <2>1. \A k \in 1 .. M : \A m \in D[k - 1] : G[k][m] \in D[k]
    BY <1>7
  <2> HIDE DEF G, D
  <2> QED
    BY <1>3, <1>8, <2>1, Recursion
<1>10. \E F : Solves(F)
  <2> HIDE DEF D
  <2>1. PICK F : Follows(F, M, first, G) /\ \A k \in 0 .. M : F[k] \in D[k]
    BY <1>9
  <2> HIDE DEF G
  <2>2. F = [k \in 0 .. M |-> IF k = 0 THEN first ELSE G[k][F[k - 1]]]
    BY <2>1 DEF Follows
  <2>3. \A k \in 0 .. M : k # 0 => k - 1 \in 0 .. M /\ k \in 1 .. M
    BY <1>3
  <2>4. \A k \in 0 .. M : k # 0 => G[k][F[k - 1]] = PutTarget(F[k - 1], 2 * (k - 1))
    BY <1>7, <2>1, <2>3
  <2> HIDE DEF Follows
  <2>5. Solves(F)
    BY <2>2, <2>4
  <2> QED
    BY <2>5
<1>11. PICK F : F = CHOOSE H : Solves(H)
  OBVIOUS
<1>12. Overwritten(r) = F[M]
  BY <1>1, <1>2, <1>5, <1>11 DEF Overwritten, PutTarget, PairCells
<1>13. Solves(F)
  BY <1>10, <1>11
<1>14. F[0] = first /\ \A k \in 1 .. M : F[k] = PutTarget(F[k - 1], 2 * (k - 1))
  BY <1>3, <1>13
<1> HIDE DEF Solves
<1>15. \A k \in 0 .. M : F[k] \in D[k]
  <2> DEFINE P == {k \in 0 .. M : F[k] \in D[k]}
  <2>1. 0 \in P
    BY <1>3, <1>8, <1>14
  <2>2. ASSUME NEW k \in 1 .. M, k - 1 \in P PROVE k \in P
    <3>1. F[k] = PutTarget(F[k - 1], 2 * (k - 1)) /\ F[k - 1] \in D[k - 1] /\ k \in 0 .. M
      BY <1>3, <1>14, <2>2
    <3> HIDE DEF D
    <3>2. PutTarget(F[k - 1], 2 * (k - 1)) \in D[k]
      BY <1>7, <3>1
    <3> QED
      BY <3>1, <3>2
  <2> HIDE DEF P
  <2>3. \A k \in 0 .. M : k \in P
    BY <1>3, <2>1, <2>2, UpTo
  <2> QED
    BY <2>3 DEF P
<1>16. F[M] \in OverwriteStates(r, start, M)
  BY <1>3, <1>15
<1> QED
  BY <1>1, <1>4, <1>12, <1>16

Arcs == SquishedList(input.el)

\* The arcs r lie in cell, vertex by vertex, with the index start.
Laid(r, start, cell) ==
  /\ IsPrefixSum(start, Counted(Sources(r), 1 .. Len(r)))
  /\ \A p \in 0 .. Len(r) - 1 : cell[p] = r[p + 1].v

\* After the overwriting the lists of targets lie one after another.
LEMMA OverwriteLays ==
  ASSUME InputOK, OverwriteEdges
  PROVE  Laid(Arcs, offsets', neighs')
<1>1. PICK r : r = SquishedList(input.el)
  OBVIOUS
<1>2. SquishedArcs(r) /\ input.inPlace /\ numNodes \in Nat \ {0}
  BY <1>1, SquishedListHolds, InputFacts DEF OverwriteEdges
<1>3. PICK M : M = Len(r)
  OBVIOUS
<1>4. M \in Nat
  BY <1>2, <1>3, ArcFacts
<1>5. PICK start : /\ IsPrefixSum(start, Counted(Sources(r), 1 .. M))
                   /\ Overwritten(r) \in OverwriteStates(r, start, M)
  BY <1>2, <1>3, OverwrittenHolds
<1>6. PICK m : m = Overwritten(r)
  OBVIOUS
<1>7. /\ \A p \in 0 .. 2 * M - 1 : m.cell[p] = IF p < M THEN r[p + 1].v ELSE PairCells(r)[p]
      /\ \A n \in 0 .. numNodes : m.at[n] = start[n] + Occurs(Sources(r), M, n)
  BY <1>3, <1>5, <1>6 DEF OverwriteStates
<1>8. /\ offsets' = [n \in 0 .. numNodes |-> IF n = 0 THEN 0 ELSE m.at[n - 1]]
      /\ neighs' = m.cell
  BY <1>1, <1>6 DEF OverwriteEdges
<1>9. /\ start \in [0 .. numNodes -> Nat] /\ start[0] = 0
      /\ \A n \in Vertex : n + 1 \in 0 .. numNodes /\ start[n + 1] = start[n] + Counted(Sources(r), 1 .. M)[n]
  BY <1>5 DEF IsPrefixSum
<1>10. \A n \in 0 .. numNodes : n # 0 => m.at[n - 1] = start[n]
  <2> TAKE n \in 0 .. numNodes
  <2> HAVE n # 0
  <2>1. n - 1 \in Vertex /\ n - 1 \in 0 .. numNodes /\ (n - 1) + 1 = n
    BY <1>2 DEF Vertex
  <2>2. Counted(Sources(r), 1 .. M)[n - 1] = Occurs(Sources(r), M, n - 1)
    BY <2>1 DEF Counted, Occurs
  <2> QED
    BY <1>7, <1>9, <2>1, <2>2
<1>11. offsets' = start
  BY <1>8, <1>9, <1>10
<1>12. \A p \in 0 .. M - 1 : neighs'[p] = r[p + 1].v
  <2> TAKE p \in 0 .. M - 1
  <2>1. p \in 0 .. 2 * M - 1 /\ p < M
    BY <1>4
  <2> QED
    BY <1>7, <1>8, <2>1
<1> QED
  BY <1>1, <1>3, <1>5, <1>11, <1>12 DEF Laid, Arcs

\* No two lists share a cell.
LEMMA ListsApart ==
  ASSUME numNodes \in Nat \ {0}, NEW d, \A n \in Vertex : d[n] \in Nat, NEW P, IsPrefixSum(P, d),
         NEW m \in Vertex, NEW n \in Vertex, NEW p, p \in P[m] .. P[m + 1] - 1, p \in P[n] .. P[n + 1] - 1
  PROVE  m = n
<1>1. ASSUME NEW i \in Vertex, NEW j \in Vertex, i < j,
             p \in P[i] .. P[i + 1] - 1, p \in P[j] .. P[j + 1] - 1
      PROVE  FALSE
  <2>1. i + 1 \in 0 .. numNodes /\ j \in (i + 1) .. numNodes /\ i \in 0 .. numNodes /\ j + 1 \in 0 .. numNodes
    BY <1>1 DEF Vertex
  <2>2. P[i + 1] <= P[j] /\ P[i + 1] \in Nat /\ P[j] \in Nat
    BY <2>1, PrefixGrows
  <2>3. P[i] \in Nat /\ P[j + 1] \in Nat
    BY <2>1 DEF IsPrefixSum
  <2> QED
    BY <1>1, <2>2, <2>3
<1>2. m \in Int /\ n \in Int
  BY DEF Vertex
<1>3. m < n \/ n < m \/ m = n
  BY <1>2
<1> QED
  BY <1>1, <1>3

\* The cells of the list of n are those of the arcs that leave n.
LEMMA LaidFacts ==
  ASSUME numNodes \in Nat \ {0}, NEW r, SquishedArcs(r), NEW start,
         IsPrefixSum(start, Counted(Sources(r), 1 .. Len(r)))
  PROVE  /\ start[numNodes] = Len(r)
         /\ \A k \in 1 .. Len(r) : k - 1 \in start[r[k].u] .. start[r[k].u + 1] - 1
         /\ \A n \in Vertex : \A p \in start[n] .. start[n + 1] - 1 :
              p + 1 \in 1 .. Len(r) /\ r[p + 1].u = n
         /\ \A n \in Vertex : /\ start[n] \in Nat /\ start[n + 1] \in Nat
                              /\ start[n] <= start[n + 1] /\ start[n + 1] <= Len(r)
<1>1. PICK M : M = Len(r)
  OBVIOUS
<1>2. PICK f : f = Sources(r)
  OBVIOUS
<1>3. /\ M \in Nat /\ \A j \in 1 .. M : r[j].u \in Vertex /\ r[j].u \in Nat /\ f[j] = r[j].u
      /\ \A i, j \in 1 .. M : i < j => f[i] <= f[j]
      /\ \A j \in 1 .. M : f[j] \in Vertex
  BY <1>1, <1>2, ArcFacts
<1>4. IsFiniteSet(1 .. M)
  BY <1>3, FS_Interval
<1>5. PICK d : d = Counted(f, 1 .. M)
  OBVIOUS
<1>6. \A n \in Vertex : d[n] = Cardinality({j \in 1 .. M : f[j] = n}) /\ d[n] \in Nat
  <2>1. numNodes \in Nat \ {0} /\ \A j \in 1 .. M : f[j] \in Vertex
    BY <1>3
  <2>2. PICK S : S = 1 .. M
    OBVIOUS
  <2>3. \A n \in Vertex : Counted(f, S)[n] = Cardinality({j \in S : f[j] = n}) /\ Counted(f, S)[n] \in Nat
    <3>1. IsFiniteSet(S) /\ \A j \in S : f[j] \in Vertex
      BY ONLY <1>4, <2>1, <2>2
    <3> QED
      BY ONLY <2>1, <3>1, CountedFacts
  <2> QED
    BY ONLY <1>5, <2>2, <2>3
<1>7. IsPrefixSum(start, d)
  BY <1>1, <1>2, <1>5
<1>8. start[numNodes] = M
  <2>1. \A n \in 0 .. numNodes : start[n] = Cardinality({j \in 1 .. M : f[j] < n})
    BY <1>3, <1>4, <1>5, <1>7, CountsBelow
  <2>2. {j \in 1 .. M : f[j] < numNodes} = 1 .. M
    BY <1>3 DEF Vertex
  <2>3. Cardinality(1 .. M) = M
    BY <1>3, FS_Interval
  <2>4. numNodes \in 0 .. numNodes
    OBVIOUS
  <2> QED
    BY <2>1, <2>2, <2>3, <2>4
<1>9. \A n \in Vertex : /\ start[n] \in Nat /\ start[n + 1] \in Nat /\ start[n + 1] = start[n] + d[n]
                        /\ start[n] <= start[n + 1] /\ start[n + 1] <= M
  <2> TAKE n \in Vertex
  <2>1. n \in 0 .. numNodes /\ n + 1 \in 0 .. numNodes /\ numNodes \in (n + 1) .. numNodes
    BY DEF Vertex
  <2>2. start[n] \in Nat /\ start[n + 1] \in Nat /\ start[n + 1] = start[n] + d[n]
    BY <1>7, <2>1 DEF IsPrefixSum
  <2>3. start[n + 1] <= M
    BY <1>6, <1>7, <1>8, <2>1, PrefixGrows
  <2>4. d[n] \in Nat
    BY <1>6
  <2>5. start[n] <= start[n + 1]
    BY <2>2, <2>4
  <2> QED
    BY <2>2, <2>3, <2>5
<1>10. \A k \in 1 .. M : k - 1 \in start[f[k]] .. start[f[k] + 1] - 1
  <2> TAKE k \in 1 .. M
  <2>1. PICK n : n = f[k]
    OBVIOUS
  <2>2. PICK x : x = Occurs(f, k - 1, n)
    OBVIOUS
  <2>3. start[n] + x = k - 1 /\ x \in Nat
    BY <1>3, <1>5, <1>7, <2>1, <2>2, PlaceInOrder
  <2>4. Occurs(f, k, n) = x + 1
    <3>1. k \in Nat \ {0}
      OBVIOUS
    <3> QED
      BY <2>1, <2>2, <3>1, CountOneMore
  <2>5. Occurs(f, k, n) <= d[n]
    <3>1. PICK A : A = {j \in 1 .. k : f[j] = n}
      OBVIOUS
    <3>2. PICK B : B = {j \in 1 .. M : f[j] = n}
      OBVIOUS
    <3>3. n \in Vertex
      BY <1>3, <2>1
    <3>4. A \subseteq B /\ B \subseteq 1 .. M
      BY <1>3, <3>1, <3>2
    <3>5. IsFiniteSet(B)
      BY <1>4, <3>4, FS_Subset
    <3>6. Cardinality(A) <= Cardinality(B)
      BY <3>4, <3>5, FS_Subset
    <3> QED
      BY <1>6, <3>1, <3>2, <3>3, <3>6 DEF Occurs
  <2>6. n \in Vertex
    BY <1>3, <2>1
  <2>7. start[n] \in Nat /\ start[n + 1] \in Nat /\ start[n + 1] = start[n] + d[n] /\ d[n] \in Nat
    BY <1>6, <1>9, <2>6
  <2> QED
    BY <2>1, <2>3, <2>4, <2>5, <2>7
<1>11. ASSUME NEW n \in Vertex, NEW p \in start[n] .. start[n + 1] - 1
       PROVE  p + 1 \in 1 .. M /\ r[p + 1].u = n
  <2>1. p + 1 \in 1 .. M /\ (p + 1) - 1 = p
    BY <1>3, <1>9, <1>11
  <2>2. PICK k \in 1 .. M : k = p + 1
    BY <2>1
  <2>3. p \in start[f[k]] .. start[f[k] + 1] - 1 /\ f[k] \in Vertex
    BY <1>3, <1>10, <2>1, <2>2
  <2>4. f[k] = n
    BY <1>6, <1>7, <2>3, ListsApart
  <2> QED
    BY <1>3, <2>1, <2>2, <2>4
<1> QED
  BY <1>1, <1>3, <1>8, <1>9, <1>10, <1>11

\* The weights of a graph that is built in place.
LEMMA WeightsInPlace ==
  ASSUME InputOK, input.inPlace, NEW s \in Sides, NEW m \in Vertex, NEW n \in Vertex
  PROVE  /\ Weights(s, n, m) \subseteq {1}
         /\ Joined(s, n, m) => Least(Weights(s, n, m)) = 1
         /\ ~input.symmetrize /\ s = "out" => (Joined(s, n, m) <=> IsArc(n, m))
         /\ ~input.symmetrize /\ s = "in" => (Joined(s, n, m) <=> IsArc(m, n))
         /\ input.symmetrize => (Joined(s, n, m) <=> IsArc(n, m) \/ IsArc(m, n))
<1>1. input.symmetrize \in BOOLEAN /\ \A k \in DOMAIN input.el : input.el[k].w = 1
  BY InputFacts
<1>2. Weights(s, n, m) \subseteq {1}
  BY <1>1 DEF Weights, Given
<1>3. Joined(s, n, m) => Least(Weights(s, n, m)) = 1
  <2> HAVE Joined(s, n, m)
  <2>1. Weights(s, n, m) = {1}
    BY <1>2 DEF Joined
  <2> QED
    BY <2>1, LeastIs
<1>4. /\ ~input.symmetrize => (Given(n, m) # {} <=> \E k \in DOMAIN input.el : input.el[k].u = n /\ input.el[k].v = m)
      /\ ~input.symmetrize => (Given(m, n) # {} <=> \E k \in DOMAIN input.el : input.el[k].u = m /\ input.el[k].v = n)
      /\ input.symmetrize => (Given(n, m) # {} <=> \/ \E k \in DOMAIN input.el : input.el[k].u = n /\ input.el[k].v = m
                                                   \/ \E k \in DOMAIN input.el : input.el[k].u = m /\ input.el[k].v = n)
      /\ input.symmetrize => (Given(m, n) # {} <=> \/ \E k \in DOMAIN input.el : input.el[k].u = n /\ input.el[k].v = m
                                                   \/ \E k \in DOMAIN input.el : input.el[k].u = m /\ input.el[k].v = n)
  BY DEF Given
<1>5. ~input.symmetrize /\ s = "out" => (Joined(s, n, m) <=> IsArc(n, m))
  BY <1>4 DEF Joined, IsArc, Weights
<1>6. ~input.symmetrize /\ s = "in" => (Joined(s, n, m) <=> IsArc(m, n))
  BY <1>4 DEF Joined, IsArc, Weights
<1>7. input.symmetrize => (Joined(s, n, m) <=> IsArc(n, m) \/ IsArc(m, n))
  BY <1>4 DEF Joined, IsArc, Weights
<1> QED
  BY <1>2, <1>3, <1>5, <1>6, <1>7

\* What makes a list of neighbours of weight 1 right.
LEMMA ListHoldsInPlace ==
  ASSUME InputOK, input.inPlace, NEW s \in Sides, NEW n \in Vertex,
         NEW l \in Seq(Neighbor), \A i \in 1 .. Len(l) : l[i].w = 1,
         \A i, j \in 1 .. Len(l) : i < j => l[i].v < l[j].v,
         \A i \in 1 .. Len(l) : Joined(s, n, l[i].v),
         \A m \in Vertex : Joined(s, n, m) => \E i \in 1 .. Len(l) : l[i].v = m
  PROVE  ListHolds(l, s, n)
<1>1. \A i \in 1 .. Len(l) : l[i].v \in Vertex
  <2>1. \A i \in 1 .. Len(l) : l[i] \in Neighbor
    OBVIOUS
  <2> QED
    BY <2>1 DEF Neighbor
<1>2. {l[i].v : i \in 1 .. Len(l)} = {m \in Vertex \ {n} : Weights(s, n, m) # {}}
  BY <1>1 DEF Joined
<1>3. \A i \in 1 .. Len(l) : l[i].w = Least(Weights(s, n, l[i].v))
  BY <1>1, WeightsInPlace
<1> QED
  BY <1>2, <1>3 DEF ListHolds

\* The lists of a graph finished in place.
LEMMA FinishedFacts ==
  ASSUME numNodes \in Nat \ {0}, NEW d, \A n \in Vertex : d[n] \in Nat,
         NEW index, IsPrefixSum(index, d),
         NEW cell, \A p \in 0 .. index[numNodes] - 1 : cell[p] \in Vertex
  PROVE  /\ IsGraph(Finished(index, cell)) /\ Finished(index, cell).index = index
         /\ \A n \in Vertex :
              /\ index[n] \in Nat /\ index[n + 1] \in Nat /\ index[n] <= index[n + 1]
              /\ index[n + 1] <= index[numNodes]
              /\ Neigh(Finished(index, cell), n) \in Seq(Neighbor)
              /\ Len(Neigh(Finished(index, cell), n)) = index[n + 1] - index[n]
              /\ \A i \in 1 .. index[n + 1] - index[n] :
                   /\ index[n] + i - 1 \in index[n] .. index[n + 1] - 1
                   /\ Neigh(Finished(index, cell), n)[i] = [v |-> cell[index[n] + i - 1], w |-> 1]
<1>1. PICK g : g = Finished(index, cell)
  OBVIOUS
<1>2. PICK N : N = index[numNodes]
  OBVIOUS
<1>3. g.index = index /\ g.neighs = [p \in 0 .. N - 1 |-> [v |-> cell[p], w |-> 1]]
  BY <1>1, <1>2 DEF Finished, Dest
<1>4. /\ index \in [0 .. numNodes -> Nat] /\ index[0] = 0
      /\ \A n \in Vertex : n + 1 \in 0 .. numNodes /\ index[n + 1] = index[n] + d[n]
  BY DEF IsPrefixSum
<1>5. \A n \in Vertex : /\ n \in 0 .. numNodes /\ n + 1 \in 0 .. numNodes
                        /\ index[n] \in Nat /\ index[n + 1] \in Nat /\ index[n] <= index[n + 1]
                        /\ index[n + 1] <= N
  <2> TAKE n \in Vertex
  <2>1. n \in 0 .. numNodes /\ n + 1 \in 0 .. numNodes /\ numNodes \in (n + 1) .. numNodes
        /\ n + 1 \in n .. numNodes
    BY DEF Vertex
  <2>2. index[n] <= index[n + 1] /\ index[n + 1] <= N /\ index[n] \in Nat /\ index[n + 1] \in Nat
    BY <1>2, <2>1, PrefixGrows
  <2> QED
    BY <2>1, <2>2
<1>6. IsGraph(g)
  BY <1>2, <1>3, <1>4, <1>5 DEF IsGraph
<1>7. ASSUME NEW n \in Vertex
      PROVE  /\ Neigh(g, n) \in Seq(Neighbor)
             /\ Len(Neigh(g, n)) = index[n + 1] - index[n]
             /\ \A i \in 1 .. index[n + 1] - index[n] :
                  /\ index[n] + i - 1 \in index[n] .. index[n + 1] - 1
                  /\ Neigh(g, n)[i] = [v |-> cell[index[n] + i - 1], w |-> 1]
  <2>1. PICK k : k = index[n + 1] - index[n]
    OBVIOUS
  <2>2. PICK l : l = Neigh(g, n)
    OBVIOUS
  <2>3. PICK a : a = index[n]
    OBVIOUS
  <2>4. PICK b : b = index[n + 1]
    OBVIOUS
  <2>5. a \in Nat /\ b \in Nat /\ a <= b /\ b <= N /\ k = b - a /\ k \in Nat /\ N \in Nat
    <3>1. N \in Nat
      BY <1>2, <1>4
    <3> QED
      BY <1>5, <2>1, <2>3, <2>4, <3>1
  <2>6. \A i \in 1 .. k : a + i - 1 \in a .. b - 1 /\ a + i - 1 \in 0 .. N - 1
    BY <2>5
  <2>7. l = [i \in 1 .. k |-> g.neighs[a + i - 1]]
    BY <1>3, <2>1, <2>2, <2>3 DEF Neigh
  <2>8. \A i \in 1 .. k : l[i] = [v |-> cell[a + i - 1], w |-> 1]
    BY <1>3, <2>6, <2>7
  <2>9. \A i \in 1 .. k : cell[a + i - 1] \in Vertex
    BY <1>2, <2>6
  <2>10. \A i \in 1 .. k : l[i] \in Neighbor
    <3> TAKE i \in 1 .. k
    <3>1. PICK x : x = cell[a + i - 1]
      OBVIOUS
    <3>2. x \in Vertex /\ l[i] = [v |-> x, w |-> 1]
      BY <2>8, <2>9, <3>1
    <3> QED
      BY <3>2 DEF Neighbor
  <2>11. l \in [1 .. k -> Neighbor]
    BY <2>7, <2>10
  <2>12. l \in Seq(Neighbor) /\ Len(l) = k
    BY <2>5, <2>11
  <2> QED
    BY <2>1, <2>2, <2>3, <2>4, <2>6, <2>8, <2>12
<1> QED
  BY <1>1, <1>2, <1>3, <1>5, <1>6, <1>7

\* The outgoing lists of a graph built in place.
LEMMA InPlaceOut ==
  ASSUME InputOK, input.inPlace, ~input.symmetrize, NEW start, NEW cell, Laid(Arcs, start, cell)
  PROVE  GraphHolds(Finished(start, cell), "out")
<1>1. PICK r : r = Arcs
  OBVIOUS
<1>2. SquishedArcs(r) /\ numNodes \in Nat \ {0}
  BY <1>1, SquishedListHolds, InputFacts DEF Arcs
<1>3. PICK M : M = Len(r)
  OBVIOUS
<1>4. /\ M \in Nat /\ \A k \in 1 .. M : r[k].u \in Vertex /\ r[k].v \in Vertex
      /\ IsFiniteSet(1 .. M) /\ \A k \in 1 .. M : Sources(r)[k] \in Vertex
  <2>1. /\ M \in Nat
        /\ \A k \in 1 .. M : r[k].u \in Vertex /\ r[k].v \in Vertex /\ Sources(r)[k] = r[k].u
    BY <1>2, <1>3, ArcFacts
  <2>2. IsFiniteSet(1 .. M)
    BY <2>1, FS_Interval
  <2> QED
    BY <2>1, <2>2
<1>5. PICK d : d = Counted(Sources(r), 1 .. M)
  OBVIOUS
<1>6. IsPrefixSum(start, d) /\ \A n \in Vertex : d[n] \in Nat
  BY <1>1, <1>2, <1>3, <1>4, <1>5, CountedFacts DEF Laid
<1>7. /\ start[numNodes] = M
      /\ \A k \in 1 .. M : k - 1 \in start[r[k].u] .. start[r[k].u + 1] - 1
      /\ \A n \in Vertex : \A p \in start[n] .. start[n + 1] - 1 : p + 1 \in 1 .. M /\ r[p + 1].u = n
  BY <1>2, <1>3, <1>5, <1>6, LaidFacts
<1>8. \A p \in 0 .. M - 1 : cell[p] = r[p + 1].v /\ p + 1 \in 1 .. M
  BY <1>1, <1>3, <1>4 DEF Laid
<1>9. \A p \in 0 .. start[numNodes] - 1 : cell[p] \in Vertex
  BY <1>4, <1>7, <1>8
<1>10. PICK g : g = Finished(start, cell)
  OBVIOUS
<1>11. /\ IsGraph(g) /\ g.index = start
       /\ \A n \in Vertex :
            /\ start[n] \in Nat /\ start[n + 1] \in Nat
            /\ Neigh(g, n) \in Seq(Neighbor)
            /\ Len(Neigh(g, n)) = start[n + 1] - start[n]
            /\ \A i \in 1 .. start[n + 1] - start[n] :
                 /\ start[n] + i - 1 \in start[n] .. start[n + 1] - 1
                 /\ Neigh(g, n)[i] = [v |-> cell[start[n] + i - 1], w |-> 1]
  BY <1>2, <1>6, <1>9, <1>10, FinishedFacts
<1>12. ASSUME NEW n \in Vertex PROVE ListHolds(Neigh(g, n), "out", n)
  <2>1. PICK a : a = start[n]
    OBVIOUS
  <2>2. PICK b : b = start[n + 1]
    OBVIOUS
  <2>3. PICK l : l = Neigh(g, n)
    OBVIOUS
  <2>4. /\ a \in Nat /\ b \in Nat /\ l \in Seq(Neighbor) /\ Len(l) = b - a
        /\ \A i \in 1 .. b - a : a + i - 1 \in a .. b - 1 /\ l[i] = [v |-> cell[a + i - 1], w |-> 1]
    BY <1>11, <2>1, <2>2, <2>3
  <2>5. \A p \in a .. b - 1 : p + 1 \in 1 .. M /\ r[p + 1].u = n
    BY <1>7, <2>1, <2>2
  <2>6. \A i \in 1 .. Len(l) : a + i \in 1 .. M /\ r[a + i].u = n /\ l[i].v = r[a + i].v /\ l[i].w = 1
    <3> TAKE i \in 1 .. Len(l)
    <3>1. PICK p : p = a + i - 1
      OBVIOUS
    <3>2. p \in a .. b - 1 /\ p + 1 = a + i /\ l[i] = [v |-> cell[p], w |-> 1]
      BY <2>4, <3>1
    <3>3. p + 1 \in 1 .. M /\ r[p + 1].u = n
      BY <2>5, <3>2
    <3>4. p \in 0 .. M - 1
      BY <1>4, <2>4, <3>2, <3>3
    <3>5. cell[p] = r[p + 1].v
      BY <1>8, <3>4
    <3> QED
      BY <3>2, <3>3, <3>5
  <2>7. \A i, j \in 1 .. Len(l) : i < j => l[i].v < l[j].v
    <3> SUFFICES ASSUME NEW i \in 1 .. Len(l), NEW j \in 1 .. Len(l), i < j PROVE l[i].v < l[j].v
      OBVIOUS
    <3>1. PICK x \in 1 .. M : x = a + i
      BY <2>6
    <3>2. PICK y \in 1 .. M : y = a + j
      BY <2>6
    <3>3. x < y
      BY <2>4, <3>1, <3>2
    <3>4. Ahead(r[x], r[y])
      BY <1>2, <1>3, <3>3 DEF SquishedArcs
    <3>5. r[x].u = n /\ r[y].u = n /\ l[i].v = r[x].v /\ l[j].v = r[y].v
      BY <2>6, <3>1, <3>2
    <3> QED
      BY <3>4, <3>5 DEF Ahead
  <2>8. \A i \in 1 .. Len(l) : Joined("out", n, l[i].v)
    <3> TAKE i \in 1 .. Len(l)
    <3>1. PICK x \in 1 .. M : x = a + i
      BY <2>6
    <3>2. IsArc(r[x].u, r[x].v) /\ r[x].v \in Vertex
      BY <1>2, <1>3, <1>4 DEF SquishedArcs
    <3>3. IsArc(n, l[i].v) /\ l[i].v \in Vertex
      BY <2>6, <3>1, <3>2
    <3> QED
      BY <3>3, WeightsInPlace DEF Sides
  <2>9. \A m \in Vertex : Joined("out", n, m) => \E i \in 1 .. Len(l) : l[i].v = m
    <3> TAKE m \in Vertex
    <3> HAVE Joined("out", n, m)
    <3>1. IsArc(n, m)
      BY WeightsInPlace DEF Sides
    <3>2. PICK x \in 1 .. M : r[x].u = n /\ r[x].v = m
      BY <1>2, <1>3, <3>1 DEF SquishedArcs
    <3>3. x - 1 \in a .. b - 1
      BY <1>7, <2>1, <2>2, <3>2
    <3>4. PICK i \in 1 .. Len(l) : a + i = x
      <4>1. x - a \in 1 .. Len(l) /\ a + (x - a) = x
        BY <2>4, <3>3
      <4> QED
        BY <4>1
    <3>5. l[i].v = m
      BY <2>6, <3>2, <3>4
    <3> QED
      BY <3>5
  <2>10. ListHolds(l, "out", n)
    BY <2>4, <2>6, <2>7, <2>8, <2>9, ListHoldsInPlace DEF Sides
  <2> QED
    BY <2>3, <2>10
<1>13. GraphHolds(g, "out")
  BY <1>11, <1>12 DEF GraphHolds
<1> QED
  BY <1>10, <1>13

\* Where the q-th of f(1), ..., f(M) goes when each takes the next place of
\* its value.
Slot(P, f, q) == P[f[q]] + Occurs(f, q - 1, f[q])

LEMMA OccursGrows ==
  ASSUME NEW f, NEW n, NEW i \in Nat, NEW j \in Nat, i <= j
  PROVE  Occurs(f, i, n) <= Occurs(f, j, n) /\ Occurs(f, i, n) \in Nat /\ Occurs(f, j, n) \in Nat
<1>1. PICK A : A = {x \in 1 .. i : f[x] = n}
  OBVIOUS
<1>2. PICK B : B = {x \in 1 .. j : f[x] = n}
  OBVIOUS
<1>3. A \subseteq B /\ B \subseteq 1 .. j
  BY <1>1, <1>2
<1>4. IsFiniteSet(B)
  <2>1. IsFiniteSet(1 .. j)
    BY FS_Interval
  <2> QED
    BY <1>3, <2>1, FS_Subset
<1>5. Cardinality(A) <= Cardinality(B) /\ Cardinality(A) \in Nat /\ Cardinality(B) \in Nat
  BY <1>3, <1>4, FS_Subset, FS_CardinalityType
<1> QED
  BY <1>1, <1>2, <1>5 DEF Occurs

\* Places taken one after another within each value are distinct and fill all.
LEMMA Slots ==
  ASSUME numNodes \in Nat \ {0}, NEW M \in Nat, NEW f, \A j \in 1 .. M : f[j] \in Vertex,
         NEW P, IsPrefixSum(P, Counted(f, 1 .. M))
  PROVE  /\ \A q \in 1 .. M : Slot(P, f, q) \in P[f[q]] .. P[f[q] + 1] - 1
         /\ \A q, k \in 1 .. M : q < k => Slot(P, f, q) # Slot(P, f, k)
         /\ \A q, k \in 1 .. M : q < k /\ f[q] = f[k] => Slot(P, f, q) < Slot(P, f, k)
         /\ \A n \in Vertex : \A p \in P[n] .. P[n + 1] - 1 : \E q \in 1 .. M : f[q] = n /\ Slot(P, f, q) = p
<1>1. IsFiniteSet(1 .. M)
  BY FS_Interval
<1>2. PICK d : d = Counted(f, 1 .. M)
  OBVIOUS
<1>3. \A n \in Vertex : d[n] = Occurs(f, M, n) /\ d[n] \in Nat
  <2>1. PICK D : D = 1 .. M
    OBVIOUS
  <2>2. IsFiniteSet(D) /\ (\A j \in D : f[j] \in Vertex) /\ d = Counted(f, D) /\ numNodes \in Nat \ {0}
    BY <1>1, <1>2, <2>1
  <2>3. \A n \in Vertex : d[n] = Cardinality({j \in D : f[j] = n}) /\ d[n] \in Nat
    BY ONLY <2>2, CountedFacts
  <2> QED
    BY <2>1, <2>3 DEF Occurs
<1>4. /\ P \in [0 .. numNodes -> Nat]
      /\ \A n \in Vertex : n + 1 \in 0 .. numNodes /\ P[n + 1] = P[n] + d[n]
  BY <1>2 DEF IsPrefixSum
<1>5. \A n \in Vertex : /\ P[n] \in Nat /\ P[n + 1] \in Nat /\ P[n + 1] = P[n] + d[n] /\ d[n] \in Nat
                        /\ d[n] = Occurs(f, M, n)
  BY <1>3, <1>4 DEF Vertex
<1>6. \A q \in 1 .. M : /\ Occurs(f, q, f[q]) = Occurs(f, q - 1, f[q]) + 1
                        /\ Occurs(f, q - 1, f[q]) \in Nat
                        /\ Occurs(f, q, f[q]) <= Occurs(f, M, f[q])
  <2> TAKE q \in 1 .. M
  <2>1. q \in Nat \ {0} /\ q \in Nat /\ q <= M
    OBVIOUS
  <2>2. Occurs(f, q, f[q]) <= Occurs(f, M, f[q])
    BY <2>1, OccursGrows
  <2>3. Occurs(f, q, f[q]) = Occurs(f, q - 1, f[q]) + 1 /\ Occurs(f, q - 1, f[q]) \in Nat
    BY <2>1, CountOneMore
  <2> QED
    BY <2>2, <2>3
<1>7. \A q \in 1 .. M : Slot(P, f, q) \in P[f[q]] .. P[f[q] + 1] - 1
  <2> TAKE q \in 1 .. M
  <2>1. PICK n : n = f[q]
    OBVIOUS
  <2>2. PICK x : x = Occurs(f, q - 1, n)
    OBVIOUS
  <2>3. PICK y : y = Occurs(f, q, n)
    OBVIOUS
  <2>4. n \in Vertex /\ y = x + 1 /\ x \in Nat
    BY <1>6, <2>1, <2>2, <2>3
  <2>5. P[n] \in Nat /\ P[n + 1] \in Nat /\ P[n + 1] = P[n] + d[n] /\ d[n] \in Nat /\ d[n] = Occurs(f, M, n)
    BY <1>5, <2>4
  <2>6. y <= d[n]
    BY <1>6, <2>1, <2>3, <2>5
  <2>7. Slot(P, f, q) = P[n] + x
    BY <2>1, <2>2 DEF Slot
  <2> QED
    BY <2>1, <2>4, <2>5, <2>6, <2>7
<1>8. ASSUME NEW q \in 1 .. M, NEW k \in 1 .. M, q < k, f[q] = f[k]
      PROVE  Slot(P, f, q) < Slot(P, f, k)
  <2>1. PICK n : n = f[k]
    OBVIOUS
  <2>2. PICK x : x = Occurs(f, q - 1, n)
    OBVIOUS
  <2>3. PICK y : y = Occurs(f, q, n)
    OBVIOUS
  <2>4. PICK z : z = Occurs(f, k - 1, n)
    OBVIOUS
  <2>5. q \in Nat /\ k - 1 \in Nat /\ q <= k - 1
    BY <1>8
  <2>6. y <= z /\ y \in Nat /\ z \in Nat
    BY <2>3, <2>4, <2>5, OccursGrows
  <2>7. y = x + 1 /\ x \in Nat
    BY <1>6, <1>8, <2>1, <2>2, <2>3
  <2>8. n \in Vertex
    BY <2>1
  <2>9. P[n] \in Nat
    BY <1>5, <2>8
  <2>10. Slot(P, f, q) = P[n] + x /\ Slot(P, f, k) = P[n] + z
    BY <1>8, <2>1, <2>2, <2>4 DEF Slot
  <2> QED
    BY <2>6, <2>7, <2>9, <2>10
<1>9. ASSUME NEW q \in 1 .. M, NEW k \in 1 .. M, q < k
      PROVE  Slot(P, f, q) # Slot(P, f, k)
  <2>1. CASE f[q] = f[k]
    <3>1. Slot(P, f, q) < Slot(P, f, k)
      BY <1>8, <1>9, <2>1
    <3>2. Slot(P, f, q) \in Int /\ Slot(P, f, k) \in Int
      BY <1>7
    <3> QED
      BY <3>1, <3>2
  <2>2. CASE f[q] # f[k]
    <3> SUFFICES ASSUME Slot(P, f, q) = Slot(P, f, k) PROVE FALSE
      OBVIOUS
    <3>1. PICK p : p = Slot(P, f, q)
      OBVIOUS
    <3>2. p \in P[f[q]] .. P[f[q] + 1] - 1 /\ p \in P[f[k]] .. P[f[k] + 1] - 1
      BY <1>7, <3>1
    <3>3. f[q] \in Vertex /\ f[k] \in Vertex /\ IsPrefixSum(P, d) /\ \A n \in Vertex : d[n] \in Nat
      BY <1>2, <1>3
    <3>4. f[q] = f[k]
      BY <3>2, <3>3, ListsApart
    <3> QED
      BY <2>2, <3>4
  <2> QED
    BY <2>1, <2>2
<1>10. ASSUME NEW n \in Vertex, NEW p \in P[n] .. P[n + 1] - 1
       PROVE  \E q \in 1 .. M : f[q] = n /\ Slot(P, f, q) = p
  <2> DEFINE Q == {j \in Nat : \A i \in Nat : i < Occurs(f, j, n) => \E q \in 1 .. j : f[q] = n /\ Occurs(f, q - 1, n) = i}
  <2>1. 0 \in Q
    <3>1. {x \in 1 .. 0 : f[x] = n} = {}
      OBVIOUS
    <3>2. Occurs(f, 0, n) = 0
      BY <3>1, FS_EmptySet DEF Occurs
    <3> QED
      BY <3>2
  <2>2. ASSUME NEW j \in 1 .. M, j - 1 \in Q PROVE j \in Q
    <3>1. PICK x : x = Occurs(f, j - 1, n)
      OBVIOUS
    <3>2. j \in Nat \ {0}
      OBVIOUS
    <3>3. /\ x \in Nat /\ (f[j] = n => Occurs(f, j, n) = x + 1)
          /\ (f[j] # n => Occurs(f, j, n) = x)
      BY <3>1, <3>2, CountOneMore
    <3>4. ASSUME NEW i \in Nat, i < Occurs(f, j, n)
          PROVE  \E q \in 1 .. j : f[q] = n /\ Occurs(f, q - 1, n) = i
      <4>1. CASE i < x
        <5>1. PICK q \in 1 .. j - 1 : f[q] = n /\ Occurs(f, q - 1, n) = i
          BY <2>2, <3>1, <4>1
        <5>2. q \in 1 .. j
          OBVIOUS
        <5> QED
          BY <5>1, <5>2
      <4>2. CASE ~(i < x)
        <5>1. f[j] = n /\ i = x
          BY <3>3, <3>4, <4>2
        <5>2. j \in 1 .. j
          OBVIOUS
        <5> QED
          BY <3>1, <5>1, <5>2
      <4> QED
        BY <4>1, <4>2
    <3> QED
      BY <3>2, <3>4
  <2> HIDE DEF Q
  <2>3. \A j \in 0 .. M : j \in Q
    BY <2>1, <2>2, UpTo
  <2>4. M \in Q
    BY <2>3
  <2>5. P[n] \in Nat /\ P[n + 1] \in Nat /\ P[n + 1] = P[n] + d[n] /\ d[n] \in Nat /\ d[n] = Occurs(f, M, n)
    BY <1>5
  <2>6. PICK i \in Nat : i = p - P[n] /\ i < Occurs(f, M, n) /\ P[n] + i = p
    <3>1. p - P[n] \in Nat /\ p - P[n] < d[n] /\ P[n] + (p - P[n]) = p
      BY <2>5
    <3> QED
      BY <2>5, <3>1
  <2>7. PICK q \in 1 .. M : f[q] = n /\ Occurs(f, q - 1, n) = i
    BY <2>4, <2>6 DEF Q
  <2>8. Slot(P, f, q) = p
    BY <2>6, <2>7 DEF Slot
  <2> QED
    BY <2>7, <2>8
<1> QED
  BY <1>7, <1>8, <1>9, <1>10

\* The inverting loop: what it has written after k rounds.
PutSource(m, v, u) ==
  [cell |-> [m.cell EXCEPT ![m.at[v]] = u], at |-> [m.at EXCEPT ![v] = @ + 1]]

InvertStates(r, start, k) ==
  {m \in [cell : [0 .. start[numNodes] - 1 -> Int], at : [0 .. numNodes -> Nat]] :
     /\ \A n \in Vertex : m.at[n] = start[n] + Occurs(Targets(r), k, n)
     /\ \A q \in 1 .. k : m.cell[Slot(start, Targets(r), q)] = r[q].u}

\* One source is written to the next place of its target.
LEMMA InvertRound ==
  ASSUME numNodes \in Nat \ {0}, NEW r, SquishedArcs(r),
         NEW start, IsPrefixSum(start, Counted(Targets(r), 1 .. Len(r))),
         NEW k \in 1 .. Len(r), NEW m \in InvertStates(r, start, k - 1)
  PROVE  PutSource(m, r[k].v, r[k].u) \in InvertStates(r, start, k)
<1>1. PICK M : M = Len(r)
  OBVIOUS
<1>2. PICK f : f = Targets(r)
  OBVIOUS
<1>3. M \in Nat /\ k \in 1 .. M /\ \A j \in 1 .. M : /\ r[j].u \in Nat /\ r[j].v \in Vertex
                                                     /\ f[j] = r[j].v /\ f[j] \in Vertex
  BY <1>1, <1>2, ArcFacts
<1>4. PICK cell : cell = m.cell
  OBVIOUS
<1>5. PICK at : at = m.at
  OBVIOUS
<1>6. PICK N : N = start[numNodes]
  OBVIOUS
<1>7. /\ cell \in [0 .. N - 1 -> Int] /\ at \in [0 .. numNodes -> Nat]
      /\ \A n \in Vertex : at[n] = start[n] + Occurs(f, k - 1, n)
      /\ \A q \in 1 .. k - 1 : cell[Slot(start, f, q)] = r[q].u
  BY <1>2, <1>4, <1>5, <1>6 DEF InvertStates
<1>8. IsPrefixSum(start, Counted(f, 1 .. M))
  BY <1>1, <1>2
<1>9. /\ \A q \in 1 .. M : Slot(start, f, q) \in start[f[q]] .. start[f[q] + 1] - 1
      /\ \A q, j \in 1 .. M : q < j => Slot(start, f, q) # Slot(start, f, j)
  BY <1>3, <1>8, Slots
<1>10. PICK v : v = r[k].v
  OBVIOUS
<1>11. v \in Vertex /\ v \in 0 .. numNodes /\ f[k] = v
  BY <1>3, <1>10 DEF Vertex
<1>12. PICK x : x = Occurs(f, k - 1, v)
  OBVIOUS
<1>13. PICK p : p = at[v]
  OBVIOUS
<1>14. p = Slot(start, f, k)
  BY <1>7, <1>11, <1>12, <1>13 DEF Slot
<1>15. p \in 0 .. N - 1
  <2>1. PICK d : d = Counted(f, 1 .. M)
    OBVIOUS
  <2>2. IsFiniteSet(1 .. M)
    BY <1>3, FS_Interval
  <2>3. \A n \in Vertex : d[n] \in Nat
    BY <1>3, <2>1, <2>2, CountedFacts
  <2>4. v + 1 \in 0 .. numNodes /\ numNodes \in (v + 1) .. numNodes
    BY <1>11 DEF Vertex
  <2>5. start[v + 1] <= N /\ start[v + 1] \in Nat /\ N \in Nat
    BY <1>6, <1>8, <2>1, <2>3, <2>4, PrefixGrows
  <2>6. p \in start[v] .. start[v + 1] - 1
    BY <1>3, <1>9, <1>11, <1>14
  <2>7. start[v] \in Nat
    BY <1>8, <1>11 DEF IsPrefixSum
  <2> QED
    BY <2>5, <2>6, <2>7
<1>16. PICK u : u = r[k].u
  OBVIOUS
<1>17. PICK cell2 : cell2 = [cell EXCEPT ![p] = u]
  OBVIOUS
<1>18. PICK at2 : at2 = [at EXCEPT ![v] = @ + 1]
  OBVIOUS
<1>19. PICK z : z = [cell |-> cell2, at |-> at2]
  OBVIOUS
<1>20. PutSource(m, r[k].v, r[k].u) = z
  BY <1>4, <1>5, <1>10, <1>13, <1>16, <1>17, <1>18, <1>19 DEF PutSource
<1>21. u \in Int
  BY <1>3, <1>16
<1>22. cell2 \in [0 .. N - 1 -> Int]
  BY <1>7, <1>15, <1>17, <1>21
<1>23. at2 \in [0 .. numNodes -> Nat]
  BY <1>7, <1>11, <1>18
<1>24. \A n \in Vertex : at2[n] = start[n] + Occurs(f, k, n)
  <2> TAKE n \in Vertex
  <2>1. PICK y : y = Occurs(f, k - 1, n)
    OBVIOUS
  <2>2. PICK w : w = Occurs(f, k, n)
    OBVIOUS
  <2>3. k \in Nat \ {0} /\ n \in 0 .. numNodes
    BY <1>3 DEF Vertex
  <2>4. y \in Nat /\ (f[k] = n => w = y + 1) /\ (f[k] # n => w = y)
    BY <2>1, <2>2, <2>3, CountOneMore
  <2>5. at[n] = start[n] + y /\ start[n] \in Nat
    BY <1>7, <1>8, <2>1, <2>3 DEF IsPrefixSum
  <2>6. CASE n = v
    <3>1. at2[v] = at[v] + 1
      BY <1>7, <1>11, <1>18
    <3>2. w = y + 1
      BY <1>11, <2>4, <2>6
    <3>3. at2[n] = start[n] + y + 1
      BY <2>5, <2>6, <3>1
    <3> QED
      BY <2>2, <2>4, <2>5, <3>2, <3>3
  <2>7. CASE n # v
    <3>1. at2[n] = at[n]
      BY <1>7, <1>18, <2>3, <2>7
    <3> QED
      BY <1>11, <2>2, <2>4, <2>5, <2>7, <3>1
  <2> QED
    BY <2>6, <2>7
<1>25. \A q \in 1 .. k : cell2[Slot(start, f, q)] = r[q].u
  <2> TAKE q \in 1 .. k
  <2>1. CASE q = k
    BY <1>7, <1>14, <1>15, <1>16, <1>17, <2>1
  <2>2. CASE q # k
    <3>1. q \in 1 .. k - 1 /\ q \in 1 .. M /\ q < k
      BY <1>3, <2>2
    <3>2. Slot(start, f, q) # p
      BY <1>3, <1>9, <1>14, <3>1
    <3>3. cell2[Slot(start, f, q)] = cell[Slot(start, f, q)]
      <4>1. PICK s : s = Slot(start, f, q)
        OBVIOUS
      <4>2. s # p
        BY <3>2, <4>1
      <4>3. s \in 0 .. N - 1
        <5>1. PICK d : d = Counted(f, 1 .. M)
          OBVIOUS
        <5>2. IsFiniteSet(1 .. M)
          BY <1>3, FS_Interval
        <5>3. \A n \in Vertex : d[n] \in Nat
          BY <1>3, <5>1, <5>2, CountedFacts
        <5>4. PICK w \in Vertex : w = f[q]
          BY <1>3, <3>1
        <5>5. w \in 0 .. numNodes /\ w + 1 \in 0 .. numNodes /\ numNodes \in (w + 1) .. numNodes
          BY DEF Vertex
        <5>6. start[w + 1] <= N /\ start[w + 1] \in Nat /\ N \in Nat
          BY <1>6, <1>8, <5>1, <5>3, <5>5, PrefixGrows
        <5>7. s \in start[w] .. start[w + 1] - 1
          BY <1>9, <3>1, <4>1, <5>4
        <5>8. start[w] \in Nat
          BY <1>8, <5>5 DEF IsPrefixSum
        <5> QED
          BY <5>6, <5>7, <5>8
      <4>4. cell2[s] = cell[s]
        BY <1>7, <1>17, <4>2, <4>3
      <4> QED
        BY <4>1, <4>4
    <3> QED
      BY <1>7, <3>1, <3>3
  <2> QED
    BY <2>1, <2>2
<1>26. z.cell = cell2 /\ z.at = at2 /\ z \in [cell : [0 .. N - 1 -> Int], at : [0 .. numNodes -> Nat]]
  BY <1>19, <1>22, <1>23
<1>27. z \in InvertStates(r, start, k)
  BY <1>2, <1>6, <1>24, <1>25, <1>26 DEF InvertStates
<1> QED
  BY <1>20, <1>27

\* A cell belongs to one list.
LEMMA ListOfIs ==
  ASSUME numNodes \in Nat \ {0}, NEW d, \A n \in Vertex : d[n] \in Nat, IsPrefixSum(offsets, d),
         NEW n \in Vertex, NEW p \in offsets[n] .. offsets[n + 1] - 1
  PROVE  ListOf(p) = n
<1>1. \A m \in Vertex : p \in offsets[m] .. offsets[m + 1] - 1 => m = n
  <2> TAKE m \in Vertex
  <2> HAVE p \in offsets[m] .. offsets[m + 1] - 1
  <2> QED
    BY ListsApart
<1> QED
  BY <1>1 DEF ListOf

\* The loop over all lists ends with every arc inverted.
LEMMA InvertedIs ==
  ASSUME InputOK, input.inPlace, ~input.symmetrize, NEW r, r = Arcs, Laid(r, offsets, neighs),
         needed = Counted(Targets(r), 1 .. Len(r))
  PROVE  \E start, m : /\ IsPrefixSum(start, Counted(Targets(r), 1 .. Len(r)))
                       /\ m \in InvertStates(r, start, Len(r))
                       /\ Inverted = Finished(start, m.cell)
<1>1. PICK M : M = Len(r)
  OBVIOUS
<1>2. PICK start : start = ParallelPrefixSum(needed)
  OBVIOUS
<1>3. SquishedArcs(r) /\ numNodes \in Nat \ {0}
  BY SquishedListHolds, InputFacts DEF Arcs
<1>4. /\ M \in Nat /\ 0 \in 0 .. M /\ M \in 0 .. M
      /\ \A j \in 1 .. M : /\ r[j].u \in Vertex /\ r[j].v \in Vertex
                           /\ Sources(r)[j] = r[j].u /\ Targets(r)[j] = r[j].v
  BY <1>1, <1>3, ArcFacts
<1>5. IsFiniteSet(1 .. M)
  <2>1. M \in Int /\ 1 \in Int
    BY <1>4
  <2> QED
    BY ONLY <2>1, FS_Interval
<1>6. IsPrefixSum(start, Counted(Targets(r), 1 .. M))
  <2>1. \A n \in Vertex : needed[n] \in Nat
    BY <1>1, <1>3, <1>4, <1>5, CountedFacts
  <2>2. IsPrefixSum(ParallelPrefixSum(needed), needed)
    BY <1>3, <2>1, PrefixSums
  <2> QED
    BY <1>1, <1>2, <2>2
<1>7. /\ offsets[numNodes] = M
      /\ \A k \in 1 .. M : neighs[k - 1] = r[k].v /\ ListOf(k - 1) = r[k].u
  <2>1. PICK d : d = Counted(Sources(r), 1 .. M)
    OBVIOUS
  <2>2. IsPrefixSum(offsets, d) /\ \A p \in 0 .. M - 1 : neighs[p] = r[p + 1].v
    BY <1>1, <2>1 DEF Laid
  <2>3. \A n \in Vertex : d[n] \in Nat
    BY <1>3, <1>4, <1>5, <2>1, CountedFacts
  <2>4. offsets[numNodes] = M /\ \A k \in 1 .. M : k - 1 \in offsets[r[k].u] .. offsets[r[k].u + 1] - 1
    BY <1>1, <1>3, <2>1, <2>2, LaidFacts
  <2>5. \A k \in 1 .. M : ListOf(k - 1) = r[k].u
    <3> TAKE k \in 1 .. M
    <3>1. PICK n \in Vertex : n = r[k].u
      BY <1>4
    <3>2. PICK p : p = k - 1
      OBVIOUS
    <3>3. p \in offsets[n] .. offsets[n + 1] - 1
      BY <2>4, <3>1, <3>2
    <3>4. ListOf(p) = n
      BY <1>3, <2>2, <2>3, <3>3, ListOfIs
    <3> QED
      BY <3>1, <3>2, <3>4
  <2>6. \A k \in 1 .. M : k - 1 \in 0 .. M - 1 /\ (k - 1) + 1 = k
    BY <1>4
  <2> QED
    BY <2>2, <2>4, <2>5, <2>6
<1>8. PICK first : first = [cell |-> [p \in 0 .. start[numNodes] - 1 |-> -1], at |-> start]
  OBVIOUS
<1>9. first \in InvertStates(r, start, 0)
  <2>1. PICK c : c = [p \in 0 .. start[numNodes] - 1 |-> -1]
    OBVIOUS
  <2>2. c \in [0 .. start[numNodes] - 1 -> Int]
    BY <2>1
  <2>3. start \in [0 .. numNodes -> Nat]
    BY <1>6 DEF IsPrefixSum
  <2>4. \A n \in Vertex : n \in 0 .. numNodes /\ Occurs(Targets(r), 0, n) = 0
    <3> TAKE n \in Vertex
    <3>1. {j \in 1 .. 0 : Targets(r)[j] = n} = {}
      OBVIOUS
    <3>2. Occurs(Targets(r), 0, n) = 0
      BY <3>1, FS_EmptySet DEF Occurs
    <3>3. n \in 0 .. numNodes
      BY <1>3 DEF Vertex
    <3> QED
      BY <3>2, <3>3
  <2>5. \A n \in Vertex : start[n] = start[n] + Occurs(Targets(r), 0, n)
    <3> TAKE n \in Vertex
    <3>1. Occurs(Targets(r), 0, n) = 0 /\ start[n] \in Nat
      BY <2>3, <2>4
    <3> QED
      BY <3>1
  <2>6. first.cell = c /\ first.at = start
    BY <1>8, <2>1
  <2>7. first \in [cell : [0 .. start[numNodes] - 1 -> Int], at : [0 .. numNodes -> Nat]]
    BY <1>8, <2>1, <2>2, <2>3
  <2> QED
    BY <2>5, <2>6, <2>7 DEF InvertStates
<1> DEFINE Put(m, p) == [cell |-> [m.cell EXCEPT ![m.at[neighs[p]]] = ListOf(p)],
                         at |-> [m.at EXCEPT ![neighs[p]] = @ + 1]]
           D == [k \in 0 .. M |-> InvertStates(r, start, k)]
           G == [k \in 1 .. M |-> [m \in D[k - 1] |-> Put(m, k - 1)]]
           Solves(F) == F = [k \in 0 .. M |-> IF k = 0 THEN first ELSE Put(F[k - 1], k - 1)]
<1>10. \A k \in 1 .. M : \A m \in D[k - 1] : Put(m, k - 1) \in D[k] /\ G[k][m] = Put(m, k - 1)
  <2> SUFFICES ASSUME NEW k \in 1 .. M, NEW m \in D[k - 1]
               PROVE  Put(m, k - 1) \in D[k] /\ G[k][m] = Put(m, k - 1)
    OBVIOUS
  <2>1. k \in 0 .. M /\ k - 1 \in 0 .. M
    BY <1>4
  <2>2. m \in InvertStates(r, start, k - 1)
    BY <2>1
  <2>3. PutSource(m, r[k].v, r[k].u) \in InvertStates(r, start, k)
    BY <1>1, <1>3, <1>6, <2>2, InvertRound
  <2>4. Put(m, k - 1) = PutSource(m, r[k].v, r[k].u)
    BY <1>7 DEF PutSource
  <2> QED
    BY <2>1, <2>3, <2>4
<1>11. first \in D[0]
  BY <1>4, <1>9
<1> HIDE DEF Put
<1>12. \E F : Follows(F, M, first, G) /\ \A k \in 0 .. M : F[k] \in D[k]
  <2>1. \A k \in 1 .. M : \A m \in D[k - 1] : G[k][m] \in D[k]
    BY <1>10
  <2> HIDE DEF G, D
  <2> QED
    BY <1>4, <1>11, <2>1, Recursion
<1>13. \E F : Solves(F)
  <2> HIDE DEF D
  <2>1. PICK F : Follows(F, M, first, G) /\ \A k \in 0 .. M : F[k] \in D[k]
    BY <1>12
  <2> HIDE DEF G
  <2>2. F = [k \in 0 .. M |-> IF k = 0 THEN first ELSE G[k][F[k - 1]]]
    BY <2>1 DEF Follows
  <2>3. \A k \in 0 .. M : k # 0 => k - 1 \in 0 .. M /\ k \in 1 .. M
    BY <1>4
  <2>4. \A k \in 0 .. M : k # 0 => G[k][F[k - 1]] = Put(F[k - 1], k - 1)
    BY <1>10, <2>1, <2>3
  <2>5. Solves(F)
    BY <2>2, <2>4
  <2> QED
    BY <2>5
<1>14. PICK F : F = CHOOSE H : Solves(H)
  OBVIOUS
<1>15. Inverted = Finished(start, F[M].cell)
  BY <1>2, <1>7, <1>8, <1>14 DEF Inverted, Put
<1>16. Solves(F)
  BY <1>13, <1>14
<1>17. F[0] = first /\ \A k \in 1 .. M : F[k] = Put(F[k - 1], k - 1)
  BY <1>4, <1>16
<1> HIDE DEF Solves
<1>18. \A k \in 0 .. M : F[k] \in D[k]
  <2> DEFINE P == {k \in 0 .. M : F[k] \in D[k]}
  <2>1. 0 \in P
    BY <1>4, <1>11, <1>17
  <2>2. ASSUME NEW k \in 1 .. M, k - 1 \in P PROVE k \in P
    <3>1. F[k] = Put(F[k - 1], k - 1) /\ F[k - 1] \in D[k - 1] /\ k \in 0 .. M
      BY <1>4, <1>17, <2>2
    <3> HIDE DEF D
    <3>2. Put(F[k - 1], k - 1) \in D[k]
      BY <1>10, <3>1
    <3> QED
      BY <3>1, <3>2
  <2> HIDE DEF P
  <2>3. \A k \in 0 .. M : k \in P
    BY <1>4, <2>1, <2>2, UpTo
  <2> QED
    BY <2>3 DEF P
<1>19. F[M] \in InvertStates(r, start, M)
  BY <1>4, <1>18
<1> QED
  BY <1>1, <1>6, <1>15, <1>19

\* The incoming lists of a graph built in place.
LEMMA InPlaceIn ==
  ASSUME InputOK, input.inPlace, ~input.symmetrize, Laid(Arcs, offsets, neighs),
         needed = Counted(Targets(Arcs), 1 .. Len(Arcs))
  PROVE  GraphHolds(Inverted, "in")
<1>1. PICK r : r = Arcs
  OBVIOUS
<1>2. SquishedArcs(r) /\ numNodes \in Nat \ {0}
  BY <1>1, SquishedListHolds, InputFacts DEF Arcs
<1>3. PICK M : M = Len(r)
  OBVIOUS
<1>4. PICK f : f = Targets(r)
  OBVIOUS
<1>5. M \in Nat /\ \A k \in 1 .. M : r[k].u \in Vertex /\ r[k].v \in Vertex /\ f[k] = r[k].v /\ f[k] \in Vertex
  BY <1>2, <1>3, <1>4, ArcFacts
<1>6. PICK start, m : /\ IsPrefixSum(start, Counted(f, 1 .. M))
                      /\ m \in InvertStates(r, start, M)
                      /\ Inverted = Finished(start, m.cell)
  BY <1>1, <1>3, <1>4, InvertedIs
<1>7. PICK cell : cell = m.cell
  OBVIOUS
<1>8. \A q \in 1 .. M : cell[Slot(start, f, q)] = r[q].u
  BY <1>4, <1>6, <1>7 DEF InvertStates
<1>9. PICK d : d = Counted(f, 1 .. M)
  OBVIOUS
<1>10. IsPrefixSum(start, d) /\ \A n \in Vertex : d[n] \in Nat
  <2>1. IsFiniteSet(1 .. M)
    BY <1>5, FS_Interval
  <2> QED
    BY <1>2, <1>5, <1>6, <1>9, <2>1, CountedFacts
<1>11. /\ \A q \in 1 .. M : Slot(start, f, q) \in start[f[q]] .. start[f[q] + 1] - 1
       /\ \A q, k \in 1 .. M : q < k /\ f[q] = f[k] => Slot(start, f, q) < Slot(start, f, k)
       /\ \A n \in Vertex : \A p \in start[n] .. start[n + 1] - 1 : \E q \in 1 .. M : f[q] = n /\ Slot(start, f, q) = p
  BY <1>2, <1>5, <1>6, Slots
<1>12. \A p \in 0 .. start[numNodes] - 1 : cell[p] \in Vertex
  <2> TAKE p \in 0 .. start[numNodes] - 1
  <2>1. start \in [0 .. numNodes -> Nat] /\ start[0] = 0
    BY <1>10 DEF IsPrefixSum
  <2>2. PICK n \in Vertex : p \in start[n] .. start[n + 1] - 1
    BY <1>2, <2>1, OwnerExists
  <2>3. PICK q \in 1 .. M : Slot(start, f, q) = p
    BY <1>11, <2>2
  <2> QED
    BY <1>5, <1>8, <2>3
<1>13. PICK g : g = Finished(start, cell)
  OBVIOUS
<1>14. /\ IsGraph(g) /\ g.index = start
       /\ \A n \in Vertex :
            /\ start[n] \in Nat /\ start[n + 1] \in Nat
            /\ Neigh(g, n) \in Seq(Neighbor)
            /\ Len(Neigh(g, n)) = start[n + 1] - start[n]
            /\ \A i \in 1 .. start[n + 1] - start[n] :
                 /\ start[n] + i - 1 \in start[n] .. start[n + 1] - 1
                 /\ Neigh(g, n)[i] = [v |-> cell[start[n] + i - 1], w |-> 1]
  BY <1>2, <1>10, <1>12, <1>13, FinishedFacts
<1>15. ASSUME NEW n \in Vertex PROVE ListHolds(Neigh(g, n), "in", n)
  <2>1. PICK a : a = start[n]
    OBVIOUS
  <2>2. PICK b : b = start[n + 1]
    OBVIOUS
  <2>3. PICK l : l = Neigh(g, n)
    OBVIOUS
  <2>4. /\ a \in Nat /\ b \in Nat /\ l \in Seq(Neighbor) /\ Len(l) = b - a
        /\ \A i \in 1 .. b - a : a + i - 1 \in a .. b - 1 /\ l[i] = [v |-> cell[a + i - 1], w |-> 1]
    BY <1>14, <2>1, <2>2, <2>3
  <2>5. \A p \in a .. b - 1 : \E q \in 1 .. M : f[q] = n /\ Slot(start, f, q) = p
    BY <1>11, <2>1, <2>2
  <2>6. \A i \in 1 .. Len(l) : /\ l[i].w = 1
                               /\ \E q \in 1 .. M : /\ f[q] = n /\ Slot(start, f, q) = a + i - 1
                                                    /\ l[i].v = r[q].u
    <3> TAKE i \in 1 .. Len(l)
    <3>1. PICK p : p = a + i - 1
      OBVIOUS
    <3>2. p \in a .. b - 1 /\ l[i] = [v |-> cell[p], w |-> 1]
      BY <2>4, <3>1
    <3>3. PICK q \in 1 .. M : f[q] = n /\ Slot(start, f, q) = p
      BY <2>5, <3>2
    <3>4. cell[p] = r[q].u
      BY <1>8, <3>3
    <3> QED
      BY <3>1, <3>2, <3>3, <3>4
  <2>7. \A i, j \in 1 .. Len(l) : i < j => l[i].v < l[j].v
    <3> SUFFICES ASSUME NEW i \in 1 .. Len(l), NEW j \in 1 .. Len(l), i < j PROVE l[i].v < l[j].v
      OBVIOUS
    <3>1. PICK x \in 1 .. M : f[x] = n /\ Slot(start, f, x) = a + i - 1 /\ l[i].v = r[x].u
      BY <2>6
    <3>2. PICK y \in 1 .. M : f[y] = n /\ Slot(start, f, y) = a + j - 1 /\ l[j].v = r[y].u
      BY <2>6
    <3>3. x < y
      <4>1. Slot(start, f, x) < Slot(start, f, y) /\ Slot(start, f, x) \in Int /\ Slot(start, f, y) \in Int
        BY <2>4, <3>1, <3>2
      <4>2. x # y
        BY <4>1
      <4>3. ~(y < x)
        <5> SUFFICES ASSUME y < x PROVE FALSE
          OBVIOUS
        <5>1. Slot(start, f, y) < Slot(start, f, x)
          BY <1>11, <3>1, <3>2
        <5> QED
          BY <4>1, <5>1
      <4> QED
        BY <4>2, <4>3
    <3>4. Ahead(r[x], r[y])
      BY <1>2, <1>3, <3>3 DEF SquishedArcs
    <3>5. r[x].v = n /\ r[y].v = n
      BY <1>5, <3>1, <3>2
    <3>6. n \in Int
      BY DEF Vertex
    <3> QED
      BY <3>1, <3>2, <3>4, <3>5, <3>6 DEF Ahead
  <2>8. \A i \in 1 .. Len(l) : Joined("in", n, l[i].v)
    <3> TAKE i \in 1 .. Len(l)
    <3>1. PICK x \in 1 .. M : f[x] = n /\ l[i].v = r[x].u
      BY <2>6
    <3>2. IsArc(r[x].u, r[x].v) /\ r[x].u \in Vertex /\ r[x].v = n
      BY <1>2, <1>3, <1>5, <3>1 DEF SquishedArcs
    <3>3. IsArc(l[i].v, n) /\ l[i].v \in Vertex
      BY <3>1, <3>2
    <3> QED
      BY <3>3, WeightsInPlace DEF Sides
  <2>9. \A o \in Vertex : Joined("in", n, o) => \E i \in 1 .. Len(l) : l[i].v = o
    <3> TAKE o \in Vertex
    <3> HAVE Joined("in", n, o)
    <3>1. IsArc(o, n)
      BY WeightsInPlace DEF Sides
    <3>2. PICK x \in 1 .. M : r[x].u = o /\ r[x].v = n
      BY <1>2, <1>3, <3>1 DEF SquishedArcs
    <3>3. f[x] = n
      BY <1>5, <3>2
    <3>4. PICK p \in a .. b - 1 : p = Slot(start, f, x)
      BY <1>11, <2>1, <2>2, <3>3
    <3>5. PICK i \in 1 .. Len(l) : a + i - 1 = p
      <4>1. p - a + 1 \in 1 .. Len(l) /\ a + (p - a + 1) - 1 = p
        BY <2>4
      <4> QED
        BY <4>1
    <3>6. l[i] = [v |-> cell[p], w |-> 1]
      BY <2>4, <3>5
    <3>7. cell[p] = r[x].u
      BY <1>8, <3>4
    <3> QED
      BY <3>2, <3>6, <3>7
  <2>10. ListHolds(l, "in", n)
    BY <2>4, <2>6, <2>7, <2>8, <2>9, ListHoldsInPlace DEF Sides
  <2> QED
    BY <2>3, <2>10
<1>16. GraphHolds(g, "in")
  BY <1>14, <1>15 DEF GraphHolds
<1> QED
  BY <1>6, <1>7, <1>13, <1>16

\* The binary search: the first c cells are below x, the others are not.
Halved(a, x, m) ==
  LET half == m.len \div 2
  IN  IF a[m.first + half] < x
      THEN [first |-> m.first + half + 1, len |-> m.len - half - 1]
      ELSE [first |-> m.first, len |-> half]

SearchStates(lo, hi, c, k) ==
  {m \in [first : lo .. hi, len : 0 .. hi - lo] :
     /\ m.first + m.len <= hi /\ m.first <= c /\ c <= m.first + m.len
     /\ m.len <= hi - lo - k}

\* One halving keeps the border between smaller and other cells inside.
LEMMA SearchRound ==
  ASSUME NEW lo \in Nat, NEW hi \in Nat, lo <= hi, NEW x, NEW a, NEW c \in lo .. hi,
         \A p \in lo .. c - 1 : a[p] < x, \A p \in c .. hi - 1 : ~(a[p] < x),
         NEW k \in 1 .. hi - lo, NEW m \in SearchStates(lo, hi, c, k - 1)
  PROVE  (IF m.len = 0 THEN m ELSE Halved(a, x, m)) \in SearchStates(lo, hi, c, k)
<1>1. PICK b : b = m.first
  OBVIOUS
<1>2. PICK l : l = m.len
  OBVIOUS
<1>3. /\ b \in lo .. hi /\ l \in 0 .. hi - lo /\ b + l <= hi /\ b <= c /\ c <= b + l
      /\ l <= hi - lo - (k - 1) /\ m = [first |-> b, len |-> l]
  BY <1>1, <1>2 DEF SearchStates
<1>4. CASE l = 0
  <2>1. l <= hi - lo - k
    BY <1>4
  <2>2. m \in SearchStates(lo, hi, c, k)
    BY <1>1, <1>2, <1>3, <2>1 DEF SearchStates
  <2> QED
    BY <1>2, <1>4, <2>2
<1>5. CASE l # 0
  <2>1. PICK h : h = l \div 2
    OBVIOUS
  <2>2. h \in Nat /\ h < l
    BY <1>3, <1>5, <2>1
  <2>3. b + h \in lo .. hi - 1
    BY <1>3, <2>2
  <2>4. CASE a[b + h] < x
    <3>1. b + h < c
      BY <2>3, <2>4
    <3>2. PICK z : z = [first |-> b + h + 1, len |-> l - h - 1]
      OBVIOUS
    <3>3. b + h + 1 \in lo .. hi /\ l - h - 1 \in 0 .. hi - lo
      BY <1>3, <2>2, <2>3
    <3>4. /\ z.first = b + h + 1 /\ z.len = l - h - 1
          /\ z \in [first : lo .. hi, len : 0 .. hi - lo]
      BY <3>2, <3>3
    <3>5. /\ (b + h + 1) + (l - h - 1) <= hi /\ b + h + 1 <= c /\ c <= (b + h + 1) + (l - h - 1)
          /\ l - h - 1 <= hi - lo - k
      BY <1>3, <2>2, <3>1
    <3>6. z \in SearchStates(lo, hi, c, k)
      BY <3>4, <3>5 DEF SearchStates
    <3>7. Halved(a, x, m) = z
      BY <1>1, <1>2, <2>1, <2>4, <3>2 DEF Halved
    <3> QED
      BY <1>2, <1>5, <3>6, <3>7
  <2>5. CASE ~(a[b + h] < x)
    <3>1. c <= b + h
      BY <2>3, <2>5
    <3>2. PICK z : z = [first |-> b, len |-> h]
      OBVIOUS
    <3>3. /\ z.first = b /\ z.len = h
          /\ z \in [first : lo .. hi, len : 0 .. hi - lo]
      BY <1>3, <2>2, <3>2
    <3>4. b + h <= hi /\ h <= hi - lo - k
      BY <1>3, <2>2
    <3>5. z \in SearchStates(lo, hi, c, k)
      BY <1>3, <3>1, <3>3, <3>4 DEF SearchStates
    <3>6. Halved(a, x, m) = z
      BY <1>1, <1>2, <2>1, <2>5, <3>2 DEF Halved
    <3> QED
      BY <1>2, <1>5, <3>5, <3>6
  <2> QED
    BY <2>4, <2>5
<1> QED
  BY <1>4, <1>5

\* So the search ends at that border.
LEMMA SearchFinds ==
  ASSUME NEW lo \in Nat, NEW hi \in Nat, lo <= hi, NEW x, NEW a, NEW c \in lo .. hi,
         \A p \in lo .. c - 1 : a[p] < x, \A p \in c .. hi - 1 : ~(a[p] < x)
  PROVE  BinarySearch(a, lo, hi, x) <=> c < hi /\ a[c] = x
<1>1. PICK M \in Nat : M = hi - lo
  OBVIOUS
<1>2. 0 \in 0 .. M /\ M \in 0 .. M
  BY <1>1
<1>3. PICK first : first = [first |-> lo, len |-> hi - lo]
  OBVIOUS
<1>4. first \in SearchStates(lo, hi, c, 0)
  BY <1>3 DEF SearchStates
<1> DEFINE Next2(m) == IF m.len = 0 THEN m ELSE Halved(a, x, m)
           D == [k \in 0 .. M |-> SearchStates(lo, hi, c, k)]
           G == [k \in 1 .. M |-> [m \in D[k - 1] |-> Next2(m)]]
           Solves(F) == F = [k \in 0 .. M |-> IF k = 0 THEN first ELSE Next2(F[k - 1])]
<1>5. \A k \in 1 .. M : \A m \in D[k - 1] : Next2(m) \in D[k] /\ G[k][m] = Next2(m)
  <2> SUFFICES ASSUME NEW k \in 1 .. M, NEW m \in D[k - 1]
               PROVE  Next2(m) \in D[k] /\ G[k][m] = Next2(m)
    OBVIOUS
  <2>1. k \in 0 .. M /\ k - 1 \in 0 .. M /\ k \in 1 .. hi - lo
    BY <1>1
  <2>2. m \in SearchStates(lo, hi, c, k - 1)
    BY <2>1
  <2>3. Next2(m) \in SearchStates(lo, hi, c, k)
    BY <2>1, <2>2, SearchRound
  <2> QED
    BY <2>1, <2>3
<1>6. first \in D[0]
  BY <1>2, <1>4
<1> HIDE DEF Next2
<1>7. \E F : Follows(F, M, first, G) /\ \A k \in 0 .. M : F[k] \in D[k]
  <2>1. \A k \in 1 .. M : \A m \in D[k - 1] : G[k][m] \in D[k]
    BY <1>5
  <2> HIDE DEF G, D
  <2> QED
    BY <1>6, <2>1, Recursion
<1>8. \E F : Solves(F)
  <2> HIDE DEF D
  <2>1. PICK F : Follows(F, M, first, G) /\ \A k \in 0 .. M : F[k] \in D[k]
    BY <1>7
  <2> HIDE DEF G
  <2>2. F = [k \in 0 .. M |-> IF k = 0 THEN first ELSE G[k][F[k - 1]]]
    BY <2>1 DEF Follows
  <2>3. \A k \in 0 .. M : k # 0 => k - 1 \in 0 .. M /\ k \in 1 .. M
    BY <1>1
  <2>4. \A k \in 0 .. M : k # 0 => G[k][F[k - 1]] = Next2(F[k - 1])
    BY <1>5, <2>1, <2>3
  <2>5. Solves(F)
    BY <2>2, <2>4
  <2> QED
    BY <2>5
<1>9. PICK F : F = CHOOSE H : Solves(H)
  OBVIOUS
<1>10. BinarySearch(a, lo, hi, x) <=> F[M].first < hi /\ a[F[M].first] = x
  BY <1>1, <1>3, <1>9 DEF BinarySearch, Next2, Halved
<1>11. Solves(F)
  BY <1>8, <1>9
<1>12. F[0] = first /\ \A k \in 1 .. M : F[k] = Next2(F[k - 1])
  BY <1>2, <1>11
<1> HIDE DEF Solves
<1>13. \A k \in 0 .. M : F[k] \in D[k]
  <2> DEFINE P == {k \in 0 .. M : F[k] \in D[k]}
  <2>1. 0 \in P
    BY <1>2, <1>6, <1>12
  <2>2. ASSUME NEW k \in 1 .. M, k - 1 \in P PROVE k \in P
    <3>1. F[k] = Next2(F[k - 1]) /\ F[k - 1] \in D[k - 1] /\ k \in 0 .. M
      BY <1>12, <2>2
    <3> HIDE DEF D
    <3>2. Next2(F[k - 1]) \in D[k]
      BY <1>5, <3>1
    <3> QED
      BY <3>1, <3>2
  <2> HIDE DEF P
  <2>3. \A k \in 0 .. M : k \in P
    BY <2>1, <2>2, UpTo
  <2> QED
    BY <2>3 DEF P
<1>14. F[M] \in SearchStates(lo, hi, c, hi - lo)
  BY <1>1, <1>2, <1>13
<1>15. F[M].first = c
  <2>1. PICK b : b = F[M].first
    OBVIOUS
  <2>2. PICK l : l = F[M].len
    OBVIOUS
  <2>3. b \in lo .. hi /\ l \in 0 .. hi - lo /\ b <= c /\ c <= b + l /\ l <= hi - lo - (hi - lo)
    BY <1>14, <2>1, <2>2 DEF SearchStates
  <2>4. b = c
    BY <2>3
  <2> QED
    BY <2>1, <2>4
<1> QED
  BY <1>10, <1>15

\* The search through a list whose head is below x and whose rest is sorted.
Searchable(a, lo, mid, hi, x) ==
  /\ lo \in Nat /\ mid \in Nat /\ hi \in Nat /\ lo <= mid /\ mid <= hi /\ x \in Int
  /\ \A p \in lo .. mid - 1 : a[p] \in Int /\ a[p] < x
  /\ \A p \in mid .. hi - 1 : a[p] \in Int
  /\ \A p, q \in mid .. hi - 1 : p < q => a[p] < a[q]

\* Where smaller cells come first and sorted ones after, x is found if it is there.
LEMMA SearchList ==
  ASSUME NEW lo, NEW mid, NEW hi, NEW x, NEW a, Searchable(a, lo, mid, hi, x)
  PROVE  BinarySearch(a, lo, hi, x) <=> \E p \in mid .. hi - 1 : a[p] = x
<1> lo \in Nat /\ mid \in Nat /\ hi \in Nat /\ lo <= mid /\ mid <= hi /\ x \in Int
  BY DEF Searchable
<1>0. /\ \A p \in lo .. mid - 1 : a[p] \in Int /\ a[p] < x
      /\ \A p \in mid .. hi - 1 : a[p] \in Int
      /\ \A p, q \in mid .. hi - 1 : p < q => a[p] < a[q]
  BY DEF Searchable
<1>1. PICK S : S = {p \in mid .. hi - 1 : ~(a[p] < x)} \cup {hi}
  OBVIOUS
<1>2. S \in SUBSET Nat /\ S # {} /\ S \subseteq mid .. hi
  BY <1>1
<1>3. PICK c \in S : \A e \in S : c <= e
  BY <1>2, LeastNumber
<1>4. c \in lo .. hi /\ c \in mid .. hi
  BY <1>2
<1>5. \A p \in lo .. c - 1 : a[p] < x
  <2> TAKE p \in lo .. c - 1
  <2>1. CASE p < mid
    <3>1. p \in lo .. mid - 1
      BY <1>4, <2>1
    <3> QED
      BY <1>0, <3>1
  <2>2. CASE ~(p < mid)
    <3>1. p \in mid .. hi - 1 /\ p < c
      BY <1>4, <2>2
    <3>2. p \notin S
      BY <1>3, <1>4, <3>1
    <3> QED
      BY <1>1, <3>1, <3>2
  <2> QED
    BY <2>1, <2>2
<1>6. \A p \in c .. hi - 1 : ~(a[p] < x)
  <2> TAKE p \in c .. hi - 1
  <2>1. c \in mid .. hi - 1 /\ p \in mid .. hi - 1
    BY <1>4
  <2>2. ~(a[c] < x) /\ a[c] \in Int /\ a[p] \in Int
    BY <1>0, <1>1, <2>1
  <2>3. c < p => a[c] < a[p]
    BY <1>0, <2>1
  <2>4. c < p \/ c = p
    BY <2>1
  <2> QED
    BY <2>2, <2>3, <2>4
<1>7. BinarySearch(a, lo, hi, x) <=> c < hi /\ a[c] = x
  <2>1. lo <= hi /\ c \in lo .. hi
    BY <1>4
  <2> QED
    BY ONLY <1>5, <1>6, <2>1, lo \in Nat, hi \in Nat, SearchFinds
<1>8. ASSUME c < hi, a[c] = x PROVE \E p \in mid .. hi - 1 : a[p] = x
  <2>1. c \in mid .. hi - 1
    BY <1>4, <1>8
  <2> QED
    BY <1>8, <2>1
<1>9. ASSUME NEW p \in mid .. hi - 1, a[p] = x PROVE c < hi /\ a[c] = x
  <2>1. ~(a[p] < x)
    BY <1>9
  <2>2. p \in S
    BY <1>1, <2>1
  <2>3. c <= p /\ c \in mid .. hi - 1
    BY <1>3, <1>4, <2>2
  <2>4. ~(a[c] < x) /\ a[c] \in Int
    BY <1>0, <1>1, <2>3
  <2>5. c < p => a[c] < a[p]
    BY <1>0, <2>3
  <2>6. c < p \/ c = p
    BY <2>3
  <2>7. a[c] = x
    BY <1>9, <2>4, <2>5, <2>6
  <2> QED
    BY <2>3, <2>7
<1> QED
  BY <1>7, <1>8, <1>9

\* The arcs that leave n lie, in order, in the cells lo .. hi - 1.
ArcList(cell, lo, hi, n) ==
  /\ \A p \in lo .. hi - 1 : cell[p] \in Vertex /\ IsArc(n, cell[p])
  /\ \A p, q \in lo .. hi - 1 : p < q => cell[p] < cell[q]
  /\ \A m : IsArc(n, m) => \E p \in lo .. hi - 1 : cell[p] = m

LEMMA LaidLists ==
  ASSUME InputOK, NEW start, NEW cell, Laid(Arcs, start, cell)
  PROVE  /\ \E d : IsPrefixSum(start, d) /\ \A n \in Vertex : d[n] \in Nat
         /\ start[numNodes] = Len(Arcs) /\ Len(Arcs) \in Nat
         /\ \A n \in Vertex : /\ start[n] \in Nat /\ start[n + 1] \in Nat
                              /\ start[n] <= start[n + 1] /\ start[n + 1] <= Len(Arcs)
                              /\ ArcList(cell, start[n], start[n + 1], n)
<1>1. PICK r : r = Arcs
  OBVIOUS
<1>2. SquishedArcs(r) /\ numNodes \in Nat \ {0}
  BY <1>1, SquishedListHolds, InputFacts DEF Arcs
<1>3. PICK M : M = Len(r)
  OBVIOUS
<1>4. M \in Nat /\ \A k \in 1 .. M : r[k].u \in Vertex /\ r[k].v \in Vertex /\ Sources(r)[k] = r[k].u
  BY <1>2, <1>3, ArcFacts
<1>5. IsPrefixSum(start, Counted(Sources(r), 1 .. M)) /\ \A p \in 0 .. M - 1 : cell[p] = r[p + 1].v
  BY <1>1, <1>3 DEF Laid
<1>6. PICK d : d = Counted(Sources(r), 1 .. M)
  OBVIOUS
<1>7. \A n \in Vertex : d[n] \in Nat
  <2>1. M \in Int /\ 1 \in Int
    BY <1>4
  <2>2. IsFiniteSet(1 .. M)
    BY ONLY <2>1, FS_Interval
  <2>3. \A k \in 1 .. M : Sources(r)[k] \in Vertex
    BY <1>4
  <2> QED
    BY ONLY <1>2, <1>6, <2>2, <2>3, CountedFacts
<1>8. /\ start[numNodes] = M
      /\ \A k \in 1 .. M : k - 1 \in start[r[k].u] .. start[r[k].u + 1] - 1
      /\ \A n \in Vertex : \A p \in start[n] .. start[n + 1] - 1 : p + 1 \in 1 .. M /\ r[p + 1].u = n
      /\ \A n \in Vertex : /\ start[n] \in Nat /\ start[n + 1] \in Nat
                           /\ start[n] <= start[n + 1] /\ start[n + 1] <= M
  BY <1>2, <1>3, <1>5, LaidFacts
<1>9. ASSUME NEW n \in Vertex PROVE ArcList(cell, start[n], start[n + 1], n)
  <2>1. PICK a \in Nat : a = start[n]
    BY <1>8
  <2>2. PICK b \in Nat : b = start[n + 1]
    BY <1>8
  <2>3. \A p \in a .. b - 1 : p + 1 \in 1 .. M /\ r[p + 1].u = n /\ cell[p] = r[p + 1].v /\ p \in Nat
    <3> TAKE p \in a .. b - 1
    <3>1. p + 1 \in 1 .. M /\ r[p + 1].u = n /\ p \in Nat
      BY <1>8, <2>1, <2>2
    <3>2. p \in 0 .. M - 1
      BY <1>4, <3>1
    <3> QED
      BY <1>5, <3>1, <3>2
  <2>4. ASSUME NEW p \in a .. b - 1 PROVE cell[p] \in Vertex /\ IsArc(n, cell[p])
    <3>1. PICK k \in 1 .. M : k = p + 1
      BY <2>3
    <3>2. IsArc(r[k].u, r[k].v) /\ r[k].v \in Vertex
      BY <1>2, <1>3, <1>4 DEF SquishedArcs
    <3> QED
      BY <2>3, <3>1, <3>2
  <2>5. ASSUME NEW p \in a .. b - 1, NEW q \in a .. b - 1, p < q PROVE cell[p] < cell[q]
    <3>1. PICK k \in 1 .. M : k = p + 1
      BY <2>3
    <3>2. PICK j \in 1 .. M : j = q + 1
      BY <2>3
    <3>3. k < j
      BY <2>5, <3>1, <3>2
    <3>4. Ahead(r[k], r[j])
      BY <1>2, <1>3, <3>3 DEF SquishedArcs
    <3>5. r[k].u = n /\ r[j].u = n /\ cell[p] = r[k].v /\ cell[q] = r[j].v
      BY <2>3, <3>1, <3>2
    <3> QED
      BY <3>4, <3>5 DEF Ahead
  <2>6. ASSUME NEW m, IsArc(n, m) PROVE \E p \in a .. b - 1 : cell[p] = m
    <3>1. PICK k \in 1 .. M : r[k].u = n /\ r[k].v = m
      BY <1>2, <1>3, <2>6 DEF SquishedArcs
    <3>2. k - 1 \in a .. b - 1 /\ (k - 1) + 1 = k
      BY <1>8, <2>1, <2>2, <3>1
    <3>3. cell[k - 1] = r[(k - 1) + 1].v
      BY <2>3, <3>2
    <3> QED
      BY <3>1, <3>2, <3>3
  <2> QED
    BY <2>1, <2>2, <2>4, <2>5, <2>6 DEF ArcList
<1> QED
  BY <1>1, <1>3, <1>4, <1>5, <1>6, <1>7, <1>8, <1>9

\* The vertices whose arc to v has no inverse.
Lackers(v) == {u \in Vertex : IsArc(u, v) /\ ~IsArc(v, u)}
Missing == [v \in Vertex |-> Cardinality(Lackers(v))]

LEMMA MissingFacts ==
  ASSUME InputOK
  PROVE  \A v \in Vertex : IsFiniteSet(Lackers(v)) /\ Missing[v] = Cardinality(Lackers(v)) /\ Missing[v] \in Nat
<1>1. IsFiniteSet(Vertex)
  BY InputFacts, VertexFinite
<1>2. ASSUME NEW v \in Vertex
      PROVE  IsFiniteSet(Lackers(v)) /\ Missing[v] = Cardinality(Lackers(v)) /\ Missing[v] \in Nat
  <2>1. PICK S : S = Lackers(v)
    OBVIOUS
  <2>2. S \subseteq Vertex
    BY <2>1 DEF Lackers
  <2>3. IsFiniteSet(S) /\ Cardinality(S) \in Nat
    BY <1>1, <2>2, FS_Subset, FS_CardinalityType
  <2> QED
    BY <2>1, <2>3 DEF Missing
<1> QED
  BY <1>2

\* The sums below each vertex are a prefix sum.
LEMMA SumsBelow ==
  ASSUME numNodes \in Nat \ {0}, NEW d, \A n \in Vertex : d[n] \in Nat
  PROVE  /\ IsPrefixSum([n \in 0 .. numNodes |-> SumFunctionOnSet(d, {m \in Vertex : m < n})], d)
         /\ \A n \in Vertex : {m \in Vertex : m < n + 1} = 0 .. n
<1>1. IsFiniteSet(Vertex)
  BY VertexFinite
<1>2. PICK R : R = [n \in 0 .. numNodes |-> SumFunctionOnSet(d, {m \in Vertex : m < n})]
  OBVIOUS
<1>3. ASSUME NEW n \in 0 .. numNodes
      PROVE  R[n] \in Nat
  <2>1. PICK S : S = {m \in Vertex : m < n}
    OBVIOUS
  <2>2. S \subseteq Vertex /\ IsFiniteSet(S)
    BY <1>1, <2>1, FS_Subset
  <2>3. \A m \in S : d[m] \in Nat
    BY <2>2
  <2>4. SumFunctionOnSet(d, S) \in Nat
    BY <2>2, <2>3, SumNat
  <2> QED
    BY <1>2, <2>1, <2>4
<1>4. R \in [0 .. numNodes -> Nat]
  BY <1>2, <1>3
<1>5. R[0] = 0
  <2>1. {m \in Vertex : m < 0} = {}
    BY DEF Vertex
  <2>2. 0 \in 0 .. numNodes
    OBVIOUS
  <2> QED
    BY <1>2, <2>1, <2>2, SumEmpty
<1>6. ASSUME NEW n \in Vertex
      PROVE  n + 1 \in 0 .. numNodes /\ R[n + 1] = R[n] + d[n] /\ {m \in Vertex : m < n + 1} = 0 .. n
  <2>1. n + 1 \in 0 .. numNodes /\ n \in 0 .. numNodes
    BY DEF Vertex
  <2>2. PICK S : S = {m \in Vertex : m < n}
    OBVIOUS
  <2>3. n \notin S /\ S \subseteq Vertex /\ {m \in Vertex : m < n + 1} = S \cup {n}
    BY <2>2 DEF Vertex
  <2>4. IsFiniteSet(S) /\ d[n] \in Int /\ \A m \in S : d[m] \in Int
    BY <1>1, <2>3, FS_Subset
  <2>5. SumFunctionOnSet(d, S \cup {n}) = SumFunctionOnSet(d, S) + d[n]
    BY <2>3, <2>4, SumAdd
  <2>6. R[n + 1] = SumFunctionOnSet(d, S \cup {n}) /\ R[n] = SumFunctionOnSet(d, S)
    BY <1>2, <2>1, <2>2, <2>3
  <2>7. {m \in Vertex : m < n + 1} = 0 .. n
    BY DEF Vertex
  <2> QED
    BY <2>1, <2>5, <2>6, <2>7
<1>7. IsPrefixSum(R, d)
  BY <1>4, <1>5, <1>6 DEF IsPrefixSum
<1> QED
  BY <1>2, <1>6, <1>7

\* Room has been made for the inverses: R is what is made before each vertex.
Widened(start, R) ==
  /\ Laid(Arcs, start, neighs)
  /\ needed = Missing /\ IsPrefixSum(R, Missing)
  /\ offsets \in [0 .. numNodes -> Nat]
  /\ \A n \in 0 .. numNodes : offsets[n] = start[n] + R[n]
  /\ neighs = [p \in 0 .. offsets[numNodes] - 1 |-> neighs[p]]

\* Step 1 makes as much room as inverses are lacking.
LEMMA CountStep ==
  ASSUME InputOK, Laid(Arcs, offsets, neighs), CountInverses, input' = input, numNodes' = numNodes
  PROVE  \E start, R : Widened(start, R)'
<1>1. PICK start : start = offsets
  OBVIOUS
<1>2. PICK cell : cell = neighs
  OBVIOUS
<1>3. PICK M : M = Len(Arcs)
  OBVIOUS
<1>4. numNodes \in Nat \ {0}
  BY InputFacts
<1>5. /\ start[numNodes] = M /\ M \in Nat
      /\ \A n \in Vertex : /\ start[n] \in Nat /\ start[n + 1] \in Nat
                           /\ start[n] <= start[n + 1] /\ start[n + 1] <= M
                           /\ ArcList(cell, start[n], start[n + 1], n)
  BY <1>1, <1>2, <1>3, LaidLists
<1>6. start \in [0 .. numNodes -> Nat]
  BY <1>1 DEF Laid, IsPrefixSum
<1>7. \A u, v \in Vertex : /\ v \in {cell[p] : p \in start[u] .. start[u + 1] - 1} <=> IsArc(u, v)
                           /\ BinarySearch(cell, start[v], start[v + 1], u) <=> IsArc(v, u)
  <2> SUFFICES ASSUME NEW u \in Vertex, NEW v \in Vertex
               PROVE  /\ v \in {cell[p] : p \in start[u] .. start[u + 1] - 1} <=> IsArc(u, v)
                      /\ BinarySearch(cell, start[v], start[v + 1], u) <=> IsArc(v, u)
    OBVIOUS
  <2>1. ArcList(cell, start[u], start[u + 1], u)
    BY <1>5
  <2>2. v \in {cell[p] : p \in start[u] .. start[u + 1] - 1} <=> IsArc(u, v)
    BY <2>1 DEF ArcList
  <2>3. PICK a \in Nat : a = start[v]
    BY <1>5
  <2>4. PICK b \in Nat : b = start[v + 1]
    BY <1>5
  <2>5. a <= b /\ ArcList(cell, a, b, v)
    BY <1>5, <2>3, <2>4
  <2>6. /\ \A p \in a .. b - 1 : cell[p] \in Int
        /\ \A p, q \in a .. b - 1 : p < q => cell[p] < cell[q]
        /\ \A p \in a .. a - 1 : cell[p] \in Int /\ cell[p] < u
    BY <2>5 DEF ArcList, Vertex
  <2>7. u \in Int /\ a <= a
    BY <2>3 DEF Vertex
  <2>8. BinarySearch(cell, a, b, u) <=> \E p \in a .. b - 1 : cell[p] = u
    <3>1. Searchable(cell, a, a, b, u)
      BY <2>5, <2>6, <2>7 DEF Searchable
    <3> QED
      BY ONLY <3>1, SearchList
  <2>9. (\E p \in a .. b - 1 : cell[p] = u) <=> IsArc(v, u)
    BY <2>5 DEF ArcList
  <2> QED
    BY <2>2, <2>3, <2>4, <2>8, <2>9
<1>8. PICK invs : invs = [v \in Vertex |->
                            Cardinality({u \in Vertex : /\ v \in {neighs[p] : p \in offsets[u] .. offsets[u + 1] - 1}
                                                        /\ ~BinarySearch(neighs, offsets[v], offsets[v + 1], u)})]
  OBVIOUS
<1>9. invs = Missing
  <2>1. \A v \in Vertex : {u \in Vertex : /\ v \in {neighs[p] : p \in offsets[u] .. offsets[u + 1] - 1}
                                          /\ ~BinarySearch(neighs, offsets[v], offsets[v + 1], u)} = Lackers(v)
    BY <1>1, <1>2, <1>7 DEF Lackers
  <2> QED
    BY <1>8, <2>1 DEF Missing
<1>10. PICK R : R = [n \in 0 .. numNodes |-> SumFunctionOnSet(Missing, {m \in Vertex : m < n})]
  OBVIOUS
<1>11. IsPrefixSum(R, Missing)
  <2>1. \A n \in Vertex : Missing[n] \in Nat
    BY MissingFacts
  <2> QED
    BY <1>4, <1>10, <2>1, SumsBelow
<1>12. PICK wider : wider = [n \in 0 .. numNodes |-> offsets[n] + SumFunctionOnSet(invs, {m \in Vertex : m < n})]
  OBVIOUS
<1>13. /\ needed' = invs /\ offsets' = wider
       /\ neighs' = [p \in 0 .. wider[numNodes] - 1 |-> neighs[p]]
  BY <1>8, <1>12 DEF CountInverses
<1>14. \A n \in 0 .. numNodes : wider[n] = start[n] + R[n] /\ wider[n] \in Nat /\ R[n] \in Nat
  <2> TAKE n \in 0 .. numNodes
  <2>1. wider[n] = start[n] + R[n]
    BY <1>1, <1>9, <1>10, <1>12
  <2>2. start[n] \in Nat /\ R[n] \in Nat
    BY <1>6, <1>11 DEF IsPrefixSum
  <2> QED
    BY <2>1, <2>2
<1>15. wider \in [0 .. numNodes -> Nat]
  BY <1>12, <1>14
<1>16. \A p \in 0 .. M - 1 : p \in 0 .. wider[numNodes] - 1
  <2>1. numNodes \in 0 .. numNodes
    BY <1>4
  <2>2. wider[numNodes] = M + R[numNodes] /\ R[numNodes] \in Nat
    BY <1>5, <1>14, <2>1
  <2> QED
    BY <1>5, <2>2
<1>17. PICK cell2 : cell2 = neighs'
  OBVIOUS
<1>18. Laid(Arcs, start, cell2)
  <2>1. \A p \in 0 .. M - 1 : cell2[p] = cell[p]
    BY <1>2, <1>13, <1>16, <1>17
  <2>2. Laid(Arcs, start, cell)
    BY <1>1, <1>2
  <2> QED
    BY <1>3, <2>1, <2>2 DEF Laid
<1>19. Vertex' = Vertex /\ Arcs' = Arcs /\ Missing' = Missing
       /\ \A P, d : IsPrefixSum(P, d)' = IsPrefixSum(P, d)
       /\ \A f, D : Counted(f, D)' = Counted(f, D)
  <2>1. Vertex' = Vertex
    BY DEF Vertex
  <2>2. Arcs' = Arcs
    BY DEF Arcs
  <2>3. \A u, v : IsArc(u, v)' = IsArc(u, v)
    BY DEF IsArc
  <2>4. Missing' = Missing
    BY <2>1, <2>3 DEF Missing, Lackers
  <2>5. \A P, d : IsPrefixSum(P, d)' = IsPrefixSum(P, d)
    BY <2>1 DEF IsPrefixSum
  <2>6. \A f, D : Counted(f, D)' = Counted(f, D)
    BY <2>1 DEF Counted
  <2> QED
    BY <2>1, <2>2, <2>4, <2>5, <2>6
<1>20. Laid(Arcs, start, neighs)'
  <2>1. Laid(Arcs, start, neighs)' = Laid(Arcs, start, cell2)
    BY <1>17, <1>19 DEF Laid, Sources
  <2> QED
    BY <1>18, <2>1
<1>21. Widened(start, R)'
  <2>1. needed' = Missing' /\ IsPrefixSum(R, Missing)'
    BY <1>9, <1>11, <1>13, <1>19
  <2>2. offsets' \in [0 .. numNodes' -> Nat] /\ \A n \in 0 .. numNodes' : offsets'[n] = start[n] + R[n]
    BY <1>13, <1>14, <1>15
  <2>3. neighs' = [p \in 0 .. offsets'[numNodes'] - 1 |-> neighs'[p]]
    BY <1>13
  <2> QED
    BY <1>20, <2>1, <2>2, <2>3 DEF Widened
<1> QED
  BY <1>21

\* What the spreading loop moves to the cell p.
Moved(R, p) ==
  LET n == ListOf(p)
  IN  IF p < offsets[n] + needed[n] THEN neighs[p] ELSE neighs[p - R[n + 1]]

\* From the last cell down to p the neighbours have moved.
SpreadUpTo(R, k) ==
  [p \in 0 .. offsets[numNodes] - 1 |-> IF p < offsets[numNodes] - k THEN neighs[p] ELSE Moved(R, p)]

MoveCell(a, p) ==
  LET n == ListOf(p)
  IN  IF p < offsets[n] + needed[n] THEN a ELSE [a EXCEPT ![p] = a[p - SumFunctionOnSet(needed, 0 .. n)]]

\* The lists with the room in front of them.
WiderLists(R) ==
  /\ \A n \in Vertex : /\ offsets[n] \in Nat /\ offsets[n + 1] \in Nat /\ R[n + 1] \in Nat
                       /\ offsets[n + 1] <= offsets[numNodes]
                       /\ R[n + 1] <= offsets[n] + needed[n] /\ needed[n] \in Nat
                       /\ SumFunctionOnSet(needed, 0 .. n) = R[n + 1]
  /\ \A n \in Vertex : \A p \in offsets[n] .. offsets[n + 1] - 1 : ListOf(p) = n
  /\ offsets[numNodes] \in Nat
  /\ \A p \in 0 .. offsets[numNodes] - 1 : \E n \in Vertex : p \in offsets[n] .. offsets[n + 1] - 1

LEMMA WiderFacts ==
  ASSUME InputOK, NEW start, NEW R, Widened(start, R)
  PROVE  /\ WiderLists(R)
         /\ \E d : /\ IsPrefixSum(offsets, d)
                   /\ \A n \in Vertex : d[n] \in Nat /\ needed[n] <= d[n]
<1>1. numNodes \in Nat \ {0} /\ numNodes \in 0 .. numNodes
  BY InputFacts
<1>2. /\ Laid(Arcs, start, neighs) /\ needed = Missing /\ IsPrefixSum(R, needed)
      /\ offsets \in [0 .. numNodes -> Nat]
      /\ \A n \in 0 .. numNodes : offsets[n] = start[n] + R[n]
  BY DEF Widened
<1>3. PICK c : IsPrefixSum(start, c) /\ \A n \in Vertex : c[n] \in Nat
  BY <1>2, LaidLists
<1>4. \A n \in Vertex : needed[n] \in Nat
  BY <1>2, MissingFacts
<1>5. PICK d : d = [n \in Vertex |-> c[n] + needed[n]]
  OBVIOUS
<1>6. \A n \in Vertex : d[n] = c[n] + needed[n] /\ d[n] \in Nat /\ needed[n] <= d[n]
  <2> TAKE n \in Vertex
  <2>1. c[n] \in Nat /\ needed[n] \in Nat /\ d[n] = c[n] + needed[n]
    BY <1>3, <1>4, <1>5
  <2> QED
    BY <2>1
<1>7. \A n \in Vertex : /\ n \in 0 .. numNodes /\ n + 1 \in 0 .. numNodes
                        /\ numNodes \in (n + 1) .. numNodes
  BY <1>1 DEF Vertex
<1>8. \A n \in Vertex : /\ start[n] \in Nat /\ R[n] \in Nat /\ R[n + 1] \in Nat
                        /\ R[n + 1] = R[n] + needed[n] /\ start[n + 1] = start[n] + c[n]
  BY <1>2, <1>3, <1>7 DEF IsPrefixSum
<1>9. IsPrefixSum(offsets, d)
  <2>1. offsets[0] = 0
    <3>1. start[0] = 0 /\ R[0] = 0 /\ 0 \in 0 .. numNodes
      BY <1>1, <1>2, <1>3 DEF IsPrefixSum
    <3> QED
      BY <1>2, <3>1
  <2>2. \A n \in Vertex : n + 1 \in 0 .. numNodes /\ offsets[n + 1] = offsets[n] + d[n]
    <3> TAKE n \in Vertex
    <3>1. offsets[n + 1] = start[n + 1] + R[n + 1] /\ offsets[n] = start[n] + R[n]
      BY <1>2, <1>7
    <3>2. c[n] \in Nat /\ needed[n] \in Nat
      BY <1>3, <1>4
    <3> QED
      BY <1>6, <1>7, <1>8, <3>1, <3>2
  <2> QED
    BY <1>2, <2>1, <2>2 DEF IsPrefixSum
<1>10. R = [n \in 0 .. numNodes |-> SumFunctionOnSet(needed, {m \in Vertex : m < n})]
  <2>1. PICK Q : Q = [n \in 0 .. numNodes |-> SumFunctionOnSet(needed, {m \in Vertex : m < n})]
    OBVIOUS
  <2>2. IsPrefixSum(Q, needed)
    BY <1>1, <1>4, <2>1, SumsBelow
  <2> DEFINE P == {n \in 0 .. numNodes : R[n] = Q[n]}
  <2>3. 0 \in P
    BY <1>1, <1>2, <2>2 DEF IsPrefixSum
  <2>4. ASSUME NEW n \in 1 .. numNodes, n - 1 \in P PROVE n \in P
    <3>1. n - 1 \in Vertex /\ (n - 1) + 1 = n /\ n \in 0 .. numNodes
      BY <1>1 DEF Vertex
    <3>2. R[n] = R[n - 1] + needed[n - 1] /\ Q[n] = Q[n - 1] + needed[n - 1]
      BY <1>2, <2>2, <3>1 DEF IsPrefixSum
    <3> QED
      BY <2>4, <3>1, <3>2
  <2> HIDE DEF P
  <2>5. \A n \in 0 .. numNodes : n \in P
    BY <1>1, <2>3, <2>4, UpTo
  <2>6. \A n \in 0 .. numNodes : R[n] = Q[n]
    BY <2>5 DEF P
  <2>7. R \in [0 .. numNodes -> Nat]
    BY <1>2 DEF IsPrefixSum
  <2> QED
    BY <2>1, <2>6, <2>7
<1>11. ASSUME NEW n \in Vertex
       PROVE  /\ offsets[n] \in Nat /\ offsets[n + 1] \in Nat /\ R[n + 1] \in Nat
              /\ offsets[n + 1] <= offsets[numNodes]
              /\ R[n + 1] <= offsets[n] + needed[n] /\ needed[n] \in Nat
              /\ SumFunctionOnSet(needed, 0 .. n) = R[n + 1]
  <2>1. offsets[n + 1] <= offsets[numNodes]
    BY <1>1, <1>6, <1>7, <1>9, PrefixGrows
  <2>2. offsets[n] = start[n] + R[n] /\ offsets[n] \in Nat /\ offsets[n + 1] \in Nat
    BY <1>2, <1>7
  <2>3. needed[n] \in Nat
    BY <1>4
  <2>4. R[n + 1] <= offsets[n] + needed[n]
    BY <1>8, <2>2, <2>3
  <2>5. {m \in Vertex : m < n + 1} = 0 .. n
    BY <1>1, <1>4, SumsBelow
  <2>6. R[n + 1] = SumFunctionOnSet(needed, {m \in Vertex : m < n + 1})
    BY <1>7, <1>10
  <2> QED
    BY <1>8, <2>1, <2>2, <2>3, <2>4, <2>5, <2>6
<1>12. \A n \in Vertex : \A p \in offsets[n] .. offsets[n + 1] - 1 : ListOf(p) = n
  <2> TAKE n \in Vertex
  <2> TAKE p \in offsets[n] .. offsets[n + 1] - 1
  <2>1. \A m \in Vertex : d[m] \in Nat
    BY <1>6
  <2> QED
    BY <1>1, <1>9, <2>1, ListOfIs
<1>13. offsets[numNodes] \in Nat
  BY <1>1, <1>2
<1>14. \A p \in 0 .. offsets[numNodes] - 1 : \E n \in Vertex : p \in offsets[n] .. offsets[n + 1] - 1
  <2>1. offsets[0] = 0
    BY <1>9 DEF IsPrefixSum
  <2> QED
    BY <1>1, <1>2, <2>1, OwnerExists
<1>15. WiderLists(R)
  BY <1>11, <1>12, <1>13, <1>14 DEF WiderLists
<1> QED
  BY <1>6, <1>9, <1>15

\* One neighbour moves up, from a cell that has not been written to.
LEMMA SpreadRound ==
  ASSUME InputOK, NEW R, WiderLists(R), NEW k \in 1 .. offsets[numNodes]
  PROVE  MoveCell(SpreadUpTo(R, k - 1), offsets[numNodes] - k) = SpreadUpTo(R, k)
<1>1. PICK T \in Nat : T = offsets[numNodes]
  BY DEF WiderLists
<1>2. PICK p : p = T - k
  OBVIOUS
<1>3. p \in 0 .. T - 1 /\ p + 1 = T - (k - 1)
  BY <1>1, <1>2
<1>4. PICK a : a = SpreadUpTo(R, k - 1)
  OBVIOUS
<1>5. PICK b : b = SpreadUpTo(R, k)
  OBVIOUS
<1>6. /\ a = [q \in 0 .. T - 1 |-> IF q < p + 1 THEN neighs[q] ELSE Moved(R, q)]
      /\ b = [q \in 0 .. T - 1 |-> IF q < p THEN neighs[q] ELSE Moved(R, q)]
  BY <1>1, <1>2, <1>3, <1>4, <1>5 DEF SpreadUpTo
<1>7. PICK n \in Vertex : p \in offsets[n] .. offsets[n + 1] - 1
  BY <1>1, <1>3 DEF WiderLists
<1>8. /\ ListOf(p) = n /\ offsets[n] \in Nat /\ R[n + 1] \in Nat /\ needed[n] \in Nat
      /\ R[n + 1] <= offsets[n] + needed[n] /\ SumFunctionOnSet(needed, 0 .. n) = R[n + 1]
  BY <1>7 DEF WiderLists
<1>9. \A q \in 0 .. T - 1 : q # p => b[q] = a[q]
  <2> TAKE q \in 0 .. T - 1
  <2> HAVE q # p
  <2>1. q < p + 1 <=> q < p
    BY <1>3
  <2> QED
    BY <1>6, <2>1
<1>10. b[p] = Moved(R, p) /\ a[p] = neighs[p]
  <2>1. ~(p < p) /\ p < p + 1
    BY <1>3
  <2> QED
    BY <1>3, <1>6, <2>1
<1>11. CASE p < offsets[n] + needed[n]
  <2>1. MoveCell(a, p) = a
    BY <1>8, <1>11 DEF MoveCell
  <2>2. b[p] = a[p]
    BY <1>8, <1>10, <1>11 DEF Moved
  <2>3. \A q \in 0 .. T - 1 : b[q] = a[q]
    BY <1>9, <2>2
  <2>4. b = a
    BY <1>6, <2>3
  <2> QED
    BY <1>1, <1>2, <1>4, <1>5, <2>1, <2>4
<1>12. CASE ~(p < offsets[n] + needed[n])
  <2>1. PICK q : q = p - R[n + 1]
    OBVIOUS
  <2>2. q \in 0 .. T - 1 /\ q < p + 1
    BY <1>3, <1>8, <1>12, <2>1
  <2>3. a[q] = neighs[q]
    BY <1>6, <2>2
  <2>4. b[p] = neighs[q]
    BY <1>8, <1>10, <1>12, <2>1 DEF Moved
  <2>5. PICK c : c = [a EXCEPT ![p] = a[q]]
    OBVIOUS
  <2>6. MoveCell(a, p) = c
    BY <1>8, <1>12, <2>1, <2>5 DEF MoveCell
  <2>7. c = [x \in 0 .. T - 1 |-> c[x]] /\ \A x \in 0 .. T - 1 : c[x] = IF x = p THEN a[q] ELSE a[x]
    <3>1. PICK y : y = a[q]
      OBVIOUS
    <3>2. PICK D : D = 0 .. T - 1
      OBVIOUS
    <3>3. a = [x \in D |-> a[x]]
      BY <1>6, <3>2
    <3>4. c = [a EXCEPT ![p] = y]
      BY <2>5, <3>1
    <3>5. c = [x \in D |-> c[x]] /\ \A x \in D : c[x] = IF x = p THEN y ELSE a[x]
      BY ONLY <3>3, <3>4
    <3> QED
      BY <3>1, <3>2, <3>5
  <2>8. \A x \in 0 .. T - 1 : c[x] = b[x]
    BY <1>9, <2>3, <2>4, <2>7
  <2>9. b = [x \in 0 .. T - 1 |-> b[x]]
    BY <1>6
  <2>10. c = b
    BY <2>7, <2>8, <2>9
  <2> QED
    BY <1>1, <1>2, <1>4, <1>5, <2>6, <2>10
<1> QED
  BY <1>11, <1>12

LEMMA SpreadingIs ==
  ASSUME InputOK, NEW start, NEW R, Widened(start, R)
  PROVE  Spreading = SpreadUpTo(R, offsets[numNodes])
<1>1. WiderLists(R)
  BY WiderFacts
<1>2. PICK T \in Nat : T = offsets[numNodes]
  BY <1>1 DEF WiderLists
<1>3. 0 \in 0 .. T /\ T \in 0 .. T
  OBVIOUS
<1>4. neighs = SpreadUpTo(R, 0)
  <2>1. neighs = [p \in 0 .. T - 1 |-> neighs[p]]
    BY <1>2 DEF Widened
  <2>2. \A p \in 0 .. T - 1 : p < T - 0
    OBVIOUS
  <2>3. SpreadUpTo(R, 0) = [p \in 0 .. T - 1 |-> neighs[p]]
    BY <1>2, <2>2 DEF SpreadUpTo
  <2> QED
    BY <2>1, <2>3
<1> DEFINE H == [k \in 0 .. T |-> SpreadUpTo(R, k)]
           Solves(F) == F = [k \in 0 .. T |-> IF k = 0 THEN neighs ELSE MoveCell(F[k - 1], T - k)]
<1>5. \A k \in 1 .. T : MoveCell(SpreadUpTo(R, k - 1), T - k) = SpreadUpTo(R, k)
  BY <1>1, <1>2, SpreadRound
<1>6. Solves(H)
  <2>1. \A k \in 0 .. T : H[k] = IF k = 0 THEN neighs ELSE MoveCell(H[k - 1], T - k)
    <3> TAKE k \in 0 .. T
    <3>1. CASE k = 0
      BY <1>4, <3>1
    <3>2. CASE k # 0
      <4>1. k \in 1 .. T /\ k - 1 \in 0 .. T
        BY <3>2
      <4>2. H[k - 1] = SpreadUpTo(R, k - 1) /\ H[k] = SpreadUpTo(R, k)
        BY <4>1
      <4> HIDE DEF H
      <4> QED
        BY <1>5, <3>2, <4>1, <4>2
    <3> QED
      BY <3>1, <3>2
  <2>2. H = [k \in 0 .. T |-> H[k]]
    OBVIOUS
  <2> HIDE DEF H
  <2>3. H = [k \in 0 .. T |-> IF k = 0 THEN neighs ELSE MoveCell(H[k - 1], T - k)]
    BY <2>1, <2>2
  <2> QED
    BY <2>3
<1> HIDE DEF H
<1>7. PICK F : F = CHOOSE G : Solves(G)
  OBVIOUS
<1>8. Spreading = F[T]
  BY <1>2, <1>7 DEF Spreading, MoveCell
<1>9. Solves(F)
  BY <1>6, <1>7
<1>10. F[0] = neighs /\ \A k \in 1 .. T : F[k] = MoveCell(F[k - 1], T - k)
  BY <1>3, <1>9
<1> HIDE DEF Solves
<1>11. \A k \in 0 .. T : F[k] = SpreadUpTo(R, k)
  <2> DEFINE P == {k \in 0 .. T : F[k] = SpreadUpTo(R, k)}
  <2>1. 0 \in P
    BY <1>3, <1>4, <1>10
  <2>2. ASSUME NEW k \in 1 .. T, k - 1 \in P PROVE k \in P
    BY <1>5, <1>10, <2>2
  <2> HIDE DEF P
  <2>3. \A k \in 0 .. T : k \in P
    BY <2>1, <2>2, UpTo
  <2> QED
    BY <2>3 DEF P
<1> QED
  BY <1>2, <1>3, <1>8, <1>11

\* Each list is the room for the inverses, then the arcs that leave n.
Mid(n) == offsets[n] + needed[n]

Roomy(d) ==
  /\ needed = Missing
  /\ IsPrefixSum(offsets, d) /\ \A n \in Vertex : d[n] \in Nat /\ needed[n] <= d[n]
  /\ neighs = [p \in 0 .. offsets[numNodes] - 1 |-> neighs[p]]
  /\ \A n \in Vertex : ArcList(neighs, Mid(n), offsets[n + 1], n)

\* After step 2 every list stands behind the room made for it.
LEMMA SpreadStep ==
  ASSUME InputOK, NEW start, NEW R, Widened(start, R), Spread, input' = input, numNodes' = numNodes
  PROVE  \E d : Roomy(d)'
<1>1. WiderLists(R)
  BY WiderFacts
<1>2. PICK d : IsPrefixSum(offsets, d) /\ \A n \in Vertex : d[n] \in Nat /\ needed[n] <= d[n]
  BY WiderFacts
<1>3. PICK T \in Nat : T = offsets[numNodes]
  BY <1>1 DEF WiderLists
<1>4. PICK cell : cell = SpreadUpTo(R, T)
  OBVIOUS
<1>5. neighs' = cell /\ offsets' = offsets /\ needed' = needed
  BY <1>3, <1>4, SpreadingIs DEF Spread
<1>6. cell = [p \in 0 .. T - 1 |-> Moved(R, p)]
  <2>1. \A p \in 0 .. T - 1 : ~(p < T - T)
    OBVIOUS
  <2> QED
    BY <1>3, <1>4, <2>1 DEF SpreadUpTo
<1>7. ASSUME NEW n \in Vertex PROVE ArcList(cell, Mid(n), offsets[n + 1], n)
  <2>1. PICK a \in Nat : a = offsets[n]
    BY <1>1 DEF WiderLists
  <2>2. PICK b \in Nat : b = offsets[n + 1]
    BY <1>1 DEF WiderLists
  <2>3. PICK k \in Nat : k = needed[n]
    BY <1>1 DEF WiderLists
  <2>4. PICK w \in Nat : w = R[n + 1]
    BY <1>1 DEF WiderLists
  <2>5. b <= T /\ w <= a + k
    BY <1>1, <1>3, <2>1, <2>2, <2>3, <2>4 DEF WiderLists
  <2>6. PICK x : x = start[n]
    OBVIOUS
  <2>7. PICK y : y = start[n + 1]
    OBVIOUS
  <2>8. x \in Nat /\ y \in Nat /\ x <= y /\ ArcList(neighs, x, y, n)
    BY <2>6, <2>7, LaidLists DEF Widened
  <2>9. a + k = x + w /\ b = y + w
    <3>1. n \in 0 .. numNodes /\ n + 1 \in 0 .. numNodes
      BY InputFacts DEF Vertex
    <3>2. offsets[n] = start[n] + R[n] /\ offsets[n + 1] = start[n + 1] + R[n + 1]
      BY <3>1 DEF Widened
    <3>3. R[n + 1] = R[n] + needed[n] /\ R[n] \in Nat
      BY <3>1 DEF Widened, IsPrefixSum
    <3> QED
      BY <2>1, <2>2, <2>3, <2>4, <2>6, <2>7, <2>8, <3>2, <3>3
  <2>10. \A p \in a + k .. b - 1 : p - w \in x .. y - 1 /\ cell[p] = neighs[p - w]
    <3> TAKE p \in a + k .. b - 1
    <3>1. p \in 0 .. T - 1 /\ p \in a .. b - 1 /\ p - w \in x .. y - 1 /\ ~(p < a + k)
      BY <2>5, <2>8, <2>9
    <3>2. ListOf(p) = n
      BY <1>1, <2>1, <2>2, <3>1 DEF WiderLists
    <3>3. Moved(R, p) = neighs[p - w]
      BY <2>1, <2>3, <2>4, <3>1, <3>2 DEF Moved
    <3>4. cell[p] = Moved(R, p)
      BY <1>6, <3>1
    <3> QED
      BY <3>1, <3>3, <3>4
  <2>11. /\ \A p \in x .. y - 1 : neighs[p] \in Vertex /\ IsArc(n, neighs[p])
         /\ \A p, q \in x .. y - 1 : p < q => neighs[p] < neighs[q]
         /\ \A m : IsArc(n, m) => \E p \in x .. y - 1 : neighs[p] = m
    BY <2>8 DEF ArcList
  <2>12. \A p \in a + k .. b - 1 : cell[p] \in Vertex /\ IsArc(n, cell[p])
    BY <2>10, <2>11
  <2>13. \A p, q \in a + k .. b - 1 : p < q => cell[p] < cell[q]
    <3> TAKE p, q \in a + k .. b - 1
    <3> HAVE p < q
    <3>1. p - w < q - w
      OBVIOUS
    <3> QED
      BY <2>10, <2>11, <3>1
  <2>14. \A m : IsArc(n, m) => \E p \in a + k .. b - 1 : cell[p] = m
    <3> TAKE m
    <3> HAVE IsArc(n, m)
    <3>1. PICK q \in x .. y - 1 : neighs[q] = m
      BY <2>11
    <3>2. q + w \in a + k .. b - 1 /\ (q + w) - w = q
      BY <2>8, <2>9
    <3>3. cell[q + w] = neighs[q]
      BY <2>10, <3>2
    <3> QED
      BY <3>1, <3>2, <3>3
  <2> QED
    BY <2>1, <2>2, <2>3, <2>12, <2>13, <2>14 DEF ArcList, Mid
<1>8. Vertex' = Vertex /\ Missing' = Missing /\ (\A u, v : IsArc(u, v)' = IsArc(u, v))
  <2>1. Vertex' = Vertex
    BY DEF Vertex
  <2>2. \A u, v : IsArc(u, v)' = IsArc(u, v)
    BY DEF IsArc
  <2>3. Missing' = Missing
    BY <2>1, <2>2 DEF Missing, Lackers
  <2> QED
    BY <2>1, <2>2, <2>3
<1>9. IsPrefixSum(offsets, d)'
  BY <1>2, <1>5, <1>8 DEF IsPrefixSum
<1>10. \A n \in Vertex : ArcList(neighs, Mid(n), offsets[n + 1], n)'
  <2> TAKE n \in Vertex
  <2>1. ArcList(neighs, Mid(n), offsets[n + 1], n)' <=> ArcList(cell, Mid(n), offsets[n + 1], n)
    BY <1>5, <1>8 DEF ArcList, Mid
  <2> QED
    BY <1>7, <2>1
<1>11. neighs' = [p \in 0 .. offsets'[numNodes'] - 1 |-> neighs'[p]]
  BY <1>3, <1>5, <1>6
<1>12. needed' = Missing'
  BY <1>5, <1>8 DEF Widened
<1>13. \A n \in Vertex' : d[n] \in Nat /\ needed'[n] <= d[n]
  BY <1>2, <1>5, <1>8
<1>14. Roomy(d)'
  BY <1>8, <1>9, <1>10, <1>11, <1>12, <1>13 DEF Roomy
<1> QED
  BY <1>14

LEMMA RoomyFacts ==
  ASSUME InputOK, NEW d, Roomy(d)
  PROVE  /\ offsets[numNodes] \in Nat
         /\ \A n \in Vertex : /\ offsets[n] \in Nat /\ offsets[n + 1] \in Nat /\ needed[n] \in Nat
                              /\ Mid(n) \in Nat /\ Mid(n) = offsets[n] + needed[n]
                              /\ Mid(n) <= offsets[n + 1] /\ offsets[n + 1] <= offsets[numNodes]
                              /\ \A p \in offsets[n] .. offsets[n + 1] - 1 : ListOf(p) = n
         /\ \A p \in 0 .. offsets[numNodes] - 1 : \E n \in Vertex : p \in offsets[n] .. offsets[n + 1] - 1
         /\ \A m, n \in Vertex : \A p \in offsets[m] .. offsets[m + 1] - 1, q \in offsets[n] .. offsets[n + 1] - 1 :
              p <= q => m <= n
<1>1. numNodes \in Nat \ {0} /\ numNodes \in 0 .. numNodes
  BY InputFacts
<1>2. IsPrefixSum(offsets, d) /\ \A n \in Vertex : d[n] \in Nat /\ needed[n] <= d[n]
  BY DEF Roomy
<1>3. \A n \in Vertex : needed[n] \in Nat
  BY MissingFacts DEF Roomy
<1>4. /\ offsets \in [0 .. numNodes -> Nat] /\ offsets[0] = 0
      /\ \A n \in Vertex : n + 1 \in 0 .. numNodes /\ offsets[n + 1] = offsets[n] + d[n]
  BY <1>2 DEF IsPrefixSum
<1>5. \A n \in Vertex : /\ offsets[n] \in Nat /\ offsets[n + 1] \in Nat /\ needed[n] \in Nat
                        /\ Mid(n) \in Nat /\ Mid(n) = offsets[n] + needed[n]
                        /\ Mid(n) <= offsets[n + 1] /\ offsets[n + 1] <= offsets[numNodes]
  <2> TAKE n \in Vertex
  <2>1. n \in 0 .. numNodes /\ n + 1 \in 0 .. numNodes /\ numNodes \in (n + 1) .. numNodes
    BY <1>1 DEF Vertex
  <2>2. offsets[n] \in Nat /\ offsets[n + 1] \in Nat /\ offsets[n + 1] = offsets[n] + d[n]
    BY <1>4, <2>1
  <2>3. d[n] \in Nat /\ needed[n] <= d[n] /\ needed[n] \in Nat
    BY <1>2, <1>3
  <2>4. offsets[n + 1] <= offsets[numNodes]
    BY <1>1, <1>2, <2>1, PrefixGrows
  <2>5. Mid(n) = offsets[n] + needed[n]
    BY DEF Mid
  <2> QED
    BY <2>2, <2>3, <2>4, <2>5
<1>6. \A n \in Vertex : \A p \in offsets[n] .. offsets[n + 1] - 1 : ListOf(p) = n
  <2> TAKE n \in Vertex
  <2> TAKE p \in offsets[n] .. offsets[n + 1] - 1
  <2>1. \A m \in Vertex : d[m] \in Nat
    BY <1>2
  <2> QED
    BY <1>1, <1>2, <2>1, ListOfIs
<1>7. \A p \in 0 .. offsets[numNodes] - 1 : \E n \in Vertex : p \in offsets[n] .. offsets[n + 1] - 1
  BY <1>1, <1>4, OwnerExists
<1>8. ASSUME NEW m \in Vertex, NEW n \in Vertex, NEW p \in offsets[m] .. offsets[m + 1] - 1,
             NEW q \in offsets[n] .. offsets[n + 1] - 1, p <= q
      PROVE  m <= n
  <2> SUFFICES ASSUME n < m PROVE FALSE
    BY DEF Vertex
  <2>1. n + 1 \in 0 .. numNodes /\ m \in (n + 1) .. numNodes
    BY <1>1 DEF Vertex
  <2>2. offsets[n + 1] <= offsets[m] /\ offsets[n + 1] \in Nat /\ offsets[m] \in Nat
    BY <1>1, <1>2, <2>1, PrefixGrows
  <2>3. offsets[n] \in Nat /\ offsets[m + 1] \in Nat
    BY <1>5
  <2> QED
    BY <1>8, <2>2, <2>3
<1> QED
  BY <1>1, <1>4, <1>5, <1>6, <1>7, <1>8

\* The vertices whose inverse in the list of v the first k cells have asked for.
Asked(k, v) ==
  {u \in Vertex : /\ ~IsArc(v, u)
                  /\ \E p \in Mid(u) .. offsets[u + 1] - 1 : p < k /\ neighs[p] = v}

\* Asked are the vertices whose inverse arc the first k cells have asked for.
LEMMA AskedFacts ==
  ASSUME InputOK, NEW d, Roomy(d), NEW k \in Nat, NEW v \in Vertex
  PROVE  /\ Asked(k, v) \subseteq Lackers(v) /\ IsFiniteSet(Asked(k, v))
         /\ Cardinality(Asked(k, v)) \in Nat /\ Cardinality(Asked(k, v)) <= needed[v]
         /\ \A u \in Lackers(v) : u \notin Asked(k, v) => Cardinality(Asked(k, v)) < needed[v]
<1>1. PICK S : S = Asked(k, v)
  OBVIOUS
<1>2. PICK L : L = Lackers(v)
  OBVIOUS
<1>3. S \subseteq L
  <2> SUFFICES ASSUME NEW u \in S PROVE u \in L
    OBVIOUS
  <2>1. u \in Vertex /\ ~IsArc(v, u) /\ \E p \in Mid(u) .. offsets[u + 1] - 1 : neighs[p] = v
    BY <1>1 DEF Asked
  <2>2. ArcList(neighs, Mid(u), offsets[u + 1], u)
    BY <2>1 DEF Roomy
  <2>3. IsArc(u, v)
    BY <2>1, <2>2 DEF ArcList
  <2> QED
    BY <1>2, <2>1, <2>3 DEF Lackers
<1>4. IsFiniteSet(L) /\ needed[v] = Cardinality(L)
  BY <1>2, MissingFacts DEF Roomy
<1>5. IsFiniteSet(S) /\ Cardinality(S) \in Nat /\ Cardinality(S) <= Cardinality(L)
  BY <1>3, <1>4, FS_Subset, FS_CardinalityType
<1>6. ASSUME NEW u \in L, u \notin S PROVE Cardinality(S) < Cardinality(L)
  <2>1. S # L
    BY <1>6
  <2>2. Cardinality(S) # Cardinality(L)
    BY <1>3, <1>4, <2>1, FS_Subset
  <2>3. Cardinality(L) \in Nat
    BY <1>4, FS_CardinalityType
  <2> QED
    BY <1>5, <2>2, <2>3
<1> QED
  BY <1>1, <1>2, <1>3, <1>4, <1>5, <1>6

\* One cell, p, of the list of u is looked at.
LEMMA AskedGrows ==
  ASSUME InputOK, NEW d, Roomy(d), NEW p \in Nat, NEW u \in Vertex, p \in offsets[u] .. offsets[u + 1] - 1
  PROVE  /\ p < Mid(u) => \A v : Asked(p + 1, v) = Asked(p, v)
         /\ p >= Mid(u) /\ IsArc(neighs[p], u) => \A v : Asked(p + 1, v) = Asked(p, v)
         /\ p >= Mid(u) /\ ~IsArc(neighs[p], u) =>
              /\ \A v : v # neighs[p] => Asked(p + 1, v) = Asked(p, v)
              /\ Asked(p + 1, neighs[p]) = Asked(p, neighs[p]) \cup {u}
              /\ u \notin Asked(p, neighs[p])
         /\ \A v : \A w \in Asked(p, v) :
              /\ w \in Vertex /\ ~IsArc(v, w) /\ w <= u
              /\ w = u => \E q \in Mid(u) .. offsets[u + 1] - 1 : q < p /\ neighs[q] = v
<1>1. \A n \in Vertex : offsets[n] \in Nat /\ offsets[n + 1] \in Nat /\ Mid(n) \in Nat /\ offsets[n] <= Mid(n)
                        /\ Mid(n) <= offsets[n + 1]
  <2> TAKE n \in Vertex
  <2>1. offsets[n] \in Nat /\ offsets[n + 1] \in Nat /\ needed[n] \in Nat
        /\ Mid(n) = offsets[n] + needed[n] /\ Mid(n) <= offsets[n + 1]
    BY RoomyFacts
  <2> QED
    BY <2>1
<1>2. \A w \in Vertex : \A q \in Mid(w) .. offsets[w + 1] - 1 : q \in offsets[w] .. offsets[w + 1] - 1 /\ q \in Nat
  BY <1>1
<1>3. \A w \in Vertex : \A q \in Mid(w) .. offsets[w + 1] - 1 : (q = p => w = u) /\ (q <= p => w <= u)
  <2> TAKE w \in Vertex
  <2> TAKE q \in Mid(w) .. offsets[w + 1] - 1
  <2>1. q \in offsets[w] .. offsets[w + 1] - 1
    BY <1>2
  <2>2. q <= p => w <= u
    BY <2>1, RoomyFacts
  <2>3. p <= q => u <= w
    BY <2>1, RoomyFacts
  <2>4. u \in Int /\ w \in Int /\ q \in Int
    BY <1>2 DEF Vertex
  <2> QED
    BY <2>2, <2>3, <2>4
<1>4. \A v, w : w \in Asked(p + 1, v) <=> \/ w \in Asked(p, v)
                                          \/ w = u /\ ~IsArc(v, u) /\ p >= Mid(u) /\ neighs[p] = v
  <2> TAKE v, w
  <2>1. ASSUME w \in Asked(p, v) PROVE w \in Asked(p + 1, v)
    <3>1. w \in Vertex /\ ~IsArc(v, w)
      BY <2>1 DEF Asked
    <3>2. PICK q \in Mid(w) .. offsets[w + 1] - 1 : q < p /\ neighs[q] = v
      BY <2>1 DEF Asked
    <3>3. q < p + 1
      BY <1>2, <3>1, <3>2
    <3> QED
      BY <3>1, <3>2, <3>3 DEF Asked
  <2>2. ASSUME w = u, ~IsArc(v, u), p >= Mid(u), neighs[p] = v PROVE w \in Asked(p + 1, v)
    <3>1. p \in Mid(u) .. offsets[u + 1] - 1 /\ p < p + 1
      BY <1>1, <2>2
    <3> QED
      BY <2>2, <3>1 DEF Asked
  <2>3. ASSUME w \in Asked(p + 1, v), w \notin Asked(p, v)
        PROVE  w = u /\ ~IsArc(v, u) /\ p >= Mid(u) /\ neighs[p] = v
    <3>1. w \in Vertex /\ ~IsArc(v, w)
      BY <2>3 DEF Asked
    <3>2. PICK q \in Mid(w) .. offsets[w + 1] - 1 : q < p + 1 /\ neighs[q] = v
      BY <2>3 DEF Asked
    <3>3. ~(q < p)
      BY <2>3, <3>1, <3>2 DEF Asked
    <3>4. q = p
      BY <1>2, <3>1, <3>2, <3>3
    <3>5. w = u
      BY <1>3, <3>1, <3>2, <3>4
    <3>6. p >= Mid(u)
      BY <1>1, <3>2, <3>4, <3>5
    <3> QED
      BY <3>1, <3>2, <3>4, <3>5, <3>6
  <2> QED
    BY <2>1, <2>2, <2>3
<1>5. p < Mid(u) => \A v : Asked(p + 1, v) = Asked(p, v)
  <2> HAVE p < Mid(u)
  <2> TAKE v
  <2>1. ~(p >= Mid(u))
    BY <1>1
  <2>2. \A w : w \in Asked(p + 1, v) <=> w \in Asked(p, v)
    BY <1>4, <2>1
  <2> QED
    BY <2>2
<1>6. p >= Mid(u) /\ IsArc(neighs[p], u) => \A v : Asked(p + 1, v) = Asked(p, v)
  <2> HAVE p >= Mid(u) /\ IsArc(neighs[p], u)
  <2> TAKE v
  <2>1. \A w : w \in Asked(p + 1, v) <=> w \in Asked(p, v)
    BY <1>4
  <2> QED
    BY <2>1
<1>7. \A v : \A w \in Asked(p, v) :
              /\ w \in Vertex /\ ~IsArc(v, w) /\ w <= u
              /\ w = u => \E q \in Mid(u) .. offsets[u + 1] - 1 : q < p /\ neighs[q] = v
  <2> TAKE v
  <2> TAKE w \in Asked(p, v)
  <2>1. w \in Vertex /\ ~IsArc(v, w)
    BY DEF Asked
  <2>2. PICK q \in Mid(w) .. offsets[w + 1] - 1 : q < p /\ neighs[q] = v
    BY DEF Asked
  <2>3. q <= p
    BY <1>2, <2>1, <2>2
  <2>4. w <= u
    BY <1>3, <2>1, <2>3
  <2> QED
    BY <2>1, <2>2, <2>4
<1>8. ASSUME p >= Mid(u), ~IsArc(neighs[p], u)
      PROVE  /\ \A v : v # neighs[p] => Asked(p + 1, v) = Asked(p, v)
             /\ Asked(p + 1, neighs[p]) = Asked(p, neighs[p]) \cup {u}
             /\ u \notin Asked(p, neighs[p])
  <2>1. \A v : v # neighs[p] => Asked(p + 1, v) = Asked(p, v)
    BY <1>4
  <2>2. Asked(p + 1, neighs[p]) = Asked(p, neighs[p]) \cup {u}
    BY <1>4, <1>8
  <2>3. u \notin Asked(p, neighs[p])
    <3> SUFFICES ASSUME u \in Asked(p, neighs[p]) PROVE FALSE
      OBVIOUS
    <3>1. PICK q \in Mid(u) .. offsets[u + 1] - 1 : q < p /\ neighs[q] = neighs[p]
      BY <1>7
    <3>2. p \in Mid(u) .. offsets[u + 1] - 1
      BY <1>1, <1>8
    <3>3. ArcList(neighs, Mid(u), offsets[u + 1], u)
      BY DEF Roomy
    <3>4. neighs[q] < neighs[p] /\ neighs[p] \in Int
      BY <3>1, <3>2, <3>3 DEF ArcList, Vertex
    <3> QED
      BY <3>1, <3>4
  <2> QED
    BY <2>1, <2>2, <2>3
<1> QED
  BY <1>5, <1>6, <1>7, <1>8

\* The list of v when k cells have been looked at and room places are left.
AddedTo(k, v, cell, room) ==
  /\ room \in Nat /\ room + Cardinality(Asked(k, v)) = needed[v]
  /\ \A p \in Mid(v) .. offsets[v + 1] - 1 : cell[p] = neighs[p]
  /\ \A p \in offsets[v] + room .. Mid(v) - 1 : cell[p] \in Asked(k, v)
  /\ \A u \in Asked(k, v) : \E p \in offsets[v] + room .. Mid(v) - 1 : cell[p] = u
  /\ \A p, q \in offsets[v] + room .. offsets[v + 1] - 1 : p # q => cell[p] # cell[q]

\* The search in it is right, though its head is not sorted.
LEMMA SearchAdded ==
  ASSUME InputOK, NEW d, Roomy(d), NEW k \in Nat, NEW v \in Vertex, NEW u \in Vertex,
         NEW cell, NEW room, AddedTo(k, v, cell, room), \A w \in Asked(k, v) : w < u
  PROVE  BinarySearch(cell, offsets[v] + room, offsets[v + 1], u) <=> IsArc(v, u)
<1>1. PICK a \in Nat : a = offsets[v]
  BY RoomyFacts
<1>2. PICK b \in Nat : b = offsets[v + 1]
  BY RoomyFacts
<1>3. PICK c \in Nat : c = Mid(v)
  BY RoomyFacts
<1>4. c = a + needed[v] /\ needed[v] \in Nat /\ c <= b
  BY <1>1, <1>2, <1>3, RoomyFacts
<1>5. /\ room \in Nat /\ room + Cardinality(Asked(k, v)) = needed[v]
      /\ \A p \in c .. b - 1 : cell[p] = neighs[p]
      /\ \A p \in a + room .. c - 1 : cell[p] \in Asked(k, v)
  BY <1>1, <1>2, <1>3 DEF AddedTo
<1>6. Cardinality(Asked(k, v)) \in Nat
  BY AskedFacts
<1>7. a + room \in Nat /\ a + room <= c
  BY <1>4, <1>5, <1>6
<1>8. ArcList(neighs, c, b, v)
  BY <1>2, <1>3 DEF Roomy
<1>9. /\ \A p \in c .. b - 1 : neighs[p] \in Vertex /\ IsArc(v, neighs[p])
      /\ \A p, q \in c .. b - 1 : p < q => neighs[p] < neighs[q]
      /\ \A m : IsArc(v, m) => \E p \in c .. b - 1 : neighs[p] = m
  BY <1>8 DEF ArcList
<1>10. \A n \in Vertex : n \in Int
  BY DEF Vertex
<1>11. \A p \in a + room .. c - 1 : cell[p] \in Int /\ cell[p] < u
  BY <1>5, <1>10 DEF Asked
<1>12. \A p \in c .. b - 1 : cell[p] \in Int
  BY <1>5, <1>9, <1>10
<1>13. \A p, q \in c .. b - 1 : p < q => cell[p] < cell[q]
  BY <1>5, <1>9
<1>14. Searchable(cell, a + room, c, b, u)
  BY <1>4, <1>7, <1>10, <1>11, <1>12, <1>13 DEF Searchable
<1>15. BinarySearch(cell, a + room, b, u) <=> \E p \in c .. b - 1 : cell[p] = u
  BY ONLY <1>14, SearchList
<1>16. (\E p \in c .. b - 1 : cell[p] = u) <=> IsArc(v, u)
  BY <1>5, <1>9
<1> QED
  BY <1>1, <1>2, <1>15, <1>16

\* An inverse is added to the list of v.
LEMMA AddOne ==
  ASSUME InputOK, NEW d, Roomy(d), NEW k \in Nat, NEW v \in Vertex, NEW u \in Lackers(v), u \notin Asked(k, v),
         Asked(k + 1, v) = Asked(k, v) \cup {u},
         NEW D, NEW cell \in [0 .. offsets[numNodes] - 1 -> D], u \in D, NEW room, AddedTo(k, v, cell, room)
  PROVE  /\ offsets[v] + room - 1 \in 0 .. offsets[numNodes] - 1
         /\ offsets[v] + room - 1 \in offsets[v] .. offsets[v + 1] - 1
         /\ AddedTo(k + 1, v, [cell EXCEPT ![offsets[v] + room - 1] = u], room - 1)
<1>1. PICK a \in Nat : a = offsets[v]
  BY RoomyFacts
<1>2. PICK b \in Nat : b = offsets[v + 1]
  BY RoomyFacts
<1>3. PICK c \in Nat : c = Mid(v)
  BY RoomyFacts
<1>4. PICK T \in Nat : T = offsets[numNodes]
  BY RoomyFacts
<1>5. PICK l \in Nat : l = needed[v]
  BY RoomyFacts
<1>6. c = a + l /\ c <= b /\ b <= T
  BY <1>1, <1>2, <1>3, <1>4, <1>5, RoomyFacts
<1>7. PICK A : A = Asked(k, v)
  OBVIOUS
<1>8. PICK s : s = Cardinality(A)
  OBVIOUS
<1>9. /\ room \in Nat /\ room + s = l
      /\ \A p \in c .. b - 1 : cell[p] = neighs[p]
      /\ \A p \in a + room .. c - 1 : cell[p] \in A
      /\ \A w \in A : \E p \in a + room .. c - 1 : cell[p] = w
      /\ \A p, q \in a + room .. b - 1 : p # q => cell[p] # cell[q]
  BY <1>1, <1>2, <1>3, <1>5, <1>7, <1>8 DEF AddedTo
<1>10. s \in Nat /\ s < l /\ IsFiniteSet(A) /\ u \notin A
  BY <1>5, <1>7, <1>8, AskedFacts
<1>11. Cardinality(A \cup {u}) = s + 1
  BY <1>8, <1>10, FS_AddElement
<1>12. PICK x : x = a + room - 1
  OBVIOUS
<1>13. PICK r : r = room - 1
  OBVIOUS
<1>14. x \in a .. c - 1 /\ x \in 0 .. T - 1 /\ x \in a .. b - 1 /\ x = a + r /\ r \in Nat /\ x + 1 = a + room
       /\ r + (s + 1) = l
  BY <1>6, <1>9, <1>10, <1>12, <1>13
<1>15. PICK e : e = [cell EXCEPT ![x] = u]
  OBVIOUS
<1>16. e[x] = u /\ \A p \in 0 .. T - 1 : p # x => e[p] = cell[p]
  BY <1>4, <1>14, <1>15
<1>17. \A p \in x + 1 .. b - 1 : p \in 0 .. T - 1 /\ p # x /\ e[p] = cell[p]
  <2> TAKE p \in x + 1 .. b - 1
  <2>1. p \in 0 .. T - 1 /\ p # x
    BY <1>6, <1>14
  <2> QED
    BY <1>16, <2>1
<1>18. \A p \in c .. b - 1 : e[p] = neighs[p]
  <2> TAKE p \in c .. b - 1
  <2>1. p \in x + 1 .. b - 1
    BY <1>14
  <2> QED
    BY <1>9, <1>17, <2>1
<1>19. \A p \in x .. c - 1 : e[p] \in A \cup {u}
  <2> TAKE p \in x .. c - 1
  <2>1. CASE p = x
    BY <1>16, <2>1
  <2>2. CASE p # x
    <3>1. p \in x + 1 .. b - 1 /\ p \in a + room .. c - 1
      BY <1>6, <1>14, <2>2
    <3> QED
      BY <1>9, <1>17, <3>1
  <2> QED
    BY <2>1, <2>2
<1>20. \A w \in A \cup {u} : \E p \in x .. c - 1 : e[p] = w
  <2> TAKE w \in A \cup {u}
  <2>1. CASE w = u
    <3>1. x \in x .. c - 1
      BY <1>14
    <3> QED
      BY <1>16, <2>1, <3>1
  <2>2. CASE w \in A
    <3>1. PICK p \in a + room .. c - 1 : cell[p] = w
      BY <1>9, <2>2
    <3>2. p \in x .. c - 1 /\ p \in x + 1 .. b - 1
      BY <1>6, <1>14
    <3> QED
      BY <1>17, <3>1, <3>2
  <2> QED
    BY <2>1, <2>2
<1>21. \A p \in x + 1 .. b - 1 : cell[p] # u
  <2> TAKE p \in x + 1 .. b - 1
  <2>1. CASE p < c
    <3>1. p \in a + room .. c - 1
      BY <1>14, <2>1
    <3> QED
      BY <1>9, <1>10, <3>1
  <2>2. CASE ~(p < c)
    <3>1. p \in c .. b - 1
      BY <2>2
    <3>2. ArcList(neighs, c, b, v)
      BY <1>2, <1>3 DEF Roomy
    <3>3. IsArc(v, neighs[p])
      BY <3>1, <3>2 DEF ArcList
    <3>4. ~IsArc(v, u)
      BY DEF Lackers
    <3> QED
      BY <1>9, <3>1, <3>3, <3>4
  <2> QED
    BY <2>1, <2>2
<1>22. \A p, q \in x .. b - 1 : p # q => e[p] # e[q]
  <2> TAKE p, q \in x .. b - 1
  <2> HAVE p # q
  <2>1. \A y \in x .. b - 1 : y = x \/ y \in x + 1 .. b - 1
    BY <1>14
  <2>2. CASE p = x
    BY <1>16, <1>17, <1>21, <2>1, <2>2
  <2>3. CASE q = x
    BY <1>16, <1>17, <1>21, <2>1, <2>3
  <2>4. CASE p # x /\ q # x
    <3>1. p \in x + 1 .. b - 1 /\ q \in x + 1 .. b - 1
      BY <2>1, <2>4
    <3>2. p \in a + room .. b - 1 /\ q \in a + room .. b - 1
      BY <1>14, <3>1
    <3> QED
      BY <1>9, <1>17, <3>1, <3>2
  <2> QED
    BY <2>2, <2>3, <2>4
<1>23. AddedTo(k + 1, v, e, r)
  BY <1>1, <1>2, <1>3, <1>5, <1>7, <1>11, <1>14, <1>18, <1>19, <1>20, <1>22 DEF AddedTo
<1> QED
  BY <1>1, <1>2, <1>4, <1>12, <1>13, <1>14, <1>15, <1>23

\* The other lists stay.
LEMMA AddElsewhere ==
  ASSUME InputOK, NEW d, Roomy(d), NEW k \in Nat, NEW v \in Vertex, NEW n \in Vertex, n # v,
         NEW D, NEW cell \in [0 .. offsets[numNodes] - 1 -> D],
         NEW x \in offsets[v] .. offsets[v + 1] - 1, NEW u, NEW room, AddedTo(k, n, cell, room)
  PROVE  AddedTo(k, n, [cell EXCEPT ![x] = u], room)
<1>1. PICK a \in Nat : a = offsets[n]
  BY RoomyFacts
<1>2. PICK b \in Nat : b = offsets[n + 1]
  BY RoomyFacts
<1>3. PICK c \in Nat : c = Mid(n)
  BY RoomyFacts
<1>4. PICK T \in Nat : T = offsets[numNodes]
  BY RoomyFacts
<1>5. a <= c /\ c <= b /\ b <= T
  <2>1. needed[n] \in Nat /\ c = a + needed[n] /\ c <= b /\ b <= T
    BY <1>1, <1>2, <1>3, <1>4, RoomyFacts
  <2> QED
    BY <2>1
<1>6. \A p \in a .. b - 1 : p # x
  <2> SUFFICES ASSUME NEW p \in a .. b - 1, p = x PROVE FALSE
    OBVIOUS
  <2>1. p \in offsets[n] .. offsets[n + 1] - 1 /\ p \in offsets[v] .. offsets[v + 1] - 1
    BY <1>1, <1>2
  <2>2. ListOf(p) = n /\ ListOf(p) = v
    BY <2>1, RoomyFacts
  <2> QED
    BY <2>2
<1>7. PICK e : e = [cell EXCEPT ![x] = u]
  OBVIOUS
<1>8. \A p \in a .. b - 1 : e[p] = cell[p]
  <2> TAKE p \in a .. b - 1
  <2>1. p \in 0 .. T - 1 /\ p # x
    BY <1>5, <1>6
  <2> QED
    BY <1>4, <1>7, <2>1
<1>9. room \in Nat
  BY DEF AddedTo
<1>10. /\ \A p \in c .. b - 1 : e[p] = cell[p]
       /\ \A p \in a + room .. c - 1 : e[p] = cell[p]
       /\ \A p \in a + room .. b - 1 : e[p] = cell[p]
  BY <1>5, <1>8, <1>9
<1>11. /\ room + Cardinality(Asked(k, n)) = needed[n]
       /\ \A p \in c .. b - 1 : cell[p] = neighs[p]
       /\ \A p \in a + room .. c - 1 : cell[p] \in Asked(k, n)
       /\ \A w \in Asked(k, n) : \E p \in a + room .. c - 1 : cell[p] = w
       /\ \A p, q \in a + room .. b - 1 : p # q => cell[p] # cell[q]
  BY <1>1, <1>2, <1>3 DEF AddedTo
<1>12. /\ \A p \in c .. b - 1 : e[p] = neighs[p]
       /\ \A p \in a + room .. c - 1 : e[p] \in Asked(k, n)
       /\ \A w \in Asked(k, n) : \E p \in a + room .. c - 1 : e[p] = w
       /\ \A p, q \in a + room .. b - 1 : p # q => e[p] # e[q]
  <2>1. \A p \in c .. b - 1 : e[p] = neighs[p]
    BY ONLY <1>10, <1>11
  <2>2. \A p \in a + room .. c - 1 : e[p] \in Asked(k, n)
    BY ONLY <1>10, <1>11
  <2>3. \A w \in Asked(k, n) : \E p \in a + room .. c - 1 : e[p] = w
    BY ONLY <1>10, <1>11
  <2>4. \A p, q \in a + room .. b - 1 : p # q => e[p] # e[q]
    BY ONLY <1>10, <1>11
  <2> QED
    BY <2>1, <2>2, <2>3, <2>4
<1>13. AddedTo(k, n, e, room)
  BY ONLY <1>1, <1>2, <1>3, <1>9, <1>11, <1>12 DEF AddedTo
<1> QED
  BY <1>7, <1>13

Contents == Vertex \cup {neighs[p] : p \in 0 .. offsets[numNodes] - 1}

AddStates(k) ==
  {m \in [cell : [0 .. offsets[numNodes] - 1 -> Contents], room : [Vertex -> Nat]] :
     \A v \in Vertex : AddedTo(k, v, m.cell, m.room[v])}

AddArc(m, cell, room, u, v, p) ==
  IF p < offsets[u] + room[u] \/ BinarySearch(cell, offsets[v] + room[v], offsets[v + 1], u) THEN m
  ELSE [cell |-> [cell EXCEPT ![(offsets[v] + room[v]) - 1] = u], room |-> [room EXCEPT ![v] = @ - 1]]

AddCell(m, p) == AddArc(m, m.cell, m.room, ListOf(p), m.cell[p], p)

LEMMA AddedSame ==
  ASSUME NEW k, NEW j, NEW v, NEW cell, NEW room, AddedTo(k, v, cell, room), Asked(j, v) = Asked(k, v)
  PROVE  AddedTo(j, v, cell, room)
BY DEF AddedTo

\* One round of the loop that adds the inverses.
LEMMA AddRound ==
  ASSUME InputOK, NEW d, Roomy(d), NEW p \in 0 .. offsets[numNodes] - 1, NEW m \in AddStates(p)
  PROVE  AddCell(m, p) \in AddStates(p + 1)
<1>1. PICK T \in Nat : T = offsets[numNodes]
  BY RoomyFacts
<1>2. PICK cell : cell = m.cell
  OBVIOUS
<1>3. PICK room : room = m.room
  OBVIOUS
<1>4. /\ cell \in [0 .. T - 1 -> Contents] /\ room \in [Vertex -> Nat]
      /\ \A v \in Vertex : AddedTo(p, v, cell, room[v])
      /\ m \in [cell : [0 .. T - 1 -> Contents], room : [Vertex -> Nat]]
  BY <1>1, <1>2, <1>3 DEF AddStates
<1>5. p \in Nat /\ p \in 0 .. T - 1
  BY <1>1
<1>6. PICK u \in Vertex : p \in offsets[u] .. offsets[u + 1] - 1
  BY <1>1, <1>5, RoomyFacts
<1>7. ListOf(p) = u
  BY <1>6, RoomyFacts
<1>8. PICK a \in Nat : a = offsets[u]
  BY RoomyFacts
<1>9. PICK b \in Nat : b = offsets[u + 1]
  BY RoomyFacts
<1>10. PICK c \in Nat : c = Mid(u)
  BY RoomyFacts
<1>11. PICK r \in Nat : r = room[u]
  BY <1>4
<1>12. c = a + needed[u] /\ c <= b /\ needed[u] \in Nat /\ r <= needed[u] /\ a + r <= c
  <2>1. c = a + needed[u] /\ c <= b /\ needed[u] \in Nat
    BY <1>8, <1>9, <1>10, RoomyFacts
  <2>2. r + Cardinality(Asked(p, u)) = needed[u]
    BY <1>4, <1>11 DEF AddedTo
  <2>3. Cardinality(Asked(p, u)) \in Nat
    BY <1>5, AskedFacts
  <2> QED
    BY <2>1, <2>2, <2>3
<1>13. PICK v : v = cell[p]
  OBVIOUS
<1>14. /\ p < c => \A w : Asked(p + 1, w) = Asked(p, w)
       /\ p >= c /\ IsArc(neighs[p], u) => \A w : Asked(p + 1, w) = Asked(p, w)
       /\ p >= c /\ ~IsArc(neighs[p], u) =>
            /\ \A w : w # neighs[p] => Asked(p + 1, w) = Asked(p, w)
            /\ Asked(p + 1, neighs[p]) = Asked(p, neighs[p]) \cup {u}
            /\ u \notin Asked(p, neighs[p])
       /\ \A x : \A w \in Asked(p, x) :
            /\ w \in Vertex /\ ~IsArc(x, w) /\ w <= u
            /\ w = u => \E q \in c .. b - 1 : q < p /\ neighs[q] = x
  BY <1>5, <1>6, <1>9, <1>10, AskedGrows
<1>15. ASSUME AddCell(m, p) = m, \A w : Asked(p + 1, w) = Asked(p, w)
       PROVE  AddCell(m, p) \in AddStates(p + 1)
  <2>1. \A w \in Vertex : AddedTo(p + 1, w, cell, room[w])
    <3> TAKE w \in Vertex
    <3>1. AddedTo(p, w, cell, room[w]) /\ Asked(p + 1, w) = Asked(p, w)
      BY <1>4, <1>15
    <3> QED
      BY <3>1, AddedSame
  <2>2. m \in AddStates(p + 1)
    BY <1>1, <1>2, <1>3, <1>4, <2>1 DEF AddStates
  <2> QED
    BY <1>15, <2>2
<1>16. CASE p < a + r
  <2>1. AddCell(m, p) = m
    BY <1>3, <1>7, <1>8, <1>11, <1>16 DEF AddCell, AddArc
  <2>2. p < c
    BY <1>5, <1>12, <1>16
  <2> QED
    BY <1>14, <1>15, <2>1, <2>2
<1>17. ASSUME v \in Vertex, ~(p < a + r)
       PROVE  /\ IsArc(v, u) /\ (\A w \in Asked(p, v) : w < u) => AddCell(m, p) = m
              /\ ~IsArc(v, u) /\ (\A w \in Asked(p, v) : w < u) =>
                   AddCell(m, p) = [cell |-> [cell EXCEPT ![(offsets[v] + room[v]) - 1] = u],
                                    room |-> [room EXCEPT ![v] = @ - 1]]
  <2>1. PICK f : f = BinarySearch(cell, offsets[v] + room[v], offsets[v + 1], u)
    OBVIOUS
  <2>2. (\A w \in Asked(p, v) : w < u) => (f <=> IsArc(v, u))
    <3> HAVE \A w \in Asked(p, v) : w < u
    <3>1. AddedTo(p, v, cell, room[v])
      BY <1>4, <1>17
    <3>2. PICK x : x = room[v]
      OBVIOUS
    <3>3. BinarySearch(cell, offsets[v] + x, offsets[v + 1], u) <=> IsArc(v, u)
      BY <1>5, <1>17, <3>1, <3>2, SearchAdded
    <3> QED
      BY <2>1, <3>2, <3>3
  <2>3. AddCell(m, p) = IF f THEN m ELSE [cell |-> [cell EXCEPT ![(offsets[v] + room[v]) - 1] = u],
                                          room |-> [room EXCEPT ![v] = @ - 1]]
    <3>1. PICK z : z = [cell |-> [cell EXCEPT ![(offsets[v] + room[v]) - 1] = u],
                        room |-> [room EXCEPT ![v] = @ - 1]]
      OBVIOUS
    <3>2. PICK e : e = IF p < offsets[u] + room[u] \/ BinarySearch(cell, offsets[v] + room[v], offsets[v + 1], u)
                       THEN m
                       ELSE [cell |-> [cell EXCEPT ![(offsets[v] + room[v]) - 1] = u],
                             room |-> [room EXCEPT ![v] = @ - 1]]
      OBVIOUS
    <3>3. AddCell(m, p) = e
      <4>1. AddCell(m, p) = AddArc(m, cell, room, u, v, p)
        BY <1>2, <1>3, <1>7, <1>13 DEF AddCell
      <4> QED
        BY <3>2, <4>1 DEF AddArc
    <3>4. e = IF p < a + r \/ f THEN m ELSE z
      BY <1>8, <1>11, <2>1, <3>1, <3>2
    <3> QED
      BY <1>17, <3>1, <3>3, <3>4
  <2> QED
    BY <2>2, <2>3
<1>18. CASE ~(p < a + r) /\ p < c
  <2>1. p \in a + r .. c - 1
    BY <1>5, <1>12, <1>18
  <2>2. v \in Asked(p, u)
    BY <1>4, <1>8, <1>10, <1>11, <1>13, <2>1 DEF AddedTo
  <2>3. v \in Vertex /\ IsArc(v, u) /\ ~IsArc(u, v)
    <3>1. Asked(p, u) \subseteq Lackers(u)
      BY <1>5, AskedFacts
    <3> QED
      BY <2>2, <3>1 DEF Lackers
  <2>4. \A w \in Asked(p, v) : w < u
    <3> TAKE w \in Asked(p, v)
    <3>1. w \in Vertex /\ w <= u /\ (w = u => \E q \in c .. b - 1 : q < p /\ neighs[q] = v)
      BY <1>14
    <3>2. w # u
      <4> SUFFICES ASSUME w = u PROVE FALSE
        OBVIOUS
      <4>1. PICK q \in c .. b - 1 : neighs[q] = v
        BY <3>1
      <4>2. ArcList(neighs, c, b, u)
        BY <1>9, <1>10 DEF Roomy
      <4>3. IsArc(u, v)
        BY <4>1, <4>2 DEF ArcList
      <4> QED
        BY <2>3, <4>3
    <3> QED
      BY <3>1, <3>2 DEF Vertex
  <2>5. AddCell(m, p) = m
    BY <1>17, <1>18, <2>3, <2>4
  <2> QED
    BY <1>14, <1>15, <1>18, <2>5
<1>19. CASE p >= c
  <2>1. ~(p < a + r) /\ p \in c .. b - 1
    BY <1>5, <1>6, <1>9, <1>12, <1>19
  <2>2. v = neighs[p]
    BY <1>4, <1>9, <1>10, <1>13, <2>1 DEF AddedTo
  <2>3. ArcList(neighs, c, b, u)
    BY <1>9, <1>10 DEF Roomy
  <2>4. v \in Vertex /\ IsArc(u, v)
    BY <2>1, <2>2, <2>3 DEF ArcList
  <2>5. \A w \in Asked(p, v) : w < u
    <3> TAKE w \in Asked(p, v)
    <3>1. w \in Vertex /\ w <= u /\ (w = u => \E q \in c .. b - 1 : q < p /\ neighs[q] = v)
      BY <1>14
    <3>2. w # u
      <4> SUFFICES ASSUME w = u PROVE FALSE
        OBVIOUS
      <4>1. PICK q \in c .. b - 1 : q < p /\ neighs[q] = v
        BY <3>1
      <4>2. neighs[q] < neighs[p] /\ neighs[p] \in Int
        BY <2>1, <2>3, <4>1 DEF ArcList, Vertex
      <4> QED
        BY <2>2, <4>1, <4>2
    <3> QED
      BY <3>1, <3>2 DEF Vertex
  <2>6. CASE IsArc(v, u)
    <3>1. AddCell(m, p) = m
      BY <1>17, <2>1, <2>4, <2>5, <2>6
    <3> QED
      BY <1>14, <1>15, <1>19, <2>2, <2>6, <3>1
  <2>7. CASE ~IsArc(v, u)
    <3>1. PICK x : x = (offsets[v] + room[v]) - 1
      OBVIOUS
    <3>2. PICK cell2 : cell2 = [cell EXCEPT ![x] = u]
      OBVIOUS
    <3>3. PICK room2 : room2 = [room EXCEPT ![v] = @ - 1]
      OBVIOUS
    <3>4. AddCell(m, p) = [cell |-> cell2, room |-> room2]
      BY <1>17, <2>1, <2>4, <2>5, <2>7, <3>1, <3>2, <3>3
    <3>5. /\ \A w : w # v => Asked(p + 1, w) = Asked(p, w)
          /\ Asked(p + 1, v) = Asked(p, v) \cup {u}
          /\ u \notin Asked(p, v)
      BY <1>14, <1>19, <2>2, <2>7
    <3>6. u \in Lackers(v) /\ u \in Contents
      BY <2>4, <2>7 DEF Lackers, Contents
    <3>7. PICK y : y = room[v]
      OBVIOUS
    <3>8. AddedTo(p, v, cell, y)
      BY <1>4, <2>4, <3>7
    <3>9. cell \in [0 .. offsets[numNodes] - 1 -> Contents]
      BY <1>1, <1>4
    <3>10. /\ offsets[v] + y - 1 \in 0 .. offsets[numNodes] - 1
           /\ offsets[v] + y - 1 \in offsets[v] .. offsets[v + 1] - 1
           /\ AddedTo(p + 1, v, [cell EXCEPT ![offsets[v] + y - 1] = u], y - 1)
      BY <1>5, <2>4, <3>5, <3>6, <3>8, <3>9, AddOne
    <3>11. /\ x \in 0 .. T - 1 /\ x \in offsets[v] .. offsets[v + 1] - 1
           /\ AddedTo(p + 1, v, cell2, y - 1)
      <4>1. offsets[v] \in Int /\ y \in Int
        BY <1>4, <1>5, <2>4, <3>7, RoomyFacts
      <4>2. (offsets[v] + y) - 1 = offsets[v] + y - 1
        BY <4>1
      <4> QED
        BY <1>1, <3>1, <3>2, <3>7, <3>10, <4>2
    <3>12. y - 1 \in Nat
      BY <3>11 DEF AddedTo
    <3>13. room2[v] = y - 1 /\ \A w \in Vertex : w # v => room2[w] = room[w]
      BY <1>4, <2>4, <3>3, <3>7
    <3>14. room2 \in [Vertex -> Nat]
      BY <1>4, <2>4, <3>3, <3>7, <3>12
    <3>15. cell2 \in [0 .. T - 1 -> Contents]
      BY <1>4, <3>2, <3>6, <3>11
    <3>16. \A w \in Vertex : AddedTo(p + 1, w, cell2, room2[w])
      <4> TAKE w \in Vertex
      <4>1. CASE w = v
        BY <3>11, <3>13, <4>1
      <4>2. CASE w # v
        <5>1. PICK z : z = room[w]
          OBVIOUS
        <5>2. AddedTo(p, w, cell, z)
          BY <1>4, <5>1
        <5>3. AddedTo(p, w, cell2, z)
          BY <1>5, <2>4, <3>2, <3>9, <3>11, <4>2, <5>2, AddElsewhere
        <5>4. AddedTo(p + 1, w, cell2, z)
          BY <3>5, <4>2, <5>3, AddedSame
        <5> QED
          BY <3>13, <4>2, <5>1, <5>4
      <4> QED
        BY <4>1, <4>2
    <3>17. PICK n : n = [cell |-> cell2, room |-> room2]
      OBVIOUS
    <3>18. n.cell = cell2 /\ n.room = room2 /\ n \in [cell : [0 .. T - 1 -> Contents], room : [Vertex -> Nat]]
      BY <3>14, <3>15, <3>17
    <3>19. n \in AddStates(p + 1)
      BY <1>1, <3>16, <3>18 DEF AddStates
    <3> QED
      BY <3>4, <3>17, <3>19
  <2> QED
    BY <2>6, <2>7
<1> QED
  BY <1>5, <1>16, <1>18, <1>19

\* The loop of step 3 ends in a state that AddStates describes.
LEMMA AddingIs ==
  ASSUME InputOK, NEW d, Roomy(d)
  PROVE  \E m \in AddStates(offsets[numNodes]) : Adding = m.cell
<1>1. PICK T \in Nat : T = offsets[numNodes]
  BY RoomyFacts
<1>2. 0 \in 0 .. T /\ T \in 0 .. T
  OBVIOUS
<1>3. PICK first : first = [cell |-> neighs, room |-> needed]
  OBVIOUS
<1>4. first \in AddStates(0)
  <2>1. neighs \in [0 .. T - 1 -> Contents]
    <3>1. neighs = [p \in 0 .. T - 1 |-> neighs[p]]
      BY <1>1 DEF Roomy
    <3>2. \A p \in 0 .. T - 1 : neighs[p] \in Contents
      BY <1>1 DEF Contents
    <3> QED
      BY <3>1, <3>2
  <2>2. needed \in [Vertex -> Nat]
    <3>1. needed = Missing
      BY DEF Roomy
    <3>2. \A v \in Vertex : Missing[v] \in Nat
      BY MissingFacts
    <3>3. Missing = [v \in Vertex |-> Missing[v]]
      BY DEF Missing
    <3> QED
      BY <3>1, <3>2, <3>3
  <2>3. ASSUME NEW v \in Vertex PROVE AddedTo(0, v, neighs, needed[v])
    <3>1. Asked(0, v) = {}
      <4> SUFFICES ASSUME NEW u \in Vertex, NEW p \in Mid(u) .. offsets[u + 1] - 1, p < 0 PROVE FALSE
        BY DEF Asked
      <4>1. Mid(u) \in Nat
        BY RoomyFacts
      <4> QED
        BY <4>1
    <3>2. Cardinality(Asked(0, v)) = 0
      BY <3>1, FS_EmptySet
    <3>3. PICK r \in Nat : r = needed[v]
      BY <2>2
    <3>4. PICK c \in Nat : c = Mid(v)
      BY RoomyFacts
    <3>5. PICK b \in Nat : b = offsets[v + 1]
      BY RoomyFacts
    <3>6. offsets[v] + r = c
      BY <3>3, <3>4 DEF Mid
    <3>7. ArcList(neighs, c, b, v)
      BY <3>4, <3>5 DEF Roomy
    <3>8. \A p, q \in c .. b - 1 : p # q => neighs[p] # neighs[q]
      <4> SUFFICES ASSUME NEW p \in c .. b - 1, NEW q \in c .. b - 1, p # q PROVE neighs[p] # neighs[q]
        OBVIOUS
      <4>1. neighs[p] \in Int /\ neighs[q] \in Int
        BY <3>7 DEF ArcList, Vertex
      <4>2. p < q => neighs[p] < neighs[q]
        BY <3>7 DEF ArcList
      <4>3. q < p => neighs[q] < neighs[p]
        BY <3>7 DEF ArcList
      <4>4. p < q \/ q < p
        OBVIOUS
      <4> QED
        BY <4>1, <4>2, <4>3, <4>4
    <3>9. \A p \in c .. c - 1 : FALSE
      OBVIOUS
    <3>10. AddedTo(0, v, neighs, r)
      BY <3>1, <3>2, <3>3, <3>4, <3>5, <3>6, <3>8, <3>9 DEF AddedTo
    <3> QED
      BY <3>3, <3>10
  <2>4. /\ first.cell = neighs /\ first.room = needed
        /\ first \in [cell : [0 .. T - 1 -> Contents], room : [Vertex -> Nat]]
    BY <1>3, <2>1, <2>2
  <2> QED
    BY <1>1, <2>3, <2>4 DEF AddStates
<1> DEFINE D == [k \in 0 .. T |-> AddStates(k)]
           G == [k \in 1 .. T |-> [m \in D[k - 1] |-> AddCell(m, k - 1)]]
           Solves(F) == F = [k \in 0 .. T |-> IF k = 0 THEN first ELSE AddCell(F[k - 1], k - 1)]
<1>5. \A k \in 1 .. T : \A m \in D[k - 1] : AddCell(m, k - 1) \in D[k] /\ G[k][m] = AddCell(m, k - 1)
  <2> SUFFICES ASSUME NEW k \in 1 .. T, NEW m \in D[k - 1]
               PROVE  AddCell(m, k - 1) \in D[k] /\ G[k][m] = AddCell(m, k - 1)
    OBVIOUS
  <2>1. k \in 0 .. T /\ k - 1 \in 0 .. T
    OBVIOUS
  <2>2. PICK p : p = k - 1
    OBVIOUS
  <2>3. m \in AddStates(p) /\ p \in 0 .. offsets[numNodes] - 1 /\ p + 1 = k
    BY <1>1, <2>1, <2>2
  <2>4. AddCell(m, p) \in AddStates(p + 1)
    BY <2>3, AddRound
  <2>5. AddCell(m, k - 1) \in AddStates(k)
    BY <2>2, <2>3, <2>4
  <2> QED
    BY <2>1, <2>5
<1>6. first \in D[0]
  BY <1>2, <1>4
<1>7. \E F : Follows(F, T, first, G) /\ \A k \in 0 .. T : F[k] \in D[k]
  <2>1. \A k \in 1 .. T : \A m \in D[k - 1] : G[k][m] \in D[k]
    BY <1>5
  <2> HIDE DEF G, D
  <2> QED
    BY <1>6, <2>1, Recursion
<1>8. \E F : Solves(F)
  <2> HIDE DEF D
  <2>1. PICK F : Follows(F, T, first, G) /\ \A k \in 0 .. T : F[k] \in D[k]
    BY <1>7
  <2> HIDE DEF G
  <2>2. F = [k \in 0 .. T |-> IF k = 0 THEN first ELSE G[k][F[k - 1]]]
    BY <2>1 DEF Follows
  <2>3. \A k \in 0 .. T : k # 0 => k - 1 \in 0 .. T /\ k \in 1 .. T
    OBVIOUS
  <2>4. \A k \in 0 .. T : k # 0 => G[k][F[k - 1]] = AddCell(F[k - 1], k - 1)
    BY <1>5, <2>1, <2>3
  <2>5. Solves(F)
    BY <2>2, <2>4
  <2> QED
    BY <2>5
<1>9. PICK F : F = CHOOSE H : Solves(H)
  OBVIOUS
<1>10. Adding = F[T].cell
  BY <1>1, <1>3, <1>9 DEF Adding, AddCell, AddArc
<1>11. Solves(F)
  BY <1>8, <1>9
<1>12. F[0] = first /\ \A k \in 1 .. T : F[k] = AddCell(F[k - 1], k - 1)
  BY <1>2, <1>11
<1> HIDE DEF Solves
<1>13. \A k \in 0 .. T : F[k] \in D[k]
  <2> DEFINE P == {k \in 0 .. T : F[k] \in D[k]}
  <2>1. 0 \in P
    BY <1>2, <1>6, <1>12
  <2>2. ASSUME NEW k \in 1 .. T, k - 1 \in P PROVE k \in P
    <3>1. F[k] = AddCell(F[k - 1], k - 1) /\ F[k - 1] \in D[k - 1] /\ k \in 0 .. T
      BY <1>12, <2>2
    <3> HIDE DEF D
    <3>2. AddCell(F[k - 1], k - 1) \in D[k]
      BY <1>5, <3>1
    <3> QED
      BY <3>1, <3>2
  <2> HIDE DEF P
  <2>3. \A k \in 0 .. T : k \in P
    BY <2>1, <2>2, UpTo
  <2> QED
    BY <2>3 DEF P
<1>14. F[T] \in AddStates(T)
  BY <1>2, <1>13
<1> QED
  BY <1>1, <1>10, <1>14

\* In the end nobody lacks an inverse, and no room is left.
LEMMA AddingDone ==
  ASSUME InputOK, NEW d, Roomy(d), NEW m \in AddStates(offsets[numNodes]), NEW cell, cell = m.cell, NEW n \in Vertex
  PROVE  /\ \A p \in offsets[n] .. offsets[n + 1] - 1 :
              cell[p] \in Vertex /\ (IsArc(n, cell[p]) \/ IsArc(cell[p], n))
         /\ \A p, q \in offsets[n] .. offsets[n + 1] - 1 : p # q => cell[p] # cell[q]
         /\ \A v \in Vertex : IsArc(n, v) \/ IsArc(v, n) => \E p \in offsets[n] .. offsets[n + 1] - 1 : cell[p] = v
<1>1. PICK T \in Nat : T = offsets[numNodes]
  BY RoomyFacts
<1>2. PICK a \in Nat : a = offsets[n]
  BY RoomyFacts
<1>3. PICK b \in Nat : b = offsets[n + 1]
  BY RoomyFacts
<1>4. PICK c \in Nat : c = Mid(n)
  BY RoomyFacts
<1>5. c = a + needed[n] /\ c <= b /\ needed[n] \in Nat
  BY <1>2, <1>3, <1>4, RoomyFacts
<1>6. Asked(T, n) = Lackers(n)
  <2>1. Asked(T, n) \subseteq Lackers(n)
    BY AskedFacts
  <2>2. ASSUME NEW u \in Lackers(n) PROVE u \in Asked(T, n)
    <3>1. u \in Vertex /\ IsArc(u, n) /\ ~IsArc(n, u)
      BY DEF Lackers
    <3>2. ArcList(neighs, Mid(u), offsets[u + 1], u)
      BY <3>1 DEF Roomy
    <3>3. PICK p \in Mid(u) .. offsets[u + 1] - 1 : neighs[p] = n
      BY <3>1, <3>2 DEF ArcList
    <3>4. offsets[u + 1] <= T /\ offsets[u + 1] \in Nat /\ Mid(u) \in Nat
      BY <1>1, <3>1, RoomyFacts
    <3>5. p < T
      BY <3>4
    <3> QED
      BY <3>1, <3>3, <3>5 DEF Asked
  <2> QED
    BY <2>1, <2>2
<1>7. PICK r : r = m.room[n]
  OBVIOUS
<1>8. AddedTo(T, n, cell, r)
  BY <1>1, <1>7 DEF AddStates
<1>9. r \in Nat /\ r + Cardinality(Lackers(n)) = needed[n]
  BY <1>6, <1>8 DEF AddedTo
<1>10. needed[n] = Cardinality(Lackers(n))
  BY MissingFacts DEF Roomy
<1>11. r = 0 /\ a + r = a
  <2>1. PICK l : l = Cardinality(Lackers(n))
    OBVIOUS
  <2>2. l \in Nat /\ r + l = l
    BY <1>5, <1>9, <1>10, <2>1
  <2> QED
    BY <1>9, <2>2
<1>12. /\ \A p \in c .. b - 1 : cell[p] = neighs[p]
       /\ \A p \in a .. c - 1 : cell[p] \in Lackers(n)
       /\ \A u \in Lackers(n) : \E p \in a .. c - 1 : cell[p] = u
       /\ \A p, q \in a .. b - 1 : p # q => cell[p] # cell[q]
  BY <1>2, <1>3, <1>4, <1>6, <1>8, <1>11 DEF AddedTo
<1>13. ArcList(neighs, c, b, n)
  BY <1>3, <1>4 DEF Roomy
<1>14. /\ \A p \in c .. b - 1 : neighs[p] \in Vertex /\ IsArc(n, neighs[p])
       /\ \A v : IsArc(n, v) => \E p \in c .. b - 1 : neighs[p] = v
  BY <1>13 DEF ArcList
<1>15. ASSUME NEW p \in a .. b - 1 PROVE cell[p] \in Vertex /\ (IsArc(n, cell[p]) \/ IsArc(cell[p], n))
  <2>1. CASE p < c
    <3>1. p \in a .. c - 1
      BY <2>1
    <3>2. cell[p] \in Lackers(n)
      BY <1>12, <3>1
    <3> QED
      BY <3>2 DEF Lackers
  <2>2. CASE ~(p < c)
    <3>1. p \in c .. b - 1
      BY <2>2
    <3> QED
      BY <1>12, <1>14, <3>1
  <2> QED
    BY <2>1, <2>2
<1>16. ASSUME NEW v \in Vertex, IsArc(n, v) \/ IsArc(v, n) PROVE \E p \in a .. b - 1 : cell[p] = v
  <2>1. CASE IsArc(n, v)
    <3>1. PICK p \in c .. b - 1 : neighs[p] = v
      BY <1>14, <2>1
    <3>2. p \in a .. b - 1
      BY <1>5
    <3> QED
      BY <1>12, <3>1, <3>2
  <2>2. CASE ~IsArc(n, v)
    <3>1. v \in Lackers(n)
      BY <1>16, <2>2 DEF Lackers
    <3>2. PICK p \in a .. c - 1 : cell[p] = v
      BY <1>12, <3>1
    <3>3. p \in a .. b - 1
      BY <1>5
    <3> QED
      BY <3>2, <3>3
  <2> QED
    BY <2>1, <2>2
<1> QED
  BY <1>2, <1>3, <1>12, <1>15, <1>16

\* There is one prefix sum.
LEMMA PrefixUnique ==
  ASSUME numNodes \in Nat \ {0}, NEW d, NEW e, \A n \in Vertex : e[n] = d[n],
         NEW P, IsPrefixSum(P, d), NEW Q, IsPrefixSum(Q, e)
  PROVE  P = Q
<1> DEFINE S == {n \in 0 .. numNodes : P[n] = Q[n]}
<1>1. 0 \in S
  BY DEF IsPrefixSum
<1>2. ASSUME NEW n \in 1 .. numNodes, n - 1 \in S PROVE n \in S
  <2>1. n - 1 \in Vertex /\ (n - 1) + 1 = n /\ n \in 0 .. numNodes
    BY DEF Vertex
  <2>2. P[n] = P[n - 1] + d[n - 1] /\ Q[n] = Q[n - 1] + e[n - 1]
    BY <2>1 DEF IsPrefixSum
  <2> QED
    BY <1>2, <2>1, <2>2
<1> HIDE DEF S
<1>3. \A n \in 0 .. numNodes : n \in S
  BY <1>1, <1>2, UpTo
<1>4. \A n \in 0 .. numNodes : P[n] = Q[n]
  BY <1>3 DEF S
<1>5. P \in [0 .. numNodes -> Nat] /\ Q \in [0 .. numNodes -> Nat]
  BY DEF IsPrefixSum
<1> QED
  BY <1>4, <1>5

\* The in-place builder of an undirected graph: every list sorted, of all
\* that are joined with the vertex either way.
LEMMA InPlaceBoth ==
  ASSUME InputOK, input.inPlace, input.symmetrize, NEW d, Roomy(d), NEW s \in Sides,
         NEW g, g = Finished(offsets, Adding),
         NEW h, h = [g EXCEPT !.neighs = Layout([n \in Vertex |-> SortedList(Neigh(g, n))]).neighs]
  PROVE  GraphHolds(h, s)
<1>1. numNodes \in Nat \ {0}
  BY InputFacts
<1>2. PICK m \in AddStates(offsets[numNodes]) : Adding = m.cell
  BY AddingIs
<1>3. PICK cell : cell = m.cell
  OBVIOUS
<1>4. ASSUME NEW n \in Vertex
      PROVE  /\ \A p \in offsets[n] .. offsets[n + 1] - 1 :
                  cell[p] \in Vertex /\ (IsArc(n, cell[p]) \/ IsArc(cell[p], n))
             /\ \A p, q \in offsets[n] .. offsets[n + 1] - 1 : p # q => cell[p] # cell[q]
             /\ \A v \in Vertex : IsArc(n, v) \/ IsArc(v, n) => \E p \in offsets[n] .. offsets[n + 1] - 1 : cell[p] = v
  BY <1>2, <1>3, AddingDone
<1>5. IsPrefixSum(offsets, d) /\ \A n \in Vertex : d[n] \in Nat
  BY DEF Roomy
<1>6. \A p \in 0 .. offsets[numNodes] - 1 : cell[p] \in Vertex
  <2> TAKE p \in 0 .. offsets[numNodes] - 1
  <2>1. PICK n \in Vertex : p \in offsets[n] .. offsets[n + 1] - 1
    BY RoomyFacts
  <2> QED
    BY <1>4, <2>1
<1>7. g = Finished(offsets, cell)
  BY <1>2, <1>3
<1>8. /\ IsGraph(g) /\ g.index = offsets
      /\ \A n \in Vertex :
           /\ offsets[n] \in Nat /\ offsets[n + 1] \in Nat /\ offsets[n] <= offsets[n + 1]
           /\ Neigh(g, n) \in Seq(Neighbor)
           /\ Len(Neigh(g, n)) = offsets[n + 1] - offsets[n]
           /\ \A i \in 1 .. offsets[n + 1] - offsets[n] :
                /\ offsets[n] + i - 1 \in offsets[n] .. offsets[n + 1] - 1
                /\ Neigh(g, n)[i] = [v |-> cell[offsets[n] + i - 1], w |-> 1]
  BY <1>1, <1>5, <1>6, <1>7, FinishedFacts
<1>9. PICK lists : lists = [n \in Vertex |-> SortedList(Neigh(g, n))]
  OBVIOUS
<1>10. ASSUME NEW n \in Vertex
       PROVE  /\ lists[n] \in Seq(Neighbor) /\ Len(lists[n]) = offsets[n + 1] - offsets[n]
              /\ ListHolds(lists[n], s, n)
  <2>1. PICK a \in Nat : a = offsets[n]
    BY <1>8
  <2>2. PICK b \in Nat : b = offsets[n + 1]
    BY <1>8
  <2>3. PICK q : q = Neigh(g, n)
    OBVIOUS
  <2>4. /\ a <= b /\ q \in Seq(Neighbor) /\ Len(q) = b - a
        /\ \A i \in 1 .. b - a : a + i - 1 \in a .. b - 1 /\ q[i] = [v |-> cell[a + i - 1], w |-> 1]
    BY <1>8, <2>1, <2>2, <2>3
  <2>5. PICK l : l = lists[n]
    OBVIOUS
  <2>6. l = SortedList(q)
    BY <1>9, <2>3, <2>5
  <2>7. /\ \A p \in a .. b - 1 : cell[p] \in Vertex /\ (IsArc(n, cell[p]) \/ IsArc(cell[p], n))
        /\ \A p, r \in a .. b - 1 : p # r => cell[p] # cell[r]
        /\ \A v \in Vertex : IsArc(n, v) \/ IsArc(v, n) => \E p \in a .. b - 1 : cell[p] = v
    BY <1>4, <2>1, <2>2
  <2>8. \A i, j \in 1 .. Len(q) : i # j => q[i] # q[j]
    <3> SUFFICES ASSUME NEW i \in 1 .. Len(q), NEW j \in 1 .. Len(q), i # j PROVE q[i] # q[j]
      OBVIOUS
    <3>1. PICK x \in a .. b - 1 : x = a + i - 1 /\ q[i] = [v |-> cell[x], w |-> 1]
      BY <2>4
    <3>2. PICK y \in a .. b - 1 : y = a + j - 1 /\ q[j] = [v |-> cell[y], w |-> 1]
      BY <2>4
    <3>3. x # y
      BY <2>4, <3>1, <3>2
    <3>4. cell[x] # cell[y]
      BY <2>7, <3>3
    <3>5. q[i].v = cell[x] /\ q[j].v = cell[y]
      BY <3>1, <3>2
    <3> QED
      BY <3>4, <3>5
  <2>9. /\ l \in Seq(Neighbor) /\ Len(l) = Len(q)
        /\ {l[i] : i \in 1 .. Len(q)} = {q[i] : i \in 1 .. Len(q)}
        /\ \A i, j \in 1 .. Len(q) : i < j => ~Before(l[j], l[i])
        /\ \A i, j \in 1 .. Len(q) : i # j => l[i] # l[j]
    <3>1. /\ SortedList(q) \in Seq(Neighbor) /\ Len(SortedList(q)) = Len(q)
          /\ {SortedList(q)[i] : i \in 1 .. Len(q)} = {q[i] : i \in 1 .. Len(q)}
          /\ \A i, j \in 1 .. Len(q) : i < j => ~Before(SortedList(q)[j], SortedList(q)[i])
          /\ \A i, j \in 1 .. Len(q) : i # j => SortedList(q)[i] # SortedList(q)[j]
      BY <1>1, <2>4, <2>8, SortedListFacts
    <3> QED
      BY ONLY <2>6, <3>1
  <2>10. ASSUME NEW i \in 1 .. Len(l)
         PROVE  /\ l[i] \in Neighbor /\ l[i].w = 1 /\ l[i].v \in Vertex
                /\ IsArc(n, l[i].v) \/ IsArc(l[i].v, n)
    <3>1. l[i] \in {q[j] : j \in 1 .. Len(q)}
      BY <2>9
    <3>2. PICK j \in 1 .. Len(q) : l[i] = q[j]
      BY <3>1
    <3>3. PICK x \in a .. b - 1 : q[j] = [v |-> cell[x], w |-> 1]
      BY <2>4
    <3>4. l[i].v = cell[x] /\ l[i].w = 1
      BY <3>2, <3>3
    <3>5. l[i] \in Neighbor
      BY <2>9
    <3> QED
      BY <2>7, <3>4, <3>5
  <2>11. \A i, j \in 1 .. Len(l) : i < j => l[i].v < l[j].v
    <3> SUFFICES ASSUME NEW i \in 1 .. Len(l), NEW j \in 1 .. Len(l), i < j PROVE l[i].v < l[j].v
      OBVIOUS
    <3>1. ~Before(l[j], l[i]) /\ l[i] # l[j]
      BY <2>9
    <3>2. /\ l[i] \in Neighbor /\ l[i].w = 1 /\ l[i].v \in Vertex
          /\ l[j] \in Neighbor /\ l[j].w = 1 /\ l[j].v \in Vertex
      BY <2>10
    <3>3. l[i].v # l[j].v
      BY <3>1, <3>2 DEF Neighbor
    <3>4. l[i].v \in Int /\ l[j].v \in Int
      BY <3>2 DEF Vertex
    <3> QED
      BY <3>1, <3>3, <3>4 DEF Before
  <2>12. \A i \in 1 .. Len(l) : Joined(s, n, l[i].v)
    <3> TAKE i \in 1 .. Len(l)
    <3>1. l[i].v \in Vertex /\ (IsArc(n, l[i].v) \/ IsArc(l[i].v, n))
      BY <2>10
    <3> QED
      BY <3>1, WeightsInPlace
  <2>13. \A v \in Vertex : Joined(s, n, v) => \E i \in 1 .. Len(l) : l[i].v = v
    <3> SUFFICES ASSUME NEW v \in Vertex, Joined(s, n, v) PROVE \E i \in 1 .. Len(l) : l[i].v = v
      OBVIOUS
    <3>1. IsArc(n, v) \/ IsArc(v, n)
      BY WeightsInPlace
    <3>2. PICK p \in a .. b - 1 : cell[p] = v
      BY <2>7, <3>1
    <3>3. PICK i : i = p - a + 1
      OBVIOUS
    <3>4. i \in 1 .. b - a /\ a + i - 1 = p
      BY <2>4, <3>3
    <3>5. q[i].v = v /\ i \in 1 .. Len(q)
      BY <2>4, <3>2, <3>4
    <3>6. q[i] \in {l[j] : j \in 1 .. Len(q)}
      BY <2>9, <3>5
    <3>7. PICK j \in 1 .. Len(q) : q[i] = l[j]
      BY <3>6
    <3> QED
      BY <2>9, <3>5, <3>7
  <2>14. ListHolds(l, s, n)
    BY <2>9, <2>10, <2>11, <2>12, <2>13, ListHoldsInPlace
  <2> QED
    BY <2>1, <2>2, <2>4, <2>5, <2>9, <2>14
<1>11. PICK lay : lay = Layout(lists)
  OBVIOUS
<1>12. /\ IsGraph(lay) /\ IsPrefixSum(lay.index, Lengths(lists))
       /\ \A n \in Vertex : Neigh(lay, n) = lists[n]
  BY <1>1, <1>10, <1>11, LayoutHolds
<1>13. lay.index = offsets
  <2>1. PICK e : e = Lengths(lists)
    OBVIOUS
  <2>2. \A n \in Vertex : e[n] = d[n]
    <3> TAKE n \in Vertex
    <3>1. e[n] = Len(lists[n])
      BY <2>1 DEF Lengths
    <3>2. offsets[n + 1] = offsets[n] + d[n] /\ d[n] \in Nat
      BY <1>5 DEF IsPrefixSum
    <3>3. e[n] = offsets[n + 1] - offsets[n]
      BY <1>10, <3>1
    <3> QED
      BY <1>8, <3>2, <3>3
  <2>3. PICK P : P = lay.index
    OBVIOUS
  <2>4. IsPrefixSum(P, e)
    BY <1>12, <2>1, <2>3
  <2>5. offsets = P
    BY <1>1, <1>5, <2>2, <2>4, PrefixUnique
  <2> QED
    BY <2>3, <2>5
<1>14. h.index = lay.index /\ h.neighs = lay.neighs
  <2>1. PICK c : c = lay.neighs
    OBVIOUS
  <2>2. h = [g EXCEPT !.neighs = c]
    BY <1>9, <1>11, <2>1
  <2>3. g = [index |-> offsets, neighs |-> g.neighs]
    BY <1>7 DEF Finished
  <2>4. h.index = offsets /\ h.neighs = c
    BY <2>2, <2>3
  <2> QED
    BY <1>13, <2>1, <2>4
<1>15. IsGraph(h) /\ \A n \in Vertex : Neigh(h, n) = Neigh(lay, n)
  <2>1. IsGraph(h)
    BY ONLY <1>12, <1>14 DEF IsGraph
  <2>2. \A n \in Vertex : Neigh(h, n) = Neigh(lay, n)
    BY ONLY <1>14 DEF Neigh
  <2> QED
    BY <2>1, <2>2
<1> QED
  BY <1>10, <1>12, <1>15 DEF GraphHolds

-----------------------------------------------------------------------------
(* The inductive invariant, in parts: what holds in every stage, and then  *)
(* stage by stage.                                                         *)
Stages == {"begin", "copy", "squish", "count", "invert", "spread", "add", "built", "counted",
           "exited"}

Basics ==
  /\ InputOK /\ stage \in Stages /\ side \in Sides
  /\ todo \subseteq DOMAIN input.el
  /\ DOMAIN thread = Threads
  /\ csr = [r \in Sides |-> csr[r]]
  /\ \A n \in DOMAIN offsets : offsets[n] \in Nat
  /\ stage # "copy" => \A t \in Threads : thread[t] = Idle

BeginInv == stage = "begin" => csr["out"] = Empty /\ csr["in"] = Empty

\* While one side is copied, nothing or the outgoing side is finished.
CopySides ==
  /\ input.symmetrize => side = "out"
  /\ csr[side] = [index |-> csr[side].index, neighs |-> <<>>]
  /\ side = "out" => csr["in"] = Empty
  /\ side = "in" => Filled(csr["out"], "out")

CopyInv == stage = "copy" => CopyTypes /\ CopySides /\ \E U, cur, place : Copying(U, cur, place)

SquishInv ==
  stage = "squish" => Filled(csr["out"], "out") /\ (~input.symmetrize => Filled(csr["in"], "in"))

CountInv == stage = "count" => input.inPlace /\ input.symmetrize /\ Laid(Arcs, offsets, neighs)

InvertInv ==
  stage = "invert" => /\ input.inPlace /\ ~input.symmetrize /\ Laid(Arcs, offsets, neighs)
                      /\ needed = Counted(Targets(Arcs), 1 .. Len(Arcs))

SpreadInv == stage = "spread" => input.inPlace /\ input.symmetrize /\ \E start, R : Widened(start, R)

AddInv == stage = "add" => input.inPlace /\ input.symmetrize /\ \E d : Roomy(d)

BuiltInv == Graphed => GraphHolds(csr["out"], "out") /\ GraphHolds(csr["in"], "in")

BuilderInv ==
  /\ Basics /\ BeginInv /\ CopyInv /\ SquishInv
  /\ CountInv /\ InvertInv /\ SpreadInv /\ AddInv /\ BuiltInv

\* Input and vertices do not change, nor what depends on them.
LEMMA SameInput ==
  UNCHANGED <<input, numNodes>>
    => /\ Vertex' = Vertex /\ Arcs' = Arcs /\ (InputOK' <=> InputOK)
       /\ \A g, s : GraphHolds(g, s)' <=> GraphHolds(g, s)
       /\ \A g, s : Filled(g, s)' <=> Filled(g, s)
       /\ \A r, start, cell : Laid(r, start, cell)' <=> Laid(r, start, cell)
       /\ \A f, D : Counted(f, D)' = Counted(f, D)
<1> SUFFICES ASSUME UNCHANGED <<input, numNodes>>
             PROVE  /\ Vertex' = Vertex /\ Arcs' = Arcs /\ (InputOK' <=> InputOK)
                    /\ \A g, s : GraphHolds(g, s)' <=> GraphHolds(g, s)
                    /\ \A g, s : Filled(g, s)' <=> Filled(g, s)
                    /\ \A r, start, cell : Laid(r, start, cell)' <=> Laid(r, start, cell)
                    /\ \A f, D : Counted(f, D)' = Counted(f, D)
  OBVIOUS
<1>1. input' = input /\ numNodes' = numNodes
  OBVIOUS
<1>2. Vertex' = Vertex
  BY <1>1 DEF Vertex
<1>3. Arcs' = Arcs
  BY <1>1 DEF Arcs
<1>4. InputOK' <=> InputOK
  BY <1>1 DEF InputOK
<1>5. \A s, n, m : Weights(s, n, m)' = Weights(s, n, m)
  BY <1>1 DEF Weights, Given
<1>6. \A g : IsGraph(g)' <=> IsGraph(g)
  BY <1>1, <1>2 DEF IsGraph
<1>7. Neighbor' = Neighbor
  BY <1>2 DEF Neighbor
<1>8. \A l, s, n : ListHolds(l, s, n)' <=> ListHolds(l, s, n)
  BY <1>2, <1>5, <1>7 DEF ListHolds
<1>9. \A g, s : GraphHolds(g, s)' <=> GraphHolds(g, s)
  BY <1>2, <1>6, <1>8 DEF GraphHolds
<1>10. \A s, n : Wanted(s, n)' = Wanted(s, n)
  BY <1>2, <1>5 DEF Wanted
<1>11. \A g, s : Filled(g, s)' <=> Filled(g, s)
  BY <1>2, <1>6, <1>10 DEF Filled
<1>12. \A f, D : Counted(f, D)' = Counted(f, D)
  BY <1>2 DEF Counted
<1>13. \A r, start, cell : Laid(r, start, cell)' <=> Laid(r, start, cell)
  <2> TAKE r, start, cell
  <2>1. PICK d : d = Counted(Sources(r), 1 .. Len(r))
    OBVIOUS
  <2>2. Counted(Sources(r), 1 .. Len(r))' = d
    BY <1>12, <2>1
  <2>3. IsPrefixSum(start, d)' <=> IsPrefixSum(start, d)
    BY <1>1, <1>2 DEF IsPrefixSum
  <2> QED
    BY <2>1, <2>2, <2>3 DEF Laid
<1> QED
  BY <1>2, <1>3, <1>4, <1>9, <1>11, <1>12, <1>13

LEMMA InitInv ==
  Init => BuilderInv
<1> SUFFICES ASSUME Init PROVE BuilderInv
  OBVIOUS
<1>1. Basics
  BY DEF Init, Basics, InputOK, Stages, Sides
<1>2. BeginInv
  BY DEF Init, BeginInv
<1>3. stage = "begin"
  BY DEF Init
<1> QED
  BY <1>1, <1>2, <1>3
     DEF BuilderInv, CopyInv, SquishInv, CountInv, InvertInv, SpreadInv, AddInv, BuiltInv, Graphed

\* A step of the copy loop disturbs no more than its own part.
LEMMA CopyGoesOn ==
  ASSUME BuilderInv, stage = "copy", UNCHANGED <<input, numNodes, stage, side, csr>>,
         CopyTypes', \E U, cur, place : Copying(U, cur, place)'
  PROVE  BuilderInv'
<1>1. stage' = "copy"
  OBVIOUS
<1>2. Basics'
  <2>1. InputOK' /\ side' \in Sides /\ todo' \subseteq DOMAIN input'.el /\ DOMAIN thread' = Threads
    BY DEF CopyTypes, Sides
  <2>2. csr' = [r \in Sides |-> csr'[r]]
    BY DEF BuilderInv, Basics
  <2>3. \A n \in DOMAIN offsets' : offsets'[n] \in Nat
    BY DEF CopyTypes
  <2> QED
    BY <1>1, <2>1, <2>2, <2>3 DEF Basics, Stages
<1>3. CopySides'
  <2>1. CopySides
    BY DEF BuilderInv, CopyInv
  <2>2. Filled(csr["out"], "out")' <=> Filled(csr["out"], "out")
    BY SameInput
  <2> QED
    BY <2>1, <2>2 DEF CopySides
<1>4. CopyInv'
  BY <1>3 DEF CopyInv
<1> QED
  BY <1>1, <1>2, <1>4
     DEF BuilderInv, BeginInv, SquishInv, CountInv, InvertInv, SpreadInv, AddInv, BuiltInv, Graphed

LEMMA TakeKeeps ==
  ASSUME BuilderInv, NEW t \in Threads, NEW k \in todo, TakeEdge(t, k)
  PROVE  BuilderInv'
<1>1. stage = "copy" /\ UNCHANGED <<input, numNodes, stage, side, csr>>
  BY DEF TakeEdge
<1>2. CopyTypes /\ \E U, cur, place : Copying(U, cur, place)
  BY <1>1 DEF BuilderInv, CopyInv
<1>3. PICK U, cur, place : Copying(U, cur, place)
  BY <1>2
<1>4. CopyTypes' /\ \E c : Copying(U, c, place)'
  BY <1>2, <1>3, TakeStep
<1> QED
  BY <1>1, <1>4, CopyGoesOn

LEMMA ClaimKeeps ==
  ASSUME BuilderInv, NEW t \in Threads, ClaimPlace(t)
  PROVE  BuilderInv'
<1>1. UNCHANGED <<input, numNodes, stage, side, csr>>
  BY DEF ClaimPlace
<1>2. stage = "copy"
  BY DEF ClaimPlace, BuilderInv, Basics, Idle
<1>3. CopyTypes /\ \E U, cur, place : Copying(U, cur, place)
  BY <1>2 DEF BuilderInv, CopyInv
<1>4. PICK U, cur, place : Copying(U, cur, place)
  BY <1>3
<1>5. CopyTypes' /\ \E V, q : Copying(V, cur, q)'
  BY <1>3, <1>4, ClaimStep
<1> QED
  BY <1>1, <1>2, <1>5, CopyGoesOn

LEMMA StoreKeeps ==
  ASSUME BuilderInv, NEW t \in Threads, Store(t)
  PROVE  BuilderInv'
<1>1. UNCHANGED <<input, numNodes, stage, side, csr>>
  BY DEF Store
<1>2. stage = "copy"
  BY DEF Store, BuilderInv, Basics, Idle
<1>3. CopyTypes /\ \E U, cur, place : Copying(U, cur, place)
  BY <1>2 DEF BuilderInv, CopyInv
<1>4. PICK U, cur, place : Copying(U, cur, place)
  BY <1>3
<1>5. CopyTypes' /\ \E d : Copying(U, d, place)'
  BY <1>3, <1>4, StoreStep
<1> QED
  BY <1>1, <1>2, <1>5, CopyGoesOn

\* A pass begins, for the outgoing side or, with that one finished, for the
\* incoming one.
LEMMA PassBegins ==
  ASSUME BuilderInv, ~input.inPlace, NEW s \in Sides, NEW g, g = [r \in Sides |-> g[r]], g[s] = Empty,
         s = "out" => g["in"] = Empty,
         s = "in" => ~input.symmetrize /\ Filled(g["out"], "out"),
         BeginCSR(s, g), \A t \in Threads : thread[t] = Idle, UNCHANGED <<input, numNodes, thread>>
  PROVE  BuilderInv'
<1>1. stage' = "copy" /\ todo' = DOMAIN input.el
  BY DEF BeginCSR
<1>2. /\ CopyTypes' /\ \E U, cur, place : Copying(U, cur, place)'
      /\ csr' = [r \in Sides |-> csr'[r]] /\ side' = s
      /\ csr'[s] = [index |-> csr'[s].index, neighs |-> <<>>]
      /\ \A r \in Sides : r # s => csr'[r] = g[r]
      /\ \A n \in DOMAIN offsets' : offsets'[n] \in Nat
  <2>1. InputOK /\ DOMAIN thread = Threads
    BY DEF BuilderInv, Basics
  <2> QED
    BY <2>1, BeginStep
<1>3. Basics'
  <2>1. InputOK' /\ todo' \subseteq DOMAIN input'.el /\ DOMAIN thread' = Threads
    BY <1>2 DEF CopyTypes
  <2> QED
    BY <1>1, <1>2, <2>1 DEF Basics, Stages
<1>4. CopySides'
  <2>1. input'.symmetrize => side' = "out"
    BY <1>2 DEF Sides
  <2>2. side' = "out" => csr'["in"] = Empty
    BY <1>2 DEF Sides
  <2>3. side' = "in" => Filled(csr["out"], "out")'
    <3> SUFFICES ASSUME side' = "in" PROVE Filled(csr["out"], "out")'
      OBVIOUS
    <3>1. PICK o : o = g["out"]
      OBVIOUS
    <3>2. csr'["out"] = o
      BY <1>2, <3>1 DEF Sides
    <3>3. Filled(o, "out")
      BY <1>2, <3>1
    <3>4. Filled(o, "out")'
      BY <3>3, SameInput
    <3> QED
      BY <3>2, <3>4
  <2> QED
    BY <1>2, <2>1, <2>2, <2>3 DEF CopySides
<1>5. CopyInv'
  BY <1>2, <1>4 DEF CopyInv
<1> QED
  BY <1>1, <1>3, <1>5
     DEF BuilderInv, BeginInv, SquishInv, CountInv, InvertInv, SpreadInv, AddInv, BuiltInv, Graphed

LEMMA MakeKeeps ==
  ASSUME BuilderInv, MakeCSR
  PROVE  BuilderInv'
<1>1. /\ stage = "begin" /\ ~input.inPlace /\ BeginCSR("out", csr)
      /\ UNCHANGED <<input, numNodes, thread>>
  BY DEF MakeCSR
<1>2. csr["out"] = Empty /\ csr["in"] = Empty
  BY <1>1 DEF BuilderInv, BeginInv
<1>3. csr = [r \in Sides |-> csr[r]] /\ \A t \in Threads : thread[t] = Idle
  BY <1>1 DEF BuilderInv, Basics
<1>4. PICK s \in Sides : s = "out"
  BY DEF Sides
<1>5. BeginCSR(s, csr) /\ csr[s] = Empty /\ s # "in"
  BY <1>1, <1>2, <1>4
<1> QED
  BY <1>1, <1>2, <1>3, <1>5, PassBegins

LEMMA EndCopyKeeps ==
  ASSUME BuilderInv, EndCopy
  PROVE  BuilderInv'
<1>1. PICK g : g = [csr EXCEPT ![side].neighs = neighs]
  OBVIOUS
<1>2. /\ stage = "copy" /\ todo = {} /\ \A t \in Threads : thread[t] = Idle
      /\ IF ~input.symmetrize /\ side = "out" THEN BeginCSR("in", g)
         ELSE csr' = g /\ stage' = "squish" /\ UNCHANGED <<side, offsets, neighs, todo>>
      /\ UNCHANGED <<input, numNodes, thread>>
  BY <1>1 DEF EndCopy
<1>3. CopyTypes /\ CopySides /\ \E U, cur, place : Copying(U, cur, place)
  BY <1>2 DEF BuilderInv, CopyInv
<1>4. PICK U, cur, place : Copying(U, cur, place)
  BY <1>3
<1>5. csr = [r \in Sides |-> csr[r]] /\ side \in Sides
  BY DEF BuilderInv, Basics
<1>6. /\ g = [r \in Sides |-> g[r]] /\ \A r \in Sides : r # side => g[r] = csr[r]
      /\ g[side] = [csr[side] EXCEPT !.neighs = neighs]
  BY <1>1, <1>5
<1>7. g[side].index = Start /\ g[side].neighs = neighs
  <2>1. PICK x : x = csr[side].index
    OBVIOUS
  <2>2. csr[side] = [index |-> x, neighs |-> <<>>]
    BY <1>3, <2>1 DEF CopySides
  <2>3. g[side] = [index |-> x, neighs |-> neighs]
    BY <1>6, <2>2
  <2> QED
    BY <2>1, <2>3 DEF Start
<1>8. Filled(g[side], side)
  <2>1. PICK h : h = g[side]
    OBVIOUS
  <2>2. h.index = Start /\ h.neighs = neighs
    BY <1>7, <2>1
  <2>3. input.symmetrize => side = "out"
    BY <1>3 DEF CopySides
  <2>4. Filled(h, side)
    BY <1>2, <1>3, <1>4, <2>2, <2>3, CopyDone
  <2> QED
    BY <2>1, <2>4
<1>9. CASE ~input.symmetrize /\ side = "out"
  <2>1. PICK s \in Sides : s = "in"
    BY DEF Sides
  <2>2. g[s] = Empty
    BY <1>3, <1>6, <1>9, <2>1 DEF CopySides
  <2>3. BeginCSR(s, g) /\ s # "out" /\ Filled(g["out"], "out") /\ ~input.inPlace
    BY <1>2, <1>3, <1>8, <1>9, <2>1 DEF CopyTypes
  <2> QED
    BY <1>2, <1>6, <1>9, <2>2, <2>3, PassBegins
<1>10. CASE ~(~input.symmetrize /\ side = "out")
  <2>1. csr' = g /\ stage' = "squish" /\ UNCHANGED <<side, offsets, neighs, todo>>
    BY <1>2, <1>10
  <2>2. Basics'
    <3>1. InputOK'
      BY <1>2, SameInput DEF BuilderInv, Basics
    <3>2. csr' = [r \in Sides |-> csr'[r]]
      BY <1>6, <2>1
    <3>3. thread' = thread /\ input' = input /\ side' = side /\ todo' = todo /\ offsets' = offsets
      BY <1>2, <2>1
    <3> QED
      BY <1>2, <2>1, <3>1, <3>2, <3>3 DEF BuilderInv, Basics, Stages
  <2>3. Filled(g["out"], "out") /\ (~input.symmetrize => Filled(g["in"], "in"))
    <3>1. CASE input.symmetrize
      <4>1. side = "out"
        BY <1>3, <3>1 DEF CopySides
      <4> QED
        BY <1>8, <3>1, <4>1
    <3>2. CASE ~input.symmetrize
      <4>1. side = "in"
        BY <1>5, <1>10, <3>2 DEF Sides
      <4>2. Filled(csr["out"], "out") /\ g["out"] = csr["out"]
        BY <1>3, <1>6, <4>1 DEF CopySides, Sides
      <4> QED
        BY <1>8, <4>1, <4>2
    <3> QED
      BY <3>1, <3>2
  <2>4. SquishInv'
    <3>1. PICK o : o = g["out"]
      OBVIOUS
    <3>2. PICK i : i = g["in"]
      OBVIOUS
    <3>3. Filled(o, "out")' /\ (~input'.symmetrize => Filled(i, "in")')
      BY <1>2, <2>3, <3>1, <3>2, SameInput
    <3>4. csr'["out"] = o /\ csr'["in"] = i
      BY <2>1, <3>1, <3>2
    <3> QED
      BY <3>3, <3>4 DEF SquishInv
  <2> QED
    BY <2>1, <2>2, <2>4
       DEF BuilderInv, BeginInv, CopyInv, CountInv, InvertInv, SpreadInv, AddInv, BuiltInv, Graphed
<1> QED
  BY <1>9, <1>10

LEMMA BasicsStay ==
  ASSUME Basics, UNCHANGED <<input, numNodes, todo, thread, side>>, stage # "copy",
         stage' \in Stages, csr' = [r \in Sides |-> csr'[r]], \A n \in DOMAIN offsets' : offsets'[n] \in Nat
  PROVE  Basics'
<1>1. InputOK'
  BY SameInput DEF Basics
<1> QED
  BY <1>1 DEF Basics

LEMMA Finishes ==
  ASSUME BuilderInv, UNCHANGED <<input, numNodes, todo, thread, side, offsets>>, stage # "copy", stage' = "built",
         NEW o, GraphHolds(o, "out"), NEW i, GraphHolds(i, "in"), csr' = [csr EXCEPT !["out"] = o, !["in"] = i]
  PROVE  BuilderInv'
<1>1. csr = [r \in Sides |-> csr[r]] /\ Basics
  BY DEF BuilderInv, Basics
<1>2. csr'["out"] = o /\ csr'["in"] = i /\ csr' = [r \in Sides |-> csr'[r]]
  BY <1>1 DEF Sides
<1>3. Basics'
  <2>1. \A n \in DOMAIN offsets' : offsets'[n] \in Nat
    BY <1>1 DEF Basics
  <2>2. stage' \in Stages
    BY DEF Stages
  <2> QED
    BY <1>1, <1>2, <2>1, <2>2, BasicsStay
<1>4. BuiltInv'
  <2>1. GraphHolds(o, "out")' /\ GraphHolds(i, "in")'
    BY SameInput
  <2> QED
    BY <1>2, <2>1 DEF BuiltInv
<1> QED
  BY <1>3, <1>4
     DEF BuilderInv, BeginInv, CopyInv, SquishInv, CountInv, InvertInv, SpreadInv, AddInv

LEMMA GivenBothWays ==
  ASSUME input.symmetrize, NEW n, NEW m
  PROVE  Given(m, n) = Given(n, m)
<1>1. \A j : (\/ input.el[j].u = m /\ input.el[j].v = n
              \/ input.symmetrize /\ input.el[j].u = n /\ input.el[j].v = m)
             <=> (\/ input.el[j].u = n /\ input.el[j].v = m
                  \/ input.symmetrize /\ input.el[j].u = m /\ input.el[j].v = n)
  OBVIOUS
<1> QED
  BY <1>1 DEF Given

\* The one CSR of an undirected graph serves both directions.
LEMMA BothDirections ==
  ASSUME InputOK, input.symmetrize, NEW g, GraphHolds(g, "out")
  PROVE  GraphHolds(g, "in")
<1>1. \A n, m : Weights("in", n, m) = Weights("out", n, m)
  BY GivenBothWays DEF Weights
<1>2. \A l, n : ListHolds(l, "out", n) => ListHolds(l, "in", n)
  BY <1>1 DEF ListHolds
<1> QED
  BY <1>2 DEF GraphHolds

LEMMA SquishKeeps ==
  ASSUME BuilderInv, SquishGraph
  PROVE  BuilderInv'
<1>1. PICK o : o = SquishCSR(csr["out"])
  OBVIOUS
<1>2. PICK i : i = IF input.symmetrize THEN o ELSE SquishCSR(csr["in"])
  OBVIOUS
<1>3. /\ stage = "squish" /\ stage' = "built" /\ csr' = [csr EXCEPT !["out"] = o, !["in"] = i]
      /\ UNCHANGED <<input, numNodes, todo, thread, side, offsets>>
  BY <1>1, <1>2 DEF SquishGraph
<1>4. InputOK /\ Filled(csr["out"], "out") /\ (~input.symmetrize => Filled(csr["in"], "in"))
  BY <1>3 DEF BuilderInv, Basics, SquishInv
<1>5. GraphHolds(o, "out")
  <2>1. PICK g : g = csr["out"]
    OBVIOUS
  <2>2. Filled(g, "out") /\ o = SquishCSR(g)
    BY <1>1, <1>4, <2>1
  <2> QED
    BY <1>4, <2>2, SquishCSRHolds
<1>6. GraphHolds(i, "in")
  <2>1. CASE input.symmetrize
    BY <1>2, <1>4, <1>5, <2>1, BothDirections
  <2>2. CASE ~input.symmetrize
    <3>1. PICK g : g = csr["in"]
      OBVIOUS
    <3>2. Filled(g, "in") /\ i = SquishCSR(g)
      BY <1>2, <1>4, <2>2, <3>1
    <3> QED
      BY <1>4, <3>2, SquishCSRHolds
  <2> QED
    BY <2>1, <2>2
<1> QED
  BY <1>3, <1>5, <1>6, Finishes

LEMMA OverwriteKeeps ==
  ASSUME BuilderInv, OverwriteEdges
  PROVE  BuilderInv'
<1>1. /\ stage = "begin" /\ input.inPlace
      /\ stage' = IF input.symmetrize THEN "count" ELSE "invert"
      /\ needed' = CountDegrees(Arcs, TRUE)
      /\ UNCHANGED <<input, numNodes, todo, thread, side, csr>>
  BY DEF OverwriteEdges, Arcs
<1>2. Basics /\ InputOK /\ csr = [r \in Sides |-> csr[r]]
  BY DEF BuilderInv, Basics
<1>3. Laid(Arcs, offsets', neighs')
  BY <1>2, OverwriteLays
<1>4. offsets' \in [0 .. numNodes -> Nat]
  BY <1>3 DEF Laid, IsPrefixSum
<1>5. Basics'
  <2>1. stage' \in Stages
    BY <1>1 DEF Stages
  <2>2. csr' = [r \in Sides |-> csr'[r]]
    BY <1>1, <1>2
  <2>3. \A n \in DOMAIN offsets' : offsets'[n] \in Nat
    BY <1>4
  <2> QED
    BY <1>1, <1>2, <2>1, <2>2, <2>3, BasicsStay
<1>6. PICK r : r = Arcs
  OBVIOUS
<1>7. Arcs' = r
  BY <1>1, <1>6, SameInput
<1>8. Laid(Arcs, offsets, neighs)'
  <2>1. PICK start : start = offsets'
    OBVIOUS
  <2>2. PICK cell : cell = neighs'
    OBVIOUS
  <2>3. Laid(r, start, cell)
    BY <1>3, <1>6, <2>1, <2>2
  <2>4. Laid(r, start, cell)'
    BY <1>1, <2>3, SameInput
  <2> QED
    BY <1>7, <2>1, <2>2, <2>4
<1>9. CountInv'
  BY <1>1, <1>8 DEF CountInv
<1>10. InvertInv'
  <2> SUFFICES ASSUME stage' = "invert" PROVE InvertInv'
    BY DEF InvertInv
  <2>1. ~input.symmetrize
    BY <1>1
  <2>2. SquishedArcs(r)
    BY <1>2, <1>6, SquishedListHolds DEF Arcs
  <2>3. needed' = Counted(Targets(r), 1 .. Len(r))
    BY <1>1, <1>2, <1>6, <2>1, <2>2, TargetsCounted
  <2>4. PICK f, D : f = Targets(r) /\ D = 1 .. Len(r)
    OBVIOUS
  <2>5. Counted(f, D)' = Counted(f, D)
    BY <1>1, SameInput
  <2>6. needed' = Counted(Targets(Arcs), 1 .. Len(Arcs))'
    BY <1>7, <2>3, <2>4, <2>5
  <2> QED
    BY <1>1, <1>8, <2>1, <2>6 DEF InvertInv
<1> QED
  BY <1>1, <1>5, <1>9, <1>10
     DEF BuilderInv, BeginInv, CopyInv, SquishInv, SpreadInv, AddInv, BuiltInv, Graphed

LEMMA InvertKeeps ==
  ASSUME BuilderInv, InvertInPlace
  PROVE  BuilderInv'
<1>1. PICK o : o = Finished(offsets, neighs)
  OBVIOUS
<1>2. PICK i : i = Inverted
  OBVIOUS
<1>3. /\ stage = "invert" /\ stage' = "built" /\ csr' = [csr EXCEPT !["out"] = o, !["in"] = i]
      /\ UNCHANGED <<input, numNodes, todo, thread, side, offsets>>
  BY <1>1, <1>2 DEF InvertInPlace
<1>4. /\ InputOK /\ input.inPlace /\ ~input.symmetrize /\ Laid(Arcs, offsets, neighs)
      /\ needed = Counted(Targets(Arcs), 1 .. Len(Arcs))
  BY <1>3 DEF BuilderInv, Basics, InvertInv
<1>5. GraphHolds(o, "out")
  BY <1>1, <1>4, InPlaceOut
<1>6. GraphHolds(i, "in")
  BY <1>2, <1>4, InPlaceIn
<1> QED
  BY <1>3, <1>5, <1>6, Finishes

LEMMA CountKeeps ==
  ASSUME BuilderInv, CountInverses
  PROVE  BuilderInv'
<1>1. /\ stage = "count" /\ stage' = "spread"
      /\ UNCHANGED <<input, numNodes, todo, thread, side, csr>>
  BY DEF CountInverses
<1>2. /\ Basics /\ InputOK /\ csr = [r \in Sides |-> csr[r]]
      /\ input.inPlace /\ input.symmetrize /\ Laid(Arcs, offsets, neighs)
  BY <1>1 DEF BuilderInv, Basics, CountInv
<1>3. PICK start, R : Widened(start, R)'
  BY <1>1, <1>2, CountStep
<1>4. Basics'
  <2>1. \A n \in DOMAIN offsets' : offsets'[n] \in Nat
    BY <1>3 DEF Widened
  <2>2. csr' = [r \in Sides |-> csr'[r]]
    BY <1>1, <1>2
  <2>3. stage' \in Stages
    BY <1>1 DEF Stages
  <2> QED
    BY <1>1, <1>2, <2>1, <2>2, <2>3, BasicsStay
<1>5. SpreadInv'
  BY <1>1, <1>2, <1>3 DEF SpreadInv
<1> QED
  BY <1>1, <1>4, <1>5
     DEF BuilderInv, BeginInv, CopyInv, SquishInv, CountInv, InvertInv, AddInv, BuiltInv, Graphed

LEMMA ReallocFailsKeeps ==
  ASSUME BuilderInv, ReallocFails
  PROVE  BuilderInv'
<1>1. /\ stage = "count" /\ stage' = "exited"
      /\ UNCHANGED <<input, numNodes, todo, thread, side, offsets, csr>>
  BY DEF ReallocFails
<1>2. Basics /\ csr = [r \in Sides |-> csr[r]]
  BY DEF BuilderInv, Basics
<1>3. Basics'
  <2>1. \A n \in DOMAIN offsets' : offsets'[n] \in Nat
    BY <1>1, <1>2 DEF Basics
  <2>2. csr' = [r \in Sides |-> csr'[r]]
    BY <1>1, <1>2
  <2>3. stage' \in Stages
    BY <1>1 DEF Stages
  <2> QED
    BY <1>1, <1>2, <2>1, <2>2, <2>3, BasicsStay
<1> QED
  BY <1>1, <1>3
     DEF BuilderInv, BeginInv, CopyInv, SquishInv, CountInv, InvertInv, SpreadInv, AddInv,
         BuiltInv, Graphed

LEMMA SpreadKeeps ==
  ASSUME BuilderInv, Spread
  PROVE  BuilderInv'
<1>1. /\ stage = "spread" /\ stage' = "add"
      /\ UNCHANGED <<input, numNodes, todo, thread, side, offsets, csr>>
  BY DEF Spread
<1>2. /\ Basics /\ InputOK /\ csr = [r \in Sides |-> csr[r]]
      /\ input.inPlace /\ input.symmetrize /\ \E start, R : Widened(start, R)
  BY <1>1 DEF BuilderInv, Basics, SpreadInv
<1>3. PICK start, R : Widened(start, R)
  BY <1>2
<1>4. PICK d : Roomy(d)'
  BY <1>1, <1>2, <1>3, SpreadStep
<1>5. Basics'
  <2>1. \A n \in DOMAIN offsets' : offsets'[n] \in Nat
    BY <1>1, <1>2 DEF Basics
  <2>2. csr' = [r \in Sides |-> csr'[r]]
    BY <1>1, <1>2
  <2>3. stage' \in Stages
    BY <1>1 DEF Stages
  <2> QED
    BY <1>1, <1>2, <2>1, <2>2, <2>3, BasicsStay
<1>6. AddInv'
  BY <1>1, <1>2, <1>4 DEF AddInv
<1> QED
  BY <1>1, <1>5, <1>6
     DEF BuilderInv, BeginInv, CopyInv, SquishInv, CountInv, InvertInv, SpreadInv, BuiltInv, Graphed

LEMMA AddKeeps ==
  ASSUME BuilderInv, AddInverses
  PROVE  BuilderInv'
<1>1. PICK g : g = Finished(offsets, Adding)
  OBVIOUS
<1>2. PICK h : h = [g EXCEPT !.neighs = Layout([n \in Vertex |-> SortedList(Neigh(g, n))]).neighs]
  OBVIOUS
<1>3. /\ stage = "add" /\ stage' = "built" /\ csr' = [csr EXCEPT !["out"] = h, !["in"] = h]
      /\ UNCHANGED <<input, numNodes, todo, thread, side, offsets>>
  BY <1>1, <1>2 DEF AddInverses
<1>4. InputOK /\ input.inPlace /\ input.symmetrize /\ \E d : Roomy(d)
  BY <1>3 DEF BuilderInv, Basics, AddInv
<1>5. PICK d : Roomy(d)
  BY <1>4
<1>6. \A s \in Sides : GraphHolds(h, s)
  BY <1>1, <1>2, <1>4, <1>5, InPlaceBoth
<1>7. GraphHolds(h, "out") /\ GraphHolds(h, "in")
  BY <1>6 DEF Sides
<1> QED
  BY <1>3, <1>7, Finishes

LEMMA HybridKeeps ==
  ASSUME BuilderInv, Hybrid
  PROVE  BuilderInv'
<1>1. /\ stage = "built" /\ stage' = "counted"
      /\ UNCHANGED <<input, numNodes, todo, thread, side, offsets, csr>>
  BY DEF Hybrid
<1>2. Basics /\ csr = [r \in Sides |-> csr[r]] /\ GraphHolds(csr["out"], "out") /\ GraphHolds(csr["in"], "in")
  BY <1>1 DEF BuilderInv, Basics, BuiltInv, Graphed
<1>3. Basics'
  <2>1. \A n \in DOMAIN offsets' : offsets'[n] \in Nat
    BY <1>1, <1>2 DEF Basics
  <2>2. csr' = [r \in Sides |-> csr'[r]]
    BY <1>1, <1>2
  <2>3. stage' \in Stages
    BY <1>1 DEF Stages
  <2> QED
    BY <1>1, <1>2, <2>1, <2>2, <2>3, BasicsStay
<1>4. BuiltInv'
  <2>1. PICK o : o = csr["out"]
    OBVIOUS
  <2>2. PICK i : i = csr["in"]
    OBVIOUS
  <2>3. GraphHolds(o, "out")' /\ GraphHolds(i, "in")'
    BY <1>1, <1>2, <2>1, <2>2, SameInput
  <2> QED
    BY <1>1, <2>1, <2>2, <2>3 DEF BuiltInv
<1> QED
  BY <1>1, <1>3, <1>4
     DEF BuilderInv, BeginInv, CopyInv, SquishInv, CountInv, InvertInv, SpreadInv, AddInv

LEMMA StutterKeeps ==
  BuilderInv /\ UNCHANGED builderVars => BuilderInv'
<1> SUFFICES ASSUME BuilderInv, UNCHANGED builderVars PROVE BuilderInv'
  OBVIOUS
<1>1. UNCHANGED <<input, numNodes, stage, todo, thread, side, offsets, neighs, needed, csr, triangles>>
  BY DEF builderVars
<1>2. /\ stage' = stage /\ todo' = todo /\ thread' = thread /\ side' = side /\ offsets' = offsets
      /\ neighs' = neighs /\ needed' = needed /\ csr' = csr /\ input' = input /\ numNodes' = numNodes
  BY <1>1
<1>3. /\ \A g, s : GraphHolds(g, s)' <=> GraphHolds(g, s)
      /\ \A g, s : Filled(g, s)' <=> Filled(g, s)
      /\ \A f, D : Counted(f, D)' = Counted(f, D)
      /\ Vertex' = Vertex /\ Arcs' = Arcs /\ (InputOK' <=> InputOK)
  BY <1>2, SameInput
<1>4. Basics'
  BY <1>2, <1>3 DEF BuilderInv, Basics
<1>5. BeginInv' /\ SquishInv' /\ BuiltInv'
  BY <1>2, <1>3 DEF BuilderInv, BeginInv, SquishInv, BuiltInv, Graphed
<1>6. Laid(Arcs, offsets, neighs)' <=> Laid(Arcs, offsets, neighs)
  BY <1>2, <1>3 DEF Laid, Counted, IsPrefixSum
<1>7. CountInv' /\ InvertInv'
  BY <1>2, <1>3, <1>6 DEF BuilderInv, CountInv, InvertInv
<1>8. CopyInv'
  <2> SUFFICES ASSUME stage = "copy" PROVE CopyInv'
    BY <1>2 DEF CopyInv
  <2>1. CopyTypes /\ CopySides /\ \E U, cur, place : Copying(U, cur, place)
    BY DEF BuilderInv, CopyInv
  <2>2. PICK U, cur, place : Copying(U, cur, place)
    BY <2>1
  <2>3. /\ Tokens' = Tokens /\ Degrees' = Degrees /\ Start' = Start
        /\ \A x : Entry(x)' = Entry(x)
        /\ \A e : Entries(e)' = Entries(e)
        /\ \A n : TokensOf(n)' = TokensOf(n)
    BY <1>2, SameTokens DEF Start
  <2>4. CopyTypes'
    BY <1>2, <1>3, <2>1, <2>3 DEF CopyTypes, IsPrefixSum
  <2>5. Copying(U, cur, place)'
    <3>1. \A th, c : CopyThread(th, c, U, place)' <=> CopyThread(th, c, U, place)
      BY <1>2, <2>3 DEF CopyThread
    <3>2. \A n \in Vertex : (offsets[n] = Start[n] + Cardinality(TokensOf(n) \ U))'
      <4> TAKE n \in Vertex
      <4>1. offsets[n] = Start[n] + Cardinality(TokensOf(n) \ U)
        BY <2>2 DEF Copying
      <4> QED
        BY <1>2, <2>3, <4>1
    <3>3. (/\ U \subseteq Tokens
           /\ \A x \in Tokens : x[1] \in todo => x \in U
           /\ \A x \in U : x[1] \in todo \/ \E t \in Threads : thread[t] # Idle /\ cur[t][1] = x[1]
           /\ \A s, t \in Threads : s # t /\ thread[s] # Idle /\ thread[t] # Idle => cur[s][1] # cur[t][1])'
      BY <1>2, <2>2, <2>3 DEF Copying
    <3>4. (/\ \A x \in Tokens \ U : place[x] \in Start[Entry(x).of] .. offsets[Entry(x).of] - 1
           /\ \A x, y \in Tokens \ U : place[x] = place[y] => x = y)'
      BY <1>2, <2>2, <2>3 DEF Copying
    <3>5. (\A x \in Tokens \ U : \/ neighs[place[x]] = Entry(x).dest
                                \/ \E t \in Threads : thread[t] # Idle /\ thread[t].at = "store" /\ cur[t] = x)'
      BY <1>2, <2>2, <2>3 DEF Copying
    <3>6. (\A t \in Threads : CopyThread(thread[t], cur[t], U, place))'
      BY <1>2, <2>2, <3>1 DEF Copying
    <3> QED
      BY <1>3, <3>2, <3>3, <3>4, <3>5, <3>6 DEF Copying
  <2>6. CopySides'
    BY <1>2, <1>3, <2>1 DEF CopySides
  <2> QED
    BY <2>4, <2>5, <2>6 DEF CopyInv
<1>9. Missing' = Missing
  BY <1>2, <1>3 DEF Missing, Lackers, IsArc
<1>10. SpreadInv'
  <2> SUFFICES ASSUME stage = "spread" PROVE SpreadInv'
    BY <1>2 DEF SpreadInv
  <2>1. PICK start, R : Widened(start, R)
    BY DEF BuilderInv, SpreadInv
  <2>2. Widened(start, R)'
    BY <1>2, <1>3, <1>9, <2>1 DEF Widened, Laid, Counted, IsPrefixSum
  <2> QED
    BY <1>2, <2>2 DEF BuilderInv, SpreadInv
<1>11. AddInv'
  <2> SUFFICES ASSUME stage = "add" PROVE AddInv'
    BY <1>2 DEF AddInv
  <2>1. PICK d : Roomy(d)
    BY DEF BuilderInv, AddInv
  <2>2. Roomy(d)'
    <3>1. \A cell, lo, hi, n : ArcList(cell, lo, hi, n)' <=> ArcList(cell, lo, hi, n)
      BY <1>2, <1>3 DEF ArcList, IsArc
    <3>2. \A n : Mid(n)' = Mid(n)
      BY <1>2 DEF Mid
    <3>3. (\A n \in Vertex : ArcList(neighs, Mid(n), offsets[n + 1], n))'
      BY <1>2, <1>3, <2>1, <3>1, <3>2 DEF Roomy
    <3>4. (IsPrefixSum(offsets, d) /\ \A n \in Vertex : d[n] \in Nat /\ needed[n] <= d[n])'
      BY <1>2, <1>3, <2>1 DEF Roomy, IsPrefixSum
    <3>5. (needed = Missing /\ neighs = [p \in 0 .. offsets[numNodes] - 1 |-> neighs[p]])'
      BY <1>2, <1>9, <2>1 DEF Roomy
    <3> QED
      BY <3>3, <3>4, <3>5 DEF Roomy
  <2> QED
    BY <1>2, <2>2 DEF BuilderInv, AddInv
<1> QED
  BY <1>4, <1>5, <1>7, <1>8, <1>10, <1>11 DEF BuilderInv

\* Every step keeps the inductive invariant.
LEMMA NextKeeps ==
  BuilderInv /\ [Next]_builderVars => BuilderInv'
<1> SUFFICES ASSUME BuilderInv, [Next]_builderVars PROVE BuilderInv'
  OBVIOUS
<1>1. CASE MakeCSR
  BY <1>1, MakeKeeps
<1>2. ASSUME NEW t \in Threads, NEW k \in todo, TakeEdge(t, k) PROVE BuilderInv'
  BY <1>2, TakeKeeps
<1>3. ASSUME NEW t \in Threads, ClaimPlace(t) PROVE BuilderInv'
  BY <1>3, ClaimKeeps
<1>4. ASSUME NEW t \in Threads, Store(t) PROVE BuilderInv'
  BY <1>4, StoreKeeps
<1>5. CASE EndCopy
  BY <1>5, EndCopyKeeps
<1>6. CASE SquishGraph
  BY <1>6, SquishKeeps
<1>7. CASE OverwriteEdges
  BY <1>7, OverwriteKeeps
<1>8. CASE InvertInPlace
  BY <1>8, InvertKeeps
<1>9. CASE CountInverses
  BY <1>9, CountKeeps
<1>10. CASE Spread
  BY <1>10, SpreadKeeps
<1>11. CASE AddInverses
  BY <1>11, AddKeeps
<1>12. CASE Hybrid
  BY <1>12, HybridKeeps
<1>13. CASE ReallocFails
  BY <1>13, ReallocFailsKeeps
<1>14. CASE Terminated \/ UNCHANGED builderVars
  BY <1>14, StutterKeeps DEF Terminated
<1> QED
  BY <1>1, <1>2, <1>3, <1>4, <1>5, <1>6, <1>7, <1>8, <1>9, <1>10, <1>11, <1>12, <1>13, <1>14
     DEF Next

\* Every state of the builder satisfies the inductive invariant
\* (builder.h:116-318).
THEOREM BuilderInvHolds == Spec => []BuilderInv
BY InitInv, NextKeeps, PTL DEF Spec

LEMMA InvGivesTypes ==
  BuilderInv => TypeOK
<1> SUFFICES ASSUME BuilderInv PROVE TypeOK
  OBVIOUS
<1>1. Basics
  BY DEF BuilderInv
<1>2. numNodes \in Nat \ {0}
  BY <1>1, InputFacts DEF Basics
<1>3. ASSUME NEW t \in Threads, thread[t].at = "store" PROVE thread[t].place \in DOMAIN neighs
  <2>1. thread[t] # Idle
    BY <1>3 DEF Idle
  <2>2. stage = "copy"
    BY <1>1, <2>1 DEF Basics
  <2>3. CopyTypes /\ \E U, cur, place : Copying(U, cur, place)
    BY <2>2 DEF BuilderInv, CopyInv
  <2>4. PICK U, cur, place : Copying(U, cur, place)
    BY <2>3
  <2>5. CopyThread(thread[t], cur[t], U, place)
    BY <2>4 DEF Copying
  <2>6. cur[t] \in Tokens \ U /\ thread[t].place = place[cur[t]]
    BY <1>3, <2>1, <2>5 DEF CopyThread
  <2>7. place[cur[t]] \in DOMAIN neighs
    BY <2>3, <2>4, <2>6, PlaceInside
  <2> QED
    BY <2>6, <2>7
<1> QED
  BY <1>1, <1>2, <1>3 DEF TypeOK, Basics, Stages, Sides

\* TypeOK holds of every input, thread count and block size: in particular no
\* thread stores outside neighs (builder.h:310-313).
THEOREM BuilderTypesHold == Spec => []TypeOK
BY BuilderInvHolds, InvGivesTypes, PTL

LEMMA InvGivesGraph ==
  BuilderInv => GraphAsGiven
<1> SUFFICES ASSUME BuilderInv, Graphed PROVE GraphAsGiven
  BY DEF GraphAsGiven
<1>1. InputOK
  BY DEF BuilderInv, Basics
<1>2. PICK o : o = csr["out"]
  OBVIOUS
<1>3. PICK i : i = csr["in"]
  OBVIOUS
<1>4. GraphHolds(o, "out") /\ GraphHolds(i, "in")
  BY <1>2, <1>3 DEF BuilderInv, BuiltInv
<1>5. ASSUME NEW s \in Sides, NEW g, GraphHolds(g, s), NEW n \in Vertex, NEW l, l = Neigh(g, n)
      PROVE  /\ \A k \in DOMAIN l : k > 1 => l[k - 1].v < l[k].v
             /\ {l[k].v : k \in DOMAIN l} = {m \in Vertex \ {n} : Weights(s, n, m) # {}}
             /\ \A k \in DOMAIN l : l[k].w = Least(Weights(s, n, l[k].v))
  <2>1. ListHolds(l, s, n)
    BY <1>5 DEF GraphHolds
  <2>2. DOMAIN l = 1 .. Len(l) /\ Len(l) \in Nat
    BY <2>1 DEF ListHolds
  <2>3. ASSUME NEW k \in DOMAIN l, k > 1 PROVE l[k - 1].v < l[k].v
    <3>1. k - 1 \in 1 .. Len(l) /\ k \in 1 .. Len(l) /\ k - 1 < k
      BY <2>2, <2>3
    <3> QED
      BY <2>1, <3>1 DEF ListHolds
  <2> QED
    BY <2>1, <2>2, <2>3 DEF ListHolds
<1>6. ASSUME NEW n \in Vertex PROVE Holds(o, n, LAMBDA m : Given(n, m))
  <2>1. \A m : Weights("out", n, m) = Given(n, m)
    BY DEF Weights
  <2>2. PICK l : l = Neigh(o, n)
    OBVIOUS
  <2>3. /\ \A k \in DOMAIN l : k > 1 => l[k - 1].v < l[k].v
        /\ {l[k].v : k \in DOMAIN l} = {m \in Vertex \ {n} : Given(n, m) # {}}
        /\ \A k \in DOMAIN l : l[k].w = Least(Given(n, l[k].v))
    BY <1>4, <1>5, <2>1, <2>2 DEF Sides
  <2> QED
    BY <2>2, <2>3 DEF Holds
<1>7. ASSUME NEW n \in Vertex PROVE Holds(i, n, LAMBDA m : Given(m, n))
  <2>1. \A m : Weights("in", n, m) = Given(m, n)
    BY DEF Weights
  <2>2. PICK l : l = Neigh(i, n)
    OBVIOUS
  <2>3. /\ \A k \in DOMAIN l : k > 1 => l[k - 1].v < l[k].v
        /\ {l[k].v : k \in DOMAIN l} = {m \in Vertex \ {n} : Given(m, n) # {}}
        /\ \A k \in DOMAIN l : l[k].w = Least(Given(l[k].v, n))
    BY <1>4, <1>5, <2>1, <2>2 DEF Sides
  <2> QED
    BY <2>2, <2>3 DEF Holds
<1>8. IF input.symmetrize THEN 2 * (o.index[numNodes] \div 2) = o.index[numNodes]
      ELSE i.index[numNodes] = o.index[numNodes]
  BY <1>1, <1>4, EntriesBothWays, EntriesEven
<1> QED
  BY <1>2, <1>3, <1>6, <1>7, <1>8 DEF GraphAsGiven

\* Whichever way it is built, the graph is the one the list gives, for every
\* list, block size and number of threads in any order (builder.h:141-170,
\* 211-212, 261-299).
THEOREM GraphsAsGiven == Spec => []GraphAsGiven
BY BuilderInvHolds, InvGivesGraph, PTL

-----------------------------------------------------------------------------
(* Triangles. E are the pairs of neighbours of a graph whose lists are     *)
(* sorted.                                                                 *)
Lined(g, E) ==
  /\ IsGraph(g)
  /\ \A n \in Vertex : \A p \in Span(g, n) : g.neighs[p].v \in Vertex /\ <<n, g.neighs[p].v>> \in E
  /\ \A n \in Vertex : \A p, q \in Span(g, n) : p < q => g.neighs[p].v < g.neighs[q].v
  /\ \A n, m \in Vertex : <<n, m>> \in E => \E p \in Span(g, n) : g.neighs[p].v = m

\* The loops stop at the first neighbour that is too large, and so go through
\* those that are not (tc.cc:57, 60).
LEMMA LeadingTargets ==
  ASSUME numNodes \in Nat \ {0}, NEW g, NEW E, Lined(g, E), NEW u \in Vertex, NEW x \in Vertex
  PROVE  \A m : (\E p \in Leading(g, u, x) : g.neighs[p].v = m)
                  <=> m \in Vertex /\ <<u, m>> \in E /\ m <= x
<1>1. PICK S : S = Span(g, u)
  OBVIOUS
<1>2. S \subseteq Int
  <2>1. g.index[u] \in Int /\ g.index[u + 1] \in Int
    BY SpanInside DEF Lined
  <2> QED
    BY <1>1, <2>1 DEF Span
<1>3. /\ \A p \in S : g.neighs[p].v \in Vertex /\ <<u, g.neighs[p].v>> \in E
      /\ \A p, q \in S : p < q => g.neighs[p].v < g.neighs[q].v
      /\ \A m \in Vertex : <<u, m>> \in E => \E p \in S : g.neighs[p].v = m
  BY <1>1 DEF Lined
<1>4. Vertex \subseteq Int
  BY DEF Vertex
<1>5. \A p : p \in Leading(g, u, x) <=> p \in S /\ \A q \in S : q <= p => g.neighs[q].v <= x
  BY <1>1 DEF Leading
<1>6. ASSUME NEW p \in S
      PROVE  p \in Leading(g, u, x) <=> g.neighs[p].v <= x
  <2>1. ASSUME p \in Leading(g, u, x) PROVE g.neighs[p].v <= x
    BY <1>2, <1>5, <2>1
  <2>2. ASSUME g.neighs[p].v <= x, NEW q \in S, q <= p PROVE g.neighs[q].v <= x
    <3>1. q = p \/ q < p
      BY <1>2, <2>2
    <3>2. q = p \/ g.neighs[q].v < g.neighs[p].v
      BY <1>3, <3>1
    <3>3. g.neighs[q].v \in Int /\ g.neighs[p].v \in Int /\ x \in Int
      BY <1>3, <1>4
    <3> QED
      BY <2>2, <3>2, <3>3
  <2> QED
    BY <1>5, <2>1, <2>2
<1> QED
  BY <1>3, <1>5, <1>6

\* The search for w ends inside the list when there is a larger neighbour,
\* and finds it exactly when it is there (tc.cc:61-64).
LEMMA PlaceFound ==
  ASSUME numNodes \in Nat \ {0}, NEW g, NEW E, Lined(g, E), NEW v \in Vertex, NEW w \in Vertex,
         NEW m \in Vertex, <<v, m>> \in E, w <= m
  PROVE  /\ PlaceOf(g, v, w) \in Span(g, v) /\ PlaceOf(g, v, w) < g.index[numNodes]
         /\ g.neighs[PlaceOf(g, v, w)].v = w <=> <<v, w>> \in E
<1>1. PICK lo, hi, end : lo = g.index[v] /\ hi = g.index[v + 1] /\ end = g.index[numNodes]
  OBVIOUS
<1>2. lo \in Nat /\ hi \in Nat /\ end \in Nat /\ hi <= end
  BY <1>1, SpanInside DEF Lined
<1>3. PICK S : S = lo .. hi - 1
  OBVIOUS
<1>4. S = Span(g, v)
  BY <1>1, <1>3 DEF Span
<1>5. PICK a : a = [p \in lo .. end - 1 |-> g.neighs[p].v]
  OBVIOUS
<1>6. \A p \in lo .. end - 1 : a[p] = g.neighs[p].v
  BY <1>5
<1>7. S \subseteq lo .. end - 1 /\ S \subseteq Int
  BY <1>2, <1>3
<1>8. /\ \A p \in S : a[p] \in Int /\ a[p] \in Vertex /\ <<v, a[p]>> \in E
      /\ \A p, q \in S : p < q => a[p] < a[q]
      /\ \A n \in Vertex : <<v, n>> \in E => \E p \in S : a[p] = n
  <2>1. \A p \in S : a[p] = g.neighs[p].v
    BY <1>6, <1>7
  <2>2. \A p \in S : a[p] \in Vertex /\ <<v, a[p]>> \in E
    BY <1>4, <2>1 DEF Lined
  <2>3. \A p, q \in S : p < q => a[p] < a[q]
    BY <1>4, <2>1 DEF Lined
  <2>4. \A n \in Vertex : <<v, n>> \in E => \E p \in S : a[p] = n
    BY <1>4, <2>1 DEF Lined
  <2>5. \A p \in S : a[p] \in Int
    <3>1. \A n \in Vertex : n \in Int
      BY DEF Vertex
    <3> QED
      BY ONLY <2>2, <3>1
  <2> QED
    BY <2>2, <2>3, <2>4, <2>5
<1>9. w \in Int /\ m \in Int
  BY DEF Vertex
<1>10. PICK A : A = {p \in S : a[p] >= w}
  OBVIOUS
<1>11. A # {} /\ IsFiniteSet(A) /\ A \subseteq Int
  <2>1. IsFiniteSet(S)
    BY <1>2, <1>3, FS_Interval
  <2>2. A \subseteq S
    BY <1>10
  <2>3. \E p \in S : a[p] = m
    BY <1>8
  <2> QED
    BY <1>7, <1>9, <1>10, <2>1, <2>2, <2>3, FS_Subset
<1>12. PICK p \in A : \A q \in A : p <= q
  BY <1>11, SmallestNumber
<1>13. p \in S /\ a[p] >= w /\ p \in Int /\ lo <= p /\ p < hi /\ p < end
  BY <1>2, <1>3, <1>7, <1>10
<1>14. PICK C : C = {q \in lo .. end - 1 : a[q] >= w} \cup {end}
  OBVIOUS
<1>15. p \in C /\ C \subseteq Int
  BY <1>2, <1>7, <1>13, <1>14
<1>16. ASSUME NEW q \in C PROVE p <= q
  <2>1. CASE q = end
    BY <1>2, <1>13, <2>1
  <2>2. CASE q # end
    <3>1. q \in lo .. end - 1 /\ a[q] >= w
      BY <1>14, <2>2
    <3>2. CASE q < hi
      <4>1. q \in S
        BY <1>2, <1>3, <3>1, <3>2
      <4> QED
        BY <1>10, <1>12, <3>1, <4>1
    <3>3. CASE ~(q < hi)
      BY <1>2, <1>13, <3>1, <3>3
    <3> QED
      BY <3>2, <3>3
  <2> QED
    BY <2>1, <2>2
<1>17. Least(C) = p
  BY <1>15, <1>16, LeastIs
<1>18. PlaceOf(g, v, w) = Least(C)
  <2>1. C = {q \in lo .. end - 1 : g.neighs[q].v >= w} \cup {end}
    BY <1>6, <1>14
  <2> QED
    BY <1>1, <2>1 DEF PlaceOf
<1>19. a[p] = w <=> <<v, w>> \in E
  <2>1. ASSUME a[p] = w PROVE <<v, w>> \in E
    BY <1>8, <1>13, <2>1
  <2>2. ASSUME <<v, w>> \in E PROVE a[p] = w
    <3>1. PICK q \in S : a[q] = w
      BY <1>8, <2>2
    <3>2. q \in A
      BY <1>9, <1>10, <3>1
    <3>3. p = q \/ p < q
      BY <1>7, <1>12, <1>13, <3>1, <3>2
    <3>4. p = q \/ a[p] < a[q]
      BY <1>8, <1>13, <3>1, <3>3
    <3>5. a[p] \in Int /\ a[p] >= w
      BY <1>8, <1>13
    <3>6. p = q => a[p] = w
      BY <3>1
    <3>7. a[p] < a[q] => FALSE
      BY <1>9, <3>1, <3>5
    <3> QED
      BY <3>4, <3>6, <3>7
  <2> QED
    BY <2>1, <2>2
<1> QED
  BY <1>1, <1>4, <1>6, <1>7, <1>13, <1>17, <1>18, <1>19

\* Below a pair u, v of neighbours, the vertices w that are neighbours of both.
LEMMA TriplesCounted ==
  ASSUME numNodes \in Nat \ {0}, NEW g, NEW E, Lined(g, E), SymmetricOn(E, Vertex),
         NEW u \in Vertex, NEW v \in Vertex, <<u, v>> \in E, v < u
  PROVE  /\ TripleCount(g, u, v).count
              = RowSize(Vertex, Falling(E, Vertex), <<u, v>>)
         /\ TripleCount(g, u, v).strays = FALSE
<1>1. PICK ws : ws = {g.neighs[p].v : p \in Leading(g, u, v)}
  OBVIOUS
<1>2. \A w : w \in ws <=> w \in Vertex /\ <<u, w>> \in E /\ w <= v
  BY <1>1, LeadingTargets
<1>3. <<v, u>> \in E /\ \A n \in Vertex : <<n, n>> \notin E
  BY DEF SymmetricOn
<1>4. Vertex \subseteq Int
  BY DEF Vertex
<1>5. ASSUME NEW w \in ws
      PROVE  /\ PlaceOf(g, v, w) \in Span(g, v)
             /\ (PlaceOf(g, v, w) < g.index[numNodes] /\ g.neighs[PlaceOf(g, v, w)].v = w) <=> <<v, w>> \in E
  <2>1. w \in Vertex /\ w <= u
    <3>1. w \in Vertex /\ w <= v
      BY <1>2
    <3>2. w \in Int /\ v \in Int /\ u \in Int
      BY <1>4, <3>1
    <3> QED
      BY <3>1, <3>2
  <2> QED
    BY <1>3, <2>1, PlaceFound
<1>6. PICK A : A = {w \in ws : PlaceOf(g, v, w) < g.index[numNodes] /\ g.neighs[PlaceOf(g, v, w)].v = w}
  OBVIOUS
<1>7. PICK B : B = {w \in Vertex : <<<<u, v>>, w>> \in Falling(E, Vertex)}
  OBVIOUS
<1>8. ASSUME NEW w \in Vertex
      PROVE  w \in B <=> <<u, w>> \in E /\ <<v, w>> \in E /\ w < v
  <2>1. PICK x : x = Corners(u, v, w)
    OBVIOUS
  <2>2. x = <<<<u, v>>, w>> /\ x[1][1] = u /\ x[1][2] = v /\ x[2] = w
    BY <2>1 DEF Corners
  <2>3. x \in Triangles(E, Vertex) <=> <<u, w>> \in E /\ <<v, w>> \in E
    BY <2>1, TriangleFacts
  <2>4. x \in Falling(E, Vertex) <=> <<u, w>> \in E /\ <<v, w>> \in E /\ w < v
    BY <2>2, <2>3 DEF Falling
  <2> QED
    BY <1>7, <2>2, <2>4
<1>9. \A w \in Vertex : <<v, w>> \in E => w # v
  BY <1>3
<1>10. \A w \in A : w \in Vertex
  BY <1>2, <1>6
<1>11. \A w \in B : w \in Vertex
  BY <1>7
<1>12. \A w \in Vertex : w \in A <=> w \in B
  <2>1. ASSUME NEW w \in A PROVE w \in B
    <3>1. w \in ws /\ <<v, w>> \in E
      BY <1>5, <1>6
    <3>2. w \in Vertex /\ <<u, w>> \in E /\ w <= v /\ w # v
      BY <1>2, <1>9, <3>1
    <3>3. w \in Int /\ v \in Int
      BY <1>4, <3>2
    <3>4. w < v
      BY <3>2, <3>3
    <3> QED
      BY <1>8, <3>1, <3>2, <3>4
  <2>2. ASSUME NEW w \in B PROVE w \in A
    <3>1. w \in Vertex /\ <<u, w>> \in E /\ <<v, w>> \in E /\ w < v
      BY <1>8, <1>11
    <3>2. w <= v
      BY <1>4, <3>1
    <3>3. w \in ws
      BY <1>2, <3>1, <3>2
    <3> QED
      BY <1>5, <1>6, <3>1, <3>3
  <2> QED
    BY <2>1, <2>2
<1>13. A = B
  BY <1>10, <1>11, <1>12
<1>14. TripleCount(g, u, v) =
         [count |-> Cardinality({w \in ws : PlaceOf(g, v, w) < g.index[numNodes]
                                              /\ g.neighs[PlaceOf(g, v, w)].v = w}),
          strays |-> \E w \in ws : PlaceOf(g, v, w) \notin Span(g, v)]
  BY <1>1 DEF TripleCount
<1>15. (\E w \in ws : PlaceOf(g, v, w) \notin Span(g, v)) = FALSE
  BY <1>5
<1>16. TripleCount(g, u, v).count = Cardinality(A)
  BY <1>6, <1>14
<1>17. TripleCount(g, u, v).strays = FALSE
  BY <1>14, <1>15
<1> QED
  BY <1>7, <1>13, <1>16, <1>17 DEF RowSize

\* OrderedCount finds each triangle by its corners in falling order, once, and
\* its searches do not leave the lists they are in (tc.cc:50-68).
LEMMA OrderedCountIs ==
  ASSUME numNodes \in Nat \ {0}, NEW g, NEW E, Lined(g, E), SymmetricOn(E, Vertex)
  PROVE  OrderedCount(g).count = Cardinality(Falling(E, Vertex)) /\ OrderedCount(g).strays = FALSE
<1>1. PICK pairs : pairs = UNION {{<<u, g.neighs[p].v>> : p \in Leading(g, u, u)} : u \in Vertex}
  OBVIOUS
<1>2. \A x : x \in pairs <=> \E u \in Vertex : \E p \in Leading(g, u, u) : x = <<u, g.neighs[p].v>>
  BY <1>1
<1>3. Vertex \subseteq Int
  BY DEF Vertex
<1>4. ASSUME NEW x \in pairs
      PROVE  x \in E /\ x = <<x[1], x[2]>> /\ x[1] \in Vertex /\ x[2] \in Vertex /\ x[2] < x[1]
  <2>1. PICK u \in Vertex : \E p \in Leading(g, u, u) : x = <<u, g.neighs[p].v>>
    BY <1>2
  <2>2. PICK v : x = <<u, v>> /\ \E p \in Leading(g, u, u) : g.neighs[p].v = v
    BY <2>1
  <2>3. v \in Vertex /\ <<u, v>> \in E /\ v <= u
    BY <2>2, LeadingTargets
  <2>4. v # u
    BY <2>3 DEF SymmetricOn
  <2>5. x = <<u, v>> /\ x[1] = u /\ x[2] = v
    BY <2>2
  <2>6. v < u
    BY <1>3, <2>3, <2>4
  <2> QED
    BY <2>3, <2>5, <2>6
<1>5. ASSUME NEW u \in Vertex, NEW v \in Vertex, <<u, v>> \in E, v < u
      PROVE  <<u, v>> \in pairs
  <2>1. v <= u
    BY <1>3, <1>5
  <2>2. \E p \in Leading(g, u, u) : g.neighs[p].v = v
    BY <1>5, <2>1, LeadingTargets
  <2> QED
    BY <1>2, <2>2
<1>6. IsFiniteSet(Vertex)
  BY VertexFinite
<1>7. IsFiniteSet(pairs)
  <2>1. IsFiniteSet(Vertex \X Vertex)
    BY <1>6, FS_Product
  <2>2. \A x \in pairs : x \in Vertex \X Vertex
    BY <1>4
  <2> QED
    BY <2>1, <2>2, FS_Subset
<1>8. PICK R : R = Falling(E, Vertex)
  OBVIOUS
<1>9. R \in SUBSET (pairs \X Vertex)
  <2>1. ASSUME NEW x \in R PROVE x \in pairs \X Vertex
    <3>1. x \in Triangles(E, Vertex) /\ x[1][2] < x[1][1]
      BY <1>8 DEF Falling
    <3>2. PICK a, b, c : x = Corners(a, b, c) /\ a = x[1][1] /\ b = x[1][2] /\ c = x[2]
      <4>1. x = Corners(x[1][1], x[1][2], x[2])
        BY <3>1, TriangleFacts
      <4> QED
        BY <4>1
    <3>3. <<a, b>> \in E /\ a \in Vertex /\ b \in Vertex /\ c \in Vertex /\ b < a
      BY <3>1, <3>2, TriangleFacts
    <3>4. <<a, b>> \in pairs
      BY <1>5, <3>3
    <3> QED
      BY <3>2, <3>3, <3>4 DEF Corners
  <2> QED
    BY <2>1
<1>10. PICK each : each = [e \in pairs |-> TripleCount(g, e[1], e[2])]
  OBVIOUS
<1>11. PICK f : f = [e \in pairs |-> each[e].count]
  OBVIOUS
<1>12. ASSUME NEW e \in pairs
       PROVE  /\ f[e] = RowSize(Vertex, R, e)
              /\ each[e].strays = FALSE
  <2>1. PICK u, v : e = <<u, v>> /\ u = e[1] /\ v = e[2]
    BY <1>4
  <2>2. u \in Vertex /\ v \in Vertex /\ <<u, v>> \in E /\ v < u
    BY <1>4, <2>1
  <2>3. each[e] = TripleCount(g, u, v) /\ f[e] = each[e].count
    BY <1>10, <1>11, <2>1
  <2>4. /\ TripleCount(g, u, v).count = RowSize(Vertex, R, <<u, v>>)
        /\ TripleCount(g, u, v).strays = FALSE
    BY ONLY <1>8, <2>2, TriplesCounted, numNodes \in Nat \ {0}, Lined(g, E), SymmetricOn(E, Vertex)
  <2> QED
    BY <2>1, <2>3, <2>4
<1>13. Cardinality(R) = SumFunctionOnSet(f, pairs)
  BY <1>6, <1>7, <1>9, <1>12, CountInRows
<1>14. OrderedCount(g) = [count |-> SumFunctionOnSet(f, pairs), strays |-> \E e \in pairs : each[e].strays]
  BY <1>1, <1>10, <1>11 DEF OrderedCount
<1>15. (\E e \in pairs : each[e].strays) = FALSE
  BY <1>12
<1>16. OrderedCount(g).count = SumFunctionOnSet(f, pairs)
  BY <1>14
<1>17. OrderedCount(g).strays = FALSE
  BY <1>14, <1>15
<1> QED
  BY <1>8, <1>13, <1>16, <1>17

\* What TCVerifier adds up are the triangles with their corners in every order
\* (tc.cc:89-112).
LEMMA VerifierCounts ==
  ASSUME numNodes \in Nat \ {0}, NEW E, SymmetricOn(E, Vertex), NEW Ends,
         \A n \in Vertex : Ends[n] = {m \in Vertex : <<n, m>> \in E},
         NEW f, \A e \in E : f[e] = Cardinality(Ends[e[1]] \cap Ends[e[2]])
  PROVE  Cardinality(Triangles(E, Vertex)) = SumFunctionOnSet(f, E)
<1>1. IsFiniteSet(Vertex)
  BY VertexFinite
<1>2. IsFiniteSet(E)
  <2>1. IsFiniteSet(Vertex \X Vertex)
    BY <1>1, FS_Product
  <2> QED
    BY <2>1, FS_Subset DEF SymmetricOn
<1>3. PICK R : R = Triangles(E, Vertex)
  OBVIOUS
<1>4. R \in SUBSET (E \X Vertex)
  BY <1>3 DEF Triangles
<1>5. ASSUME NEW e \in E PROVE f[e] = RowSize(Vertex, R, e)
  <2>1. e \in Vertex \X Vertex
    BY DEF SymmetricOn
  <2>2. PICK a \in Vertex, b \in Vertex : e = <<a, b>>
    BY <2>1
  <2>3. e[1] = a /\ e[2] = b
    BY <2>2
  <2>4. ASSUME NEW w \in Vertex PROVE <<e, w>> \in R <=> w \in Ends[a] /\ w \in Ends[b]
    <3>1. <<e, w>> = Corners(a, b, w)
      BY <2>2 DEF Corners
    <3>2. Corners(a, b, w) \in R <=> <<a, b>> \in E /\ <<a, w>> \in E /\ <<b, w>> \in E
      BY <1>3, TriangleFacts
    <3> QED
      BY <2>2, <3>1, <3>2
  <2>5. PICK A : A = {w \in Vertex : <<e, w>> \in R}
    OBVIOUS
  <2>6. A = Ends[a] \cap Ends[b]
    BY <2>4, <2>5
  <2> QED
    BY <2>3, <2>5, <2>6 DEF RowSize
<1>6. Cardinality(R) = SumFunctionOnSet(f, E)
  BY <1>1, <1>2, <1>4, <1>5, CountInRows
<1> QED
  BY <1>3, <1>6

ListLined(l, E, n) ==
  /\ l \in Seq(Neighbor)
  /\ \A i, j \in 1 .. Len(l) : i < j => l[i].v < l[j].v
  /\ \A m : (\E i \in 1 .. Len(l) : l[i].v = m) <=> m \in Vertex /\ <<n, m>> \in E

\* What is said of the lists, said of the places they are in.
LEMMA LinedFromLists ==
  ASSUME numNodes \in Nat \ {0}, NEW g, IsGraph(g), NEW E, \A n \in Vertex : ListLined(Neigh(g, n), E, n)
  PROVE  Lined(g, E)
<1>1. ASSUME NEW n \in Vertex
      PROVE  /\ \A p \in Span(g, n) : g.neighs[p].v \in Vertex /\ <<n, g.neighs[p].v>> \in E
             /\ \A p, q \in Span(g, n) : p < q => g.neighs[p].v < g.neighs[q].v
             /\ \A m \in Vertex : <<n, m>> \in E => \E p \in Span(g, n) : g.neighs[p].v = m
  <2>1. PICK lo, hi, d : lo = g.index[n] /\ hi = g.index[n + 1] /\ d = hi - lo
    OBVIOUS
  <2>2. lo \in Nat /\ hi \in Nat /\ lo <= hi /\ d \in Nat
    BY <2>1, SpanInside
  <2>3. PICK l : l = Neigh(g, n)
    OBVIOUS
  <2>4. l = [i \in 1 .. d |-> g.neighs[lo + i - 1]]
    BY <2>1, <2>3 DEF Neigh
  <2>5. ListLined(l, E, n)
    BY <2>3
  <2>6. Len(l) = d
    <3>1. l \in Seq(Neighbor) /\ DOMAIN l = 1 .. d
      BY <2>4, <2>5 DEF ListLined
    <3>2. Len(l) \in Nat /\ 1 .. Len(l) = 1 .. d
      BY <3>1
    <3> QED
      BY <2>2, <3>2
  <2>7. Span(g, n) = lo .. hi - 1
    BY <2>1 DEF Span
  <2>8. ASSUME NEW p \in lo .. hi - 1 PROVE p - lo + 1 \in 1 .. d /\ l[p - lo + 1] = g.neighs[p]
    <3>1. PICK i : i = p - lo + 1
      OBVIOUS
    <3>2. i \in 1 .. d /\ lo + i - 1 = p
      BY <2>1, <2>2, <3>1
    <3>3. l[i] = g.neighs[lo + i - 1]
      BY <2>4, <3>2
    <3> QED
      BY <3>1, <3>2, <3>3
  <2>9. ASSUME NEW p \in lo .. hi - 1 PROVE g.neighs[p].v \in Vertex /\ <<n, g.neighs[p].v>> \in E
    BY <2>5, <2>6, <2>8 DEF ListLined
  <2>10. ASSUME NEW p \in lo .. hi - 1, NEW q \in lo .. hi - 1, p < q
         PROVE  g.neighs[p].v < g.neighs[q].v
    <3>1. PICK i, j : i = p - lo + 1 /\ j = q - lo + 1
      OBVIOUS
    <3>2. i < j
      BY <2>2, <2>10, <3>1
    <3>3. i \in 1 .. d /\ j \in 1 .. d /\ l[i] = g.neighs[p] /\ l[j] = g.neighs[q]
      BY <2>8, <3>1
    <3>4. l[i].v < l[j].v
      BY <2>5, <2>6, <3>2, <3>3 DEF ListLined
    <3> QED
      BY <3>3, <3>4
  <2>11. ASSUME NEW m \in Vertex, <<n, m>> \in E PROVE \E p \in lo .. hi - 1 : g.neighs[p].v = m
    <3>1. PICK i \in 1 .. d : l[i].v = m
      BY <2>5, <2>6, <2>11 DEF ListLined
    <3>2. PICK p : p = lo + i - 1
      OBVIOUS
    <3>3. p \in lo .. hi - 1
      BY <2>1, <2>2, <3>2
    <3>4. l[i] = g.neighs[p]
      BY <2>4, <3>2
    <3> QED
      BY <3>1, <3>3, <3>4
  <2> QED
    BY <2>7, <2>9, <2>10, <2>11
<1> QED
  BY <1>1 DEF Lined

IsRenamed(r, l, f) ==
  /\ r \in Seq(Neighbor) /\ Len(r) = Len(l)
  /\ \A j \in 1 .. Len(l) : r[j].v = f[l[j].v] /\ r[j].w = 1

RenamedPairs(f, E, D) ==
  /\ f \in [Vertex -> Vertex]
  /\ \A x, y \in Vertex : f[x] = f[y] => x = y
  /\ \A n, m \in Vertex : <<f[n], m>> \in D => \E y \in Vertex : m = f[y] /\ <<n, y>> \in E
  /\ \A n, y \in Vertex : <<n, y>> \in E => <<f[n], f[y]>> \in D

\* A list whose vertices are renamed, and then sorted.
LEMMA RenamedList ==
  ASSUME numNodes \in Nat \ {0}, NEW E, NEW D, NEW n \in Vertex, NEW l, ListLined(l, E, n),
         NEW f, RenamedPairs(f, E, D), NEW r, IsRenamed(r, l, f)
  PROVE  ListLined(SortedList(r), D, f[n])
<1>1. PICK d : d = Len(l)
  OBVIOUS
<1>2. d \in Nat /\ \A j \in 1 .. d : l[j].v \in Vertex /\ <<n, l[j].v>> \in E
  BY <1>1 DEF ListLined
<1>3. \A j \in 1 .. d : r[j].v = f[l[j].v] /\ r[j].w = 1 /\ f[l[j].v] \in Vertex
  BY <1>1, <1>2 DEF IsRenamed, RenamedPairs
<1>4. r \in Seq(Neighbor) /\ Len(r) = d
  BY <1>1 DEF IsRenamed
<1>5. ASSUME NEW j \in 1 .. d, NEW k \in 1 .. d, j # k PROVE r[j].v # r[k].v
  <2>1. j < k \/ k < j
    BY <1>2, <1>5
  <2>2. l[j].v < l[k].v \/ l[k].v < l[j].v
    BY <1>1, <2>1 DEF ListLined
  <2>3. l[j].v \in Vertex /\ l[k].v \in Vertex
    BY <1>2
  <2>4. l[j].v # l[k].v
    BY <2>2, <2>3 DEF Vertex
  <2>5. f[l[j].v] # f[l[k].v]
    BY <2>3, <2>4 DEF RenamedPairs
  <2> QED
    BY <1>3, <2>5
<1>6. PICK s : s = SortedList(r)
  OBVIOUS
<1>7. /\ s \in Seq(Neighbor) /\ Len(s) = d
      /\ {s[j] : j \in 1 .. d} = {r[j] : j \in 1 .. d}
      /\ \A j, k \in 1 .. d : j < k => ~Before(s[k], s[j])
      /\ (\A j, k \in 1 .. d : j # k => r[j] # r[k]) => \A j, k \in 1 .. d : j # k => s[j] # s[k]
  BY <1>4, <1>6, SortedListFacts
<1>8. /\ \A j \in 1 .. d : \E k \in 1 .. d : s[j] = r[k]
      /\ \A k \in 1 .. d : \E j \in 1 .. d : s[j] = r[k]
  <2>1. {s[j] : j \in 1 .. d} = {r[j] : j \in 1 .. d}
    BY <1>7
  <2> QED
    BY ONLY <2>1
<1>9. \A j, k \in 1 .. d : j # k => s[j] # s[k]
  BY <1>5, <1>7
<1>10. ASSUME NEW j \in 1 .. d, NEW k \in 1 .. d, j < k PROVE s[j].v < s[k].v
  <2>1. PICK x \in 1 .. d, y \in 1 .. d : s[j] = r[x] /\ s[k] = r[y]
    BY <1>8
  <2>2. x # y
    BY <1>2, <1>9, <1>10, <2>1
  <2>3. s[j].v # s[k].v /\ s[j].v \in Int /\ s[k].v \in Int
    <3>1. r[x].v # r[y].v
      BY <1>5, <2>2
    <3>2. r[x].v \in Vertex /\ r[y].v \in Vertex
      BY <1>3
    <3>3. r[x].v \in Int /\ r[y].v \in Int
      BY <3>2 DEF Vertex
    <3> QED
      BY <2>1, <3>1, <3>3
  <2>4. ~(s[k].v < s[j].v)
    BY <1>7, <1>10, <2>3 DEF Before
  <2> QED
    BY <2>3, <2>4
<1>11. ASSUME NEW m
       PROVE  (\E j \in 1 .. d : s[j].v = m) <=> m \in Vertex /\ <<f[n], m>> \in D
  <2>1. ASSUME NEW j \in 1 .. d, s[j].v = m PROVE m \in Vertex /\ <<f[n], m>> \in D
    <3>1. PICK k \in 1 .. d : s[j] = r[k]
      BY <1>8
    <3>2. m = f[l[k].v] /\ l[k].v \in Vertex /\ <<n, l[k].v>> \in E
      BY <1>2, <1>3, <2>1, <3>1
    <3> QED
      BY <1>3, <3>2 DEF RenamedPairs
  <2>2. ASSUME m \in Vertex, <<f[n], m>> \in D PROVE \E j \in 1 .. d : s[j].v = m
    <3>1. PICK y \in Vertex : m = f[y] /\ <<n, y>> \in E
      BY <2>2 DEF RenamedPairs
    <3>2. PICK k \in 1 .. d : l[k].v = y
      BY <1>1, <3>1 DEF ListLined
    <3>3. PICK j \in 1 .. d : s[j] = r[k]
      BY <1>8
    <3> QED
      BY <1>3, <3>1, <3>2, <3>3
  <2> QED
    BY <2>1, <2>2
<1> QED
  BY <1>6, <1>7, <1>10, <1>11 DEF ListLined

\* RelabelByDegree gives every vertex a number of its own, so that its graph
\* has the same triangles under other names (builder.h:356-389).
LEMMA RelabelLined ==
  ASSUME numNodes \in Nat \ {0}, NEW g, IsGraph(g), NEW E, SymmetricOn(E, Vertex),
         \A n \in Vertex : ListLined(Neigh(g, n), E, n)
  PROVE  \E D : /\ Lined(RelabelByDegree(g), D) /\ SymmetricOn(D, Vertex)
                /\ Cardinality(Triangles(D, Vertex)) = Cardinality(Triangles(E, Vertex))
<1> DEFINE Degree(n) == g.index[n + 1] - g.index[n]
           Earlier(m, n) == IF Degree(m) = Degree(n) THEN m > n ELSE Degree(m) > Degree(n)
           new == [n \in Vertex |-> Cardinality({m \in Vertex : Earlier(m, n)})]
           old == [i \in Vertex |-> CHOOSE n \in Vertex : new[n] = i]
           Renamed(n) == [i \in 1 .. Degree(n) |-> Dest(new[Neigh(g, n)[i].v], 1)]
           lists == [i \in Vertex |-> SortedList(Renamed(old[i]))]
<1>0. RelabelByDegree(g) = Layout(lists)
  BY DEF RelabelByDegree
<1>1. PICK deg : deg = [n \in Vertex |-> g.index[n + 1] - g.index[n]]
  OBVIOUS
<1>2. \A n \in Vertex : n \in Int /\ deg[n] \in Nat /\ deg[n] = g.index[n + 1] - g.index[n]
  <2>1. ASSUME NEW n \in Vertex PROVE n \in Int /\ deg[n] \in Nat /\ deg[n] = g.index[n + 1] - g.index[n]
    <3>1. g.index[n] \in Nat /\ g.index[n + 1] \in Nat /\ g.index[n] <= g.index[n + 1]
      BY SpanInside
    <3>2. n \in Int
      BY DEF Vertex
    <3> QED
      BY <1>1, <3>1, <3>2
  <2> QED
    BY <2>1
<1>3. PICK R : R = {x \in Vertex \X Vertex :
                      IF deg[x[1]] = deg[x[2]] THEN x[1] > x[2] ELSE deg[x[1]] > deg[x[2]]}
  OBVIOUS
<1>4. \A m, n \in Vertex : <<m, n>> \in R <=> IF deg[m] = deg[n] THEN m > n ELSE deg[m] > deg[n]
  BY <1>3
<1>5. IsOrder(R, Vertex)
  <2>1. \A x \in Vertex : <<x, x>> \notin R
    BY <1>2, <1>4
  <2>2. \A x, y \in Vertex : x # y => <<x, y>> \in R \/ <<y, x>> \in R
    BY <1>2, <1>4
  <2>3. ASSUME NEW x \in Vertex, NEW y \in Vertex, NEW z \in Vertex, <<x, y>> \in R, <<y, z>> \in R
        PROVE  <<x, z>> \in R
    BY <1>2, <1>4, <2>3
  <2> QED
    BY <2>1, <2>2, <2>3 DEF IsOrder
<1>6. IsFiniteSet(Vertex) /\ Cardinality(Vertex) = numNodes /\ Vertex \in SUBSET Int
  BY FS_Interval DEF Vertex
<1>7. ASSUME NEW n \in Vertex
      PROVE  new[n] = Cardinality({m \in Vertex : IF deg[m] = deg[n] THEN m > n ELSE deg[m] > deg[n]})
  <2>1. \A m \in Vertex : Earlier(m, n) <=> IF deg[m] = deg[n] THEN m > n ELSE deg[m] > deg[n]
    BY <1>2
  <2> HIDE DEF Earlier
  <2>2. {m \in Vertex : Earlier(m, n)}
          = {m \in Vertex : IF deg[m] = deg[n] THEN m > n ELSE deg[m] > deg[n]}
    BY <2>1
  <2>3. new[n] = Cardinality({m \in Vertex : Earlier(m, n)})
    OBVIOUS
  <2> QED
    BY <2>2, <2>3
<1>7a. DOMAIN new = Vertex /\ new = [n \in Vertex |-> new[n]]
  OBVIOUS
<1> HIDE DEF new
<1>8. ASSUME NEW n \in Vertex PROVE new[n] = Cardinality(Under(R, Vertex, n))
  <2>1. Under(R, Vertex, n) = {m \in Vertex : IF deg[m] = deg[n] THEN m > n ELSE deg[m] > deg[n]}
    BY <1>4 DEF Under
  <2> QED
    BY <1>7, <2>1
<1>9. ASSUME NEW n \in Vertex PROVE new[n] \in Vertex
  <2>1. Cardinality(Under(R, Vertex, n)) \in 0 .. Cardinality(Vertex) - 1
    BY <1>5, <1>6, UnderGrows
  <2> QED
    BY <1>6, <1>8, <2>1 DEF Vertex
<1>10. \A x, y \in Vertex : new[x] = new[y] => x = y
  BY <1>5, <1>6, <1>8, RankedOnce
<1>11. ASSUME NEW i \in Vertex PROVE \E n \in Vertex : new[n] = i
  <2>0. PICK j : j = i + 1
    OBVIOUS
  <2>1. j \in 1 .. Cardinality(Vertex) /\ j - 1 = i
    BY <1>6, <2>0 DEF Vertex
  <2>2. \E n \in Vertex : Cardinality(Under(R, Vertex, n)) = j - 1
    BY <1>5, <1>6, <2>1, Ranked
  <2> QED
    BY <1>8, <2>1, <2>2
<1>12. \A i \in Vertex : old[i] = CHOOSE n \in Vertex : new[n] = i
  OBVIOUS
<1>12a. old = [i \in Vertex |-> old[i]]
  OBVIOUS
<1> HIDE DEF old
<1>13. \A i \in Vertex : old[i] \in Vertex /\ new[old[i]] = i
  BY <1>11, <1>12
<1>14. \A n \in Vertex : old[new[n]] = n
  BY <1>9, <1>10, <1>13
<1>15. new \in [Vertex -> Vertex] /\ old \in [Vertex -> Vertex]
  BY <1>7a, <1>9, <1>12a, <1>13
<1>16. PICK D : D = {x \in Vertex \X Vertex : <<old[x[1]], old[x[2]]>> \in E}
  OBVIOUS
<1>17. /\ SymmetricOn(D, Vertex)
       /\ Cardinality(Triangles(D, Vertex)) = Cardinality(Triangles(E, Vertex))
  BY <1>6, <1>13, <1>14, <1>15, <1>16, RenamedTriangles
<1>18. RenamedPairs(new, E, D)
  <2>1. \A a, b \in Vertex : <<a, b>> \in D <=> <<old[a], old[b]>> \in E
    BY <1>16
  <2>2. ASSUME NEW n \in Vertex, NEW m \in Vertex, <<new[n], m>> \in D
        PROVE  \E y \in Vertex : m = new[y] /\ <<n, y>> \in E
    <3>1. <<old[new[n]], old[m]>> \in E
      BY <1>9, <2>1, <2>2
    <3> QED
      BY <1>13, <1>14, <3>1
  <2>3. ASSUME NEW n \in Vertex, NEW y \in Vertex, <<n, y>> \in E PROVE <<new[n], new[y]>> \in D
    BY <1>9, <1>14, <2>1, <2>3
  <2> QED
    BY <1>10, <1>15, <2>2, <2>3 DEF RenamedPairs
<1>20. ASSUME NEW n \in Vertex PROVE IsRenamed(Renamed(n), Neigh(g, n), new)
  <2>1. PICK l, d : l = Neigh(g, n) /\ d = deg[n]
    OBVIOUS
  <2>2. PICK r : r = Renamed(n)
    OBVIOUS
  <2>3. d \in Nat /\ DOMAIN l = 1 .. d
    BY <1>2, <2>1 DEF Neigh
  <2>4. ListLined(l, E, n)
    BY <2>1
  <2>5. l \in Seq(Neighbor)
    BY <2>4 DEF ListLined
  <2>6. Len(l) \in Nat /\ 1 .. Len(l) = 1 .. d
    BY <2>3, <2>5
  <2>7. Len(l) = d
    BY <2>3, <2>6
  <2>8. r = [i \in 1 .. d |-> Dest(new[l[i].v], 1)]
    BY <1>2, <2>1, <2>2
  <2>9. ASSUME NEW j \in 1 .. d PROVE r[j].v = new[l[j].v] /\ r[j].w = 1 /\ r[j] \in Neighbor
    <3>1. l[j].v \in Vertex
      BY <2>4, <2>7 DEF ListLined
    <3>2. PICK y : y = new[l[j].v]
      OBVIOUS
    <3>3. y \in Vertex
      BY <1>9, <3>1, <3>2
    <3>4. r[j] = [v |-> y, w |-> 1]
      BY <2>8, <3>2 DEF Dest
    <3> QED
      BY ONLY <3>2, <3>3, <3>4 DEF Neighbor
  <2>10. DOMAIN r = 1 .. d
    BY <2>8
  <2>11. r \in Seq(Neighbor) /\ Len(r) = d
    <3>1. r = [i \in 1 .. d |-> r[i]]
      BY <2>8
    <3>2. r \in [1 .. d -> Neighbor]
      BY ONLY <2>9, <3>1
    <3> QED
      BY ONLY <2>3, <3>2
  <2> QED
    BY <2>1, <2>2, <2>7, <2>9, <2>11 DEF IsRenamed
<1>21. \A i \in Vertex : lists[i] = SortedList(Renamed(old[i]))
  OBVIOUS
<1> HIDE DEF lists, Renamed
<1>22. ASSUME NEW i \in Vertex PROVE ListLined(lists[i], D, i)
  <2>1. PICK n : n = old[i]
    OBVIOUS
  <2>2. n \in Vertex /\ new[n] = i
    BY <1>13, <2>1
  <2>3. lists[i] = SortedList(Renamed(n))
    BY <1>21, <2>1
  <2>4. IsRenamed(Renamed(n), Neigh(g, n), new) /\ ListLined(Neigh(g, n), E, n)
    BY <1>20, <2>2
  <2>5. ListLined(SortedList(Renamed(n)), D, new[n])
    BY <1>18, <2>2, <2>4, RenamedList
  <2> QED
    BY <2>2, <2>3, <2>5
<1>23. PICK h : h = Layout(lists)
  OBVIOUS
<1>24. \A i \in Vertex : lists[i] \in Seq(Neighbor)
  BY <1>22 DEF ListLined
<1>25. IsGraph(h) /\ \A i \in Vertex : Neigh(h, i) = lists[i]
  BY <1>23, <1>24, LayoutHolds
<1>26. Lined(h, D)
  BY <1>22, <1>25, LinedFromLists
<1> QED
  BY <1>0, <1>17, <1>23, <1>26

\* The pairs of neighbours that the list gives an undirected graph.
Edges == {x \in Vertex \X Vertex : Joined("out", x[1], x[2])}

LEMMA EdgesFacts ==
  ASSUME InputOK, input.symmetrize, NEW g, GraphHolds(g, "out")
  PROVE  /\ SymmetricOn(Edges, Vertex)
         /\ \A n \in Vertex : ListLined(Neigh(g, n), Edges, n)
<1>1. \A n, m \in Vertex : <<n, m>> \in Edges <=> Joined("out", n, m)
  BY DEF Edges
<1>2. \A n, m : Joined("out", n, m) <=> m # n /\ Given(n, m) # {}
  BY DEF Joined, Weights
<1>3. \A n, m : Given(m, n) = Given(n, m)
  BY GivenBothWays
<1>4. SymmetricOn(Edges, Vertex)
  <2>1. Edges \subseteq Vertex \X Vertex
    BY DEF Edges
  <2>2. \A n \in Vertex : <<n, n>> \notin Edges
    BY <1>1, <1>2
  <2>3. \A n, m \in Vertex : <<n, m>> \in Edges => <<m, n>> \in Edges
    BY <1>1, <1>2, <1>3
  <2> QED
    BY <2>1, <2>2, <2>3 DEF SymmetricOn
<1>5. ASSUME NEW n \in Vertex PROVE ListLined(Neigh(g, n), Edges, n)
  <2>1. PICK l : l = Neigh(g, n)
    OBVIOUS
  <2>2. ListHolds(l, "out", n)
    BY <2>1 DEF GraphHolds
  <2>3. PICK M : M = {m \in Vertex \ {n} : Weights("out", n, m) # {}}
    OBVIOUS
  <2>4. \A m : m \in M <=> m \in Vertex /\ <<n, m>> \in Edges
    <3>1. \A m : m \in M <=> m \in Vertex /\ m # n /\ Weights("out", n, m) # {}
      BY <2>3
    <3>2. \A m \in Vertex : <<n, m>> \in Edges <=> m # n /\ Weights("out", n, m) # {}
      BY <1>1 DEF Joined
    <3> QED
      BY <3>1, <3>2
  <2>5. {l[i].v : i \in 1 .. Len(l)} = M
    BY <2>2, <2>3 DEF ListHolds
  <2>6. \A m : m \in M <=> \E i \in 1 .. Len(l) : l[i].v = m
    BY <2>5
  <2>7. /\ l \in Seq(Neighbor)
        /\ \A i, j \in 1 .. Len(l) : i < j => l[i].v < l[j].v
    BY <2>2 DEF ListHolds
  <2> QED
    BY <2>1, <2>4, <2>6, <2>7 DEF ListLined
<1> QED
  BY <1>4, <1>5

\* Once counted, the result is the number of triangles of the list given.
Tally ==
  /\ input.symmetrize
  /\ triangles.count = Cardinality(Falling(Edges, Vertex)) /\ triangles.strays = FALSE

TallyInv == stage = "counted" => Tally

LEMMA TallyGivesExact ==
  BuilderInv /\ TallyInv => TrianglesExact
<1> SUFFICES ASSUME BuilderInv, TallyInv, stage = "counted" PROVE TCVerifier /\ ~triangles.strays
  BY DEF TrianglesExact
<1>1. PICK g : g = csr["out"]
  OBVIOUS
<1>2. InputOK /\ GraphHolds(g, "out") /\ input.symmetrize
  BY <1>1 DEF BuilderInv, Basics, BuiltInv, Graphed, TallyInv, Tally
<1>3. numNodes \in Nat \ {0}
  BY <1>2, InputFacts
<1>4. SymmetricOn(Edges, Vertex) /\ \A n \in Vertex : ListLined(Neigh(g, n), Edges, n)
  BY <1>2, EdgesFacts
<1>5. Lined(g, Edges)
  BY <1>2, <1>3, <1>4, LinedFromLists DEF GraphHolds
<1>6. PICK ends : ends = [n \in Vertex |-> {g.neighs[p].v : p \in Span(g, n)}]
  OBVIOUS
<1>7. ASSUME NEW n \in Vertex PROVE ends[n] = {m \in Vertex : <<n, m>> \in Edges}
  <2>1. \A m : m \in ends[n] <=> \E p \in Span(g, n) : g.neighs[p].v = m
    BY <1>6
  <2>2. \A p \in Span(g, n) : g.neighs[p].v \in Vertex /\ <<n, g.neighs[p].v>> \in Edges
    BY <1>5 DEF Lined
  <2>3. \A m \in Vertex : <<n, m>> \in Edges => \E p \in Span(g, n) : g.neighs[p].v = m
    BY <1>5 DEF Lined
  <2> QED
    BY <2>1, <2>2, <2>3
<1>8. Edges = UNION {{<<u, v>> : v \in ends[u]} : u \in Vertex}
  <2>1. \A x : x \in Edges <=> \E u \in Vertex : \E v \in ends[u] : x = <<u, v>>
    <3>1. \A x \in Edges : x \in Vertex \X Vertex
      BY <1>4 DEF SymmetricOn
    <3>2. ASSUME NEW x \in Edges PROVE \E u \in Vertex : \E v \in ends[u] : x = <<u, v>>
      <4>1. PICK u \in Vertex, v \in Vertex : x = <<u, v>>
        BY <3>1
      <4> QED
        BY <1>7, <4>1
    <3>3. ASSUME NEW u \in Vertex, NEW v \in ends[u] PROVE <<u, v>> \in Edges
      BY <1>7
    <3> QED
      BY <3>2, <3>3
  <2> QED
    BY <2>1
<1>9. PICK f : f = [e \in Edges |-> Cardinality(ends[e[1]] \cap ends[e[2]])]
  OBVIOUS
<1>10. Cardinality(Triangles(Edges, Vertex)) = SumFunctionOnSet(f, Edges)
  <2>1. \A e \in Edges : f[e] = Cardinality(ends[e[1]] \cap ends[e[2]])
    BY <1>9
  <2> QED
    BY <1>3, <1>4, <1>7, <2>1, VerifierCounts
<1>11. PICK c : c = Cardinality(Falling(Edges, Vertex))
  OBVIOUS
<1>12. c \in Nat /\ SumFunctionOnSet(f, Edges) = 6 * c
  <2>1. IsFiniteSet(Vertex) /\ Vertex \in SUBSET Int
    BY <1>3, VertexFinite DEF Vertex
  <2> QED
    BY <1>4, <1>10, <1>11, <2>1, SixTimes
<1>13. (6 * c) \div 6 = c
  BY <1>12
<1>14. triangles.count = c /\ ~triangles.strays
  BY <1>11 DEF TallyInv, Tally
<1>15. TCVerifier <=> triangles.count = SumFunctionOnSet(f, Edges) \div 6
  <2> DEFINE Ends(n) == {g.neighs[p].v : p \in Span(g, n)}
             pairs == UNION {{<<u, v>> : v \in Ends(u)} : u \in Vertex}
  <2>1. TCVerifier <=> triangles.count
          = SumFunctionOnSet([e \in pairs |-> Cardinality(Ends(e[1]) \cap Ends(e[2]))], pairs) \div 6
    BY <1>1 DEF TCVerifier
  <2>2. \A n \in Vertex : Ends(n) = ends[n]
    BY <1>6
  <2> HIDE DEF Ends
  <2>3. \A x : x \in pairs <=> \E u \in Vertex : \E v \in Ends(u) : x = <<u, v>>
    OBVIOUS
  <2>4. \A x : x \in Edges <=> \E u \in Vertex : \E v \in ends[u] : x = <<u, v>>
    BY <1>8
  <2> HIDE DEF pairs
  <2>5. pairs = Edges
    BY <2>2, <2>3, <2>4
  <2>6. \A e \in Edges : e[1] \in Vertex /\ e[2] \in Vertex
    BY <1>4 DEF SymmetricOn
  <2>7. [e \in pairs |-> Cardinality(Ends(e[1]) \cap Ends(e[2]))] = f
    BY <1>9, <2>2, <2>5, <2>6
  <2> QED
    BY <2>1, <2>5, <2>7
<1> QED
  BY <1>12, <1>13, <1>14, <1>15

\* Whether Hybrid relabels or not, it counts the same triangles (tc.cc:71-87).
LEMMA HybridCounts ==
  ASSUME BuilderInv, Hybrid
  PROVE  TallyInv'
<1>1. /\ stage = "built" /\ input.symmetrize /\ UNCHANGED <<input, numNodes>>
      /\ \E g \in {csr["out"], RelabelByDegree(csr["out"])} : triangles' = OrderedCount(g)
  BY DEF Hybrid
<1>2. PICK g : g = csr["out"]
  OBVIOUS
<1>3. InputOK /\ GraphHolds(g, "out")
  BY <1>1, <1>2 DEF BuilderInv, Basics, BuiltInv, Graphed
<1>4. numNodes \in Nat \ {0}
  BY <1>3, InputFacts
<1>5. IsGraph(g) /\ SymmetricOn(Edges, Vertex) /\ \A n \in Vertex : ListLined(Neigh(g, n), Edges, n)
  BY <1>1, <1>3, EdgesFacts DEF GraphHolds
<1>6. IsFiniteSet(Vertex) /\ Vertex \in SUBSET Int
  BY <1>4, VertexFinite DEF Vertex
<1>7. PICK c : c = Cardinality(Falling(Edges, Vertex))
  OBVIOUS
<1>8. triangles'.count = c /\ triangles'.strays = FALSE
  <2>1. CASE triangles' = OrderedCount(g)
    <3>1. Lined(g, Edges)
      BY <1>4, <1>5, LinedFromLists
    <3> QED
      BY <1>4, <1>5, <1>7, <2>1, <3>1, OrderedCountIs
  <2>2. CASE triangles' = OrderedCount(RelabelByDegree(g))
    <3>1. PICK h : h = RelabelByDegree(g)
      OBVIOUS
    <3>2. PICK D : /\ Lined(h, D) /\ SymmetricOn(D, Vertex)
                   /\ Cardinality(Triangles(D, Vertex)) = Cardinality(Triangles(Edges, Vertex))
      BY <1>4, <1>5, <3>1, RelabelLined
    <3>3. OrderedCount(h).count = Cardinality(Falling(D, Vertex)) /\ OrderedCount(h).strays = FALSE
      BY <1>4, <3>2, OrderedCountIs
    <3>4. PICK d : d = Cardinality(Falling(D, Vertex))
      OBVIOUS
    <3>5. d \in Nat /\ Cardinality(Triangles(D, Vertex)) = 6 * d
      BY <1>6, <3>2, <3>4, SixTimes
    <3>6. c \in Nat /\ Cardinality(Triangles(Edges, Vertex)) = 6 * c
      BY <1>5, <1>6, <1>7, SixTimes
    <3>7. 6 * d = 6 * c
      BY <3>2, <3>5, <3>6
    <3>8. d = c
      BY ONLY <3>5, <3>6, <3>7
    <3> QED
      BY <2>2, <3>1, <3>3, <3>4, <3>8
  <2> QED
    BY <1>1, <1>2, <2>1, <2>2
<1>9. Edges' = Edges /\ Vertex' = Vertex
  <2>1. input' = input /\ numNodes' = numNodes
    BY <1>1
  <2> QED
    BY <2>1 DEF Edges, Vertex, Joined, Weights, Given
<1>10. Tally'
  BY <1>1, <1>7, <1>8, <1>9 DEF Tally
<1> QED
  BY <1>10 DEF TallyInv

LEMMA TallyKept ==
  BuilderInv /\ TallyInv /\ [Next]_builderVars => TallyInv'
<1> SUFFICES ASSUME BuilderInv, TallyInv, [Next]_builderVars PROVE TallyInv'
  OBVIOUS
<1>1. stage # "copy" => \A t \in Threads : thread[t] = Idle
  BY DEF BuilderInv, Basics
<1>2. CASE MakeCSR \/ EndCopy \/ SquishGraph \/ OverwriteEdges \/ InvertInPlace
           \/ CountInverses \/ ReallocFails \/ Spread \/ AddInverses
  <2>1. stage' # "counted"
    BY <1>2 DEF MakeCSR, BeginCSR, EndCopy, SquishGraph, OverwriteEdges, InvertInPlace,
                CountInverses, ReallocFails, Spread, AddInverses
  <2> QED
    BY <2>1 DEF TallyInv
<1>3. ASSUME NEW t \in Threads, (\E k \in todo : TakeEdge(t, k)) \/ ClaimPlace(t) \/ Store(t)
      PROVE  TallyInv'
  <2>1. stage' = stage
    BY <1>3 DEF TakeEdge, ClaimPlace, Store
  <2>2. CASE \E k \in todo : TakeEdge(t, k)
    BY <2>1, <2>2 DEF TakeEdge, TallyInv
  <2>3. CASE ClaimPlace(t) \/ Store(t)
    <3>1. thread[t] # Idle
      BY <2>3 DEF ClaimPlace, Store, Idle
    <3> QED
      BY <1>1, <2>1, <3>1 DEF TallyInv
  <2> QED
    BY <1>3, <2>2, <2>3
<1>4. CASE Hybrid
  BY <1>4, HybridCounts
<1>5. CASE Terminated \/ UNCHANGED builderVars
  <2>1. UNCHANGED <<input, numNodes, stage, todo, thread, side, offsets, neighs, needed, csr, triangles>>
    BY <1>5 DEF Terminated, builderVars
  <2>2. stage' = stage /\ triangles' = triangles /\ input' = input /\ numNodes' = numNodes
    BY <2>1
  <2>3. Edges' = Edges /\ Vertex' = Vertex
    BY <2>2 DEF Edges, Vertex, Joined, Weights, Given
  <2> QED
    BY <2>2, <2>3 DEF TallyInv, Tally
<1> QED
  BY <1>2, <1>3, <1>4, <1>5 DEF Next

\* Every triangle of an undirected graph is counted once, relabelled or not,
\* and no search strays from its list, for every list of edges (tc.cc:50-112).
THEOREM TrianglesCounted == Spec => []TrianglesExact
<1>1. Init => TallyInv
  BY DEF Init, TallyInv
<1> QED
  BY <1>1, BuilderInvHolds, TallyKept, TallyGivesExact, PTL DEF Spec
=============================================================================
