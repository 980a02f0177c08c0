--------------------------- MODULE TieringProofs ----------------------------
(***************************************************************************)
(* Proofs about Tiering for any set of pages, capacity, policy, faults and *)
(* number of epochs, and about the policies of Policies.  What a policy    *)
(* may decide comes first, then the type invariant; CapacityBound and the  *)
(* other state properties follow from the inductive invariant IInv.  The   *)
(* change-point detector of the ML policy (Cusum) comes last.              *)
(***************************************************************************)
EXTENDS Tiering, Cusum, FiniteSums

-----------------------------------------------------------------------------
(* Policies: what every decision guarantees, whatever the metadata, the    *)
(* parameters and the way equal pages are ordered.                         *)

\* The first k elements of an ordering of a finite set are k elements of it.
LEMMA PrefixCardinality ==
    ASSUME NEW S, IsFiniteSet(S), NEW precedes,
           NEW s \in SortOrders(S, precedes),
           NEW k \in 0 .. Cardinality(S)
    PROVE  /\ {s[i] : i \in 1 .. k} \subseteq S
           /\ IsFiniteSet({s[i] : i \in 1 .. k})
           /\ Cardinality({s[i] : i \in 1 .. k}) = k
<1> DEFINE T == {s[i] : i \in 1 .. k}
           f == [i \in 1 .. k |-> s[i]]
<1>1. Cardinality(S) \in Nat
  BY FS_CardinalityType
<1>2. /\ s \in [1 .. Cardinality(S) -> S]
      /\ \A i, j \in 1 .. Cardinality(S) : s[i] = s[j] => i = j
  BY DEF SortOrders, Bijection, Injection, IsInjective
<1>3. 1 .. k \subseteq 1 .. Cardinality(S)
  BY <1>1
<1>4. T \subseteq S
  BY <1>2, <1>3
<1>5. f \in Bijection(1 .. k, T)
  <2>1. f \in [1 .. k -> T]
    OBVIOUS
  <2>2. IsInjective(f)
    BY <1>2, <1>3 DEF IsInjective
  <2>3. \A t \in T : \E i \in 1 .. k : f[i] = t
    OBVIOUS
  <2> QED
    BY <2>1, <2>2, <2>3 DEF Bijection, Injection, Surjection
<1>6. ExistsBijection(1 .. k, T)
  BY <1>5 DEF ExistsBijection
<1>7. k \in Nat
  BY <1>1
<1>8. Cardinality(T) = k
  BY <1>6, <1>7, FS_CountingElements
<1> QED
  BY <1>4, <1>8, FS_Subset

\* Direct promotions are bounded by the free slots and by the candidates.
LEMMA DirectBounds ==
    ASSUME NEW free \in Int, NEW fill, IsFiniteSet(fill)
    PROVE  /\ Direct(free, fill) \in Nat
           /\ Direct(free, fill) <= NonNegative(free)
           /\ Direct(free, fill) <= Cardinality(fill)
<1>1. Cardinality(fill) \in Nat
  BY FS_CardinalityType
<1>2. MAX_PROMOTIONS_PER_EPOCH \in Nat
  BY PoliciesAssumption
<1> QED
  BY <1>1, <1>2 DEF Direct, Smaller, NonNegative

\* Swaps never run out of victims, nor of candidates after the direct ones.
LEMMA SwapRoomBounds ==
    ASSUME NEW free \in Int,
           NEW fill, IsFiniteSet(fill), NEW swap, IsFiniteSet(swap),
           NEW victims, IsFiniteSet(victims)
    PROVE  LET room == SwapRoom(free, fill, swap, victims)
           IN  /\ room \in Int
               /\ room > 0 => /\ room <= Cardinality(victims)
                              /\ Direct(free, fill) + room <= Cardinality(swap)
<1>1. /\ Cardinality(swap) \in Nat
      /\ Cardinality(victims) \in Nat
  BY FS_CardinalityType
<1>2. MAX_PROMOTIONS_PER_EPOCH \in Nat
  BY PoliciesAssumption
<1>3. Direct(free, fill) \in Nat
  BY DirectBounds
<1> QED
  BY <1>1, <1>2, <1>3 DEF SwapRoom, Smaller, NonNegative

\* The number of swaps is a number of loop iterations.
LEMMA SwapsBounds ==
    ASSUME NEW cand, NEW vict, NEW direct, NEW room \in Int, NEW beats
    PROVE  LET m == Swaps(cand, vict, direct, room, beats)
           IN  /\ m \in Nat
               /\ m > 0 => m <= room
<1> DEFINE R == {m \in 1 .. room :
                    \A j \in 1 .. m : <<cand[direct + j], vict[j]>> \in beats}
<1>1. /\ IsFiniteSet(1 .. room)
      /\ Cardinality(1 .. room) = IF 1 > room THEN 0 ELSE room
  BY FS_Interval
<1>2. /\ IsFiniteSet(R)
      /\ Cardinality(R) <= Cardinality(1 .. room)
  <2>1. R \in SUBSET (1 .. room)
    OBVIOUS
  <2> QED
    BY <2>1, <1>1, FS_Subset
<1>3. Cardinality(R) \in Nat
  BY <1>2, FS_CardinalityType
<1> QED
  BY <1>1, <1>2, <1>3 DEF Swaps

\* What the shared greedy loop plans.
LEMMA GreedyContract ==
    ASSUME NEW cands, IsFiniteSet(cands), NEW victims, IsFiniteSet(victims),
           NEW fill \in SUBSET cands, NEW swap \in SUBSET cands,
           NEW free \in Int, NEW hotter, NEW beats,
           NEW made \in GreedyPlans(cands, victims, free, fill, swap, hotter, beats)
    PROVE  /\ made = [promote |-> made.promote, demote |-> made.demote]
           /\ made.promote \subseteq cands
           /\ made.demote \subseteq victims
           /\ Cardinality(made.promote) <= NonNegative(free) + Cardinality(made.demote)
<1> DEFINE direct == Direct(free, fill)
           room == SwapRoom(free, fill, swap, victims)
<1>1. PICK cand \in SortOrders(cands, hotter),
           vict \in SortOrders(victims, Converse(hotter)) :
              made = GreedyPlan(cand, vict, direct, room, beats)
  BY DEF GreedyPlans
<1> DEFINE m == Swaps(cand, vict, direct, room, beats)
<1>2. /\ IsFiniteSet(fill) /\ Cardinality(fill) <= Cardinality(cands)
      /\ IsFiniteSet(swap) /\ Cardinality(swap) <= Cardinality(cands)
  BY FS_Subset
<1>3. /\ Cardinality(cands) \in Nat /\ Cardinality(victims) \in Nat
      /\ Cardinality(fill) \in Nat /\ Cardinality(swap) \in Nat
  BY <1>2, FS_CardinalityType
<1>4. /\ direct \in Nat
      /\ direct <= NonNegative(free)
      /\ direct <= Cardinality(fill)
  BY <1>2, DirectBounds
<1>5. /\ room \in Int
      /\ room > 0 => /\ room <= Cardinality(victims)
                     /\ direct + room <= Cardinality(swap)
  BY <1>2, SwapRoomBounds
<1>6. /\ m \in Nat
      /\ m > 0 => m <= room
  BY <1>5, SwapsBounds
<1> HIDE DEF direct, room, m
<1>7. direct + m \in 0 .. Cardinality(cands)
  BY <1>2, <1>3, <1>4, <1>5, <1>6
<1>8. m \in 0 .. Cardinality(victims)
  BY <1>3, <1>5, <1>6
<1>9. made = [promote |-> {cand[i] : i \in 1 .. direct + m},
              demote  |-> {vict[i] : i \in 1 .. m}]
  BY <1>1 DEF GreedyPlan, m
<1>10. /\ made.promote \subseteq cands
       /\ Cardinality(made.promote) = direct + m
  <2>1. \A k \in 0 .. Cardinality(cands) :
           /\ {cand[i] : i \in 1 .. k} \subseteq cands
           /\ Cardinality({cand[i] : i \in 1 .. k}) = k
    BY PrefixCardinality
  <2>2. made.promote = {cand[i] : i \in 1 .. direct + m}
    BY <1>9
  <2> QED
    BY <1>7, <2>1, <2>2
<1>11. /\ made.demote \subseteq victims
       /\ Cardinality(made.demote) = m
  <2>1. \A k \in 0 .. Cardinality(victims) :
           /\ {vict[i] : i \in 1 .. k} \subseteq victims
           /\ Cardinality({vict[i] : i \in 1 .. k}) = k
    BY PrefixCardinality
  <2>2. made.demote = {vict[i] : i \in 1 .. m}
    BY <1>9
  <2> QED
    BY <1>8, <2>1, <2>2
<1>12. NonNegative(free) \in Nat
  BY DEF NonNegative
<1> QED
  BY <1>4, <1>6, <1>9, <1>10, <1>11, <1>12

-----------------------------------------------------------------------------
\* The contract between a policy and the TierManager: promotions come from
\* tracked pages that are not fast, victims are fast, and the promotions fit
\* in the free slots plus the slots the victims leave.
Contract(known, tally, made) ==
    /\ made \in [promote : SUBSET (DOMAIN known \ FastPages(known)),
                 demote : SUBSET FastPages(known)]
    /\ Cardinality(made.promote)
           <= NonNegative(FAST_TIER_CAPACITY - tally) + Cardinality(made.demote)

\* A record whose fields are subsets of P and of D is a plan over P and D.
LEMMA PlanType ==
    ASSUME NEW made, NEW P, NEW D,
           made = [promote |-> made.promote, demote |-> made.demote],
           made.promote \subseteq P, made.demote \subseteq D
    PROVE  made \in [promote : SUBSET P, demote : SUBSET D]
OBVIOUS

\* promote_and_demote honours the contract for any comparator.
LEMMA BaselineContract ==
    ASSUME NEW known, IsFiniteSet(DOMAIN known), NEW tally \in Int, NEW hotter,
           NEW made \in BaselinePlans(known, tally, hotter)
    PROVE  Contract(known, tally, made)
<1> DEFINE cands == SlowHotPages(known)
           free == FAST_TIER_CAPACITY - tally
<1>1. /\ cands \in SUBSET (DOMAIN known \ FastPages(known))
      /\ FastPages(known) \in SUBSET DOMAIN known
  BY DEF SlowHotPages, FastPages
<1>2. IsFiniteSet(cands) /\ IsFiniteSet(FastPages(known))
  BY <1>1, FS_Subset
<1>3. free \in Int
  BY PoliciesAssumption
<1>4. made \in GreedyPlans(cands, FastPages(known), free, cands, cands, hotter, hotter)
  BY DEF BaselinePlans
<1> HIDE DEF cands, free
<1>5. /\ made = [promote |-> made.promote, demote |-> made.demote]
      /\ made.promote \subseteq cands
      /\ made.demote \subseteq FastPages(known)
      /\ Cardinality(made.promote) <= NonNegative(free) + Cardinality(made.demote)
  BY <1>2, <1>3, <1>4, GreedyContract
<1>6. made \in [promote : SUBSET (DOMAIN known \ FastPages(known)),
                demote : SUBSET FastPages(known)]
  BY <1>1, <1>5, PlanType
<1> QED
  BY <1>5, <1>6 DEF Contract, free

\* MLPolicy honours the contract for any scores and any margins.
LEMMA MLContract ==
    ASSUME NEW known, IsFiniteSet(DOMAIN known), NEW tally \in Int,
           NEW score, NEW margin,
           NEW made \in MLPlans(known, tally, score, margin)
    PROVE  Contract(known, tally, made)
<1> DEFINE cands == SlowCandidates(known)
           free == FAST_TIER_CAPACITY - tally
           fill == {p \in cands : score[p] >= FILL_THRESHOLD}
           swap == {p \in cands : score[p] >= margin.abs}
<1>1. /\ cands \in SUBSET (DOMAIN known \ FastPages(known))
      /\ FastPages(known) \in SUBSET DOMAIN known
  BY PoliciesAssumption DEF SlowCandidates, SlowPages, FastPages
<1>2. IsFiniteSet(cands) /\ IsFiniteSet(FastPages(known))
  BY <1>1, FS_Subset
<1>3. free \in Int
  BY PoliciesAssumption
<1>4. made \in GreedyPlans(cands, FastPages(known), free, fill, swap,
                           ScoredHigher(score), BeatsByMargins(score, margin))
  BY DEF MLPlans
<1>5. fill \in SUBSET cands /\ swap \in SUBSET cands
  OBVIOUS
<1> HIDE DEF cands, free, fill, swap
<1>6. /\ made = [promote |-> made.promote, demote |-> made.demote]
      /\ made.promote \subseteq cands
      /\ made.demote \subseteq FastPages(known)
      /\ Cardinality(made.promote) <= NonNegative(free) + Cardinality(made.demote)
  BY <1>2, <1>3, <1>4, <1>5, GreedyContract
<1>7. made \in [promote : SUBSET (DOMAIN known \ FastPages(known)),
                demote : SUBSET FastPages(known)]
  BY <1>1, <1>6, PlanType
<1> QED
  BY <1>6, <1>7 DEF Contract, free

\* HeuristicPolicy honours the contract.
LEMMA HeuristicContract ==
    ASSUME NEW known, IsFiniteSet(DOMAIN known), NEW tally \in Int,
           NEW made \in HeuristicPlans(known, tally)
    PROVE  Contract(known, tally, made)
<1> DEFINE score == HeuristicScore(known)
           cands == SlowCandidates(known)
           free == FAST_TIER_CAPACITY - tally
           hot == {p \in cands : ~HeuristicCold(score, p)}
           beats == {ab \in (DOMAIN known) \X (DOMAIN known) : HeuristicCold(score, ab[2])}
<1>1. /\ cands \in SUBSET (DOMAIN known \ FastPages(known))
      /\ FastPages(known) \in SUBSET DOMAIN known
  BY PoliciesAssumption DEF SlowCandidates, SlowPages, FastPages
<1>2. IsFiniteSet(cands) /\ IsFiniteSet(FastPages(known))
  BY <1>1, FS_Subset
<1>3. free \in Int
  BY PoliciesAssumption
<1>4. made \in GreedyPlans(cands, FastPages(known), free, hot, hot,
                           ScoredHigher(score), beats)
  BY DEF HeuristicPlans
<1>5. hot \in SUBSET cands
  OBVIOUS
<1> HIDE DEF score, cands, free, hot, beats
<1>6. /\ made = [promote |-> made.promote, demote |-> made.demote]
      /\ made.promote \subseteq cands
      /\ made.demote \subseteq FastPages(known)
      /\ Cardinality(made.promote) <= NonNegative(free) + Cardinality(made.demote)
  BY <1>2, <1>3, <1>4, <1>5, GreedyContract
<1>7. made \in [promote : SUBSET (DOMAIN known \ FastPages(known)),
                demote : SUBSET FastPages(known)]
  BY <1>1, <1>6, PlanType
<1> QED
  BY <1>6, <1>7 DEF Contract, free

\* RandomPolicy honours the contract whatever pages it draws: it demotes only
\* when no slot is free, and counts the slots that frees.
LEMMA RandomContract ==
    ASSUME NEW known, IsFiniteSet(DOMAIN known), NEW tally \in Int,
           NEW made \in RandomPlans(known, tally)
    PROVE  Contract(known, tally, made)
<1> DEFINE free == FAST_TIER_CAPACITY - tally
           fast == FastPages(known)
           slow == SlowPages(known)
           out == IF free <= 0
                  THEN Smaller(MAX_DEMOTIONS_PER_EPOCH, Cardinality(fast)) ELSE 0
           in == Smaller(MAX_PROMOTIONS_PER_EPOCH,
                         Smaller(NonNegative(free + out), Cardinality(slow)))
<1>1. /\ slow \in SUBSET (DOMAIN known \ FastPages(known))
      /\ fast \in SUBSET DOMAIN known
      /\ slow \in SUBSET DOMAIN known
  BY PoliciesAssumption DEF SlowPages, FastPages
<1>2. Cardinality(slow) \in Nat /\ Cardinality(fast) \in Nat
  BY <1>1, FS_Subset, FS_CardinalityType
<1>3. free \in Int
  BY PoliciesAssumption
<1>4. out \in Nat
  BY <1>2, <1>3, PoliciesAssumption DEF Smaller
<1>5. made \in [promote : kSubset(in, slow), demote : kSubset(out, fast)]
  BY DEF RandomPlans
<1>6. in <= NonNegative(free) + out
  BY <1>2, <1>3, <1>4, PoliciesAssumption DEF Smaller, NonNegative
<1> HIDE DEF free, fast, slow, out, in
<1>7. /\ made.promote \subseteq slow
      /\ Cardinality(made.promote) = in
      /\ made.demote \subseteq fast
      /\ Cardinality(made.demote) = out
  BY <1>5 DEF kSubset
<1>8. made \in [promote : SUBSET (DOMAIN known \ FastPages(known)),
                demote : SUBSET FastPages(known)]
  BY <1>1, <1>5, <1>7 DEF fast
<1> QED
  BY <1>6, <1>7, <1>8 DEF Contract, free

\* Every policy honours the contract, for any metadata and any fast count:
\* promote_and_demote with any comparator, MLPolicy with any scores and
\* margins, HeuristicPolicy, and RandomPolicy with any draws.
THEOREM PlansHonourContract ==
    ASSUME NEW name \in PolicyNames,
           NEW known, IsFiniteSet(DOMAIN known), NEW tally \in Int,
           NEW made \in Plans(name, known, tally)
    PROVE  Contract(known, tally, made)
<1>1. CASE name = "lru"
  BY <1>1, BaselineContract DEF Plans
<1>2. CASE name = "lfu"
  BY <1>2, BaselineContract DEF Plans
<1>3. CASE name = "decaying_lfu"
  <2>1. PICK freq \in [DOMAIN known -> Scores] :
            made \in BaselinePlans(known, tally, DecayingLFUHotter(known, freq))
    BY <1>3 DEF Plans
  <2> QED
    BY <2>1, BaselineContract
<1>4. CASE name = "ml"
  <2>1. PICK score \in [DOMAIN known -> Scores], margin \in Margins :
            made \in MLPlans(known, tally, score, margin)
    BY <1>4 DEF Plans
  <2> QED
    BY <2>1, MLContract
<1>5. CASE name = "heuristic"
  BY <1>5, HeuristicContract DEF Plans
<1>6. CASE name = "random"
  BY <1>6, RandomContract DEF Plans
<1> QED
  BY <1>1, <1>2, <1>3, <1>4, <1>5, <1>6 DEF PolicyNames
-----------------------------------------------------------------------------
(* No hotter candidate is left behind *)

\* "Not hotter than" carries over from pair to pair, as it does for every
\* comparator std::sort accepts (a strict weak order) and does not for the
\* tie band of decaying LFU.
NegativelyTransitive(S, hotter) ==
    \A a, b, c \in S :
        <<a, b>> \notin hotter /\ <<b, c>> \notin hotter => <<a, c>> \notin hotter

\* Where no element follows one it must precede directly, none does at any
\* distance.
LEMMA SortedAtAnyDistance ==
    ASSUME NEW S, IsFiniteSet(S), NEW precedes,
           NegativelyTransitive(S, precedes),
           \A a \in S : <<a, a>> \notin precedes,
           NEW s \in SortOrders(S, precedes),
           NEW i \in 1 .. Cardinality(S), NEW j \in i .. Cardinality(S)
    PROVE  <<s[j], s[i]>> \notin precedes
<1> DEFINE n == Cardinality(S)
           P == {d \in Nat : i + d <= n => <<s[i + d], s[i]>> \notin precedes}
<1>1. n \in Nat
  BY FS_CardinalityType
<1>2. /\ s \in [1 .. n -> S]
      /\ \A k \in 1 .. n - 1 : <<s[k+1], s[k]>> \notin precedes
  BY DEF SortOrders, Bijection, Injection
<1> HIDE DEF n
<1>3. i \in 1 .. n /\ j \in i .. n
  BY DEF n
<1>4. 0 \in P
  <2>1. s[i] \in S /\ i + 0 = i
    BY <1>1, <1>2, <1>3
  <2> QED
    BY <2>1
<1>5. \A d \in Nat : d \in P => d + 1 \in P
  <2> TAKE d \in Nat
  <2> HAVE d \in P
  <2>1. SUFFICES ASSUME i + (d + 1) <= n PROVE <<s[i + (d + 1)], s[i]>> \notin precedes
    OBVIOUS
  <2> DEFINE k == i + d
  <2>2. k \in 1 .. n - 1 /\ k + 1 \in 1 .. n /\ k \in 1 .. n /\ i + (d + 1) = k + 1
    BY <1>1, <1>3, <2>1
  <2>3. <<s[k], s[i]>> \notin precedes
    BY <1>1, <2>2
  <2> HIDE DEF k
  <2>4. <<s[k+1], s[k]>> \notin precedes
    BY <1>2, <2>2
  <2>5. s[k+1] \in S /\ s[k] \in S /\ s[i] \in S
    BY <1>2, <1>3, <2>2
  <2>6. <<s[k+1], s[i]>> \notin precedes
    BY <2>3, <2>4, <2>5 DEF NegativelyTransitive
  <2> QED
    BY <2>2, <2>6
<1> HIDE DEF P
<1>6. Nat \subseteq P
  BY <1>4, <1>5, NatSetInduction
<1>7. j - i \in Nat /\ i + (j - i) = j /\ j <= n
  BY <1>1, <1>3
<1>8. j - i \in P
  BY <1>6, <1>7
<1> QED
  BY <1>7, <1>8 DEF P

\* A set of iterations that holds every earlier one with each is the first
\* Cardinality(R) of them.
LEMMA DownwardClosed ==
    ASSUME NEW n \in Int, NEW R \in SUBSET (1 .. n),
           \A m \in R : \A j \in 1 .. m : j \in R
    PROVE  /\ Cardinality(R) \in Nat
           /\ R = 1 .. Cardinality(R)
<1>1. IsFiniteSet(1 .. n)
  BY FS_Interval
<1>2. IsFiniteSet(R) /\ Cardinality(R) \in Nat
  BY <1>1, FS_Subset, FS_CardinalityType
<1>3. \A k \in Nat : IsFiniteSet(1 .. k) /\ Cardinality(1 .. k) = k
  <2> TAKE k \in Nat
  <2>1. IsFiniteSet(1 .. k) /\ Cardinality(1 .. k) = IF 1 > k THEN 0 ELSE k - 1 + 1
    BY FS_Interval
  <2> QED
    BY <2>1
<1>4. ASSUME NEW x \in R PROVE x \in 1 .. Cardinality(R)
  <2>1. x \in Nat /\ x >= 1
    OBVIOUS
  <2>2. 1 .. x \subseteq R
    OBVIOUS
  <2>3. Cardinality(1 .. x) <= Cardinality(R)
    BY <1>2, <2>2, FS_Subset
  <2> QED
    BY <1>2, <1>3, <2>1, <2>3
<1>5. ASSUME NEW x \in 1 .. Cardinality(R), x \notin R PROVE FALSE
  <2>1. x \in Nat /\ x >= 1 /\ x - 1 \in Nat
    BY <1>2
  <2>2. R \subseteq 1 .. x - 1
    <3> SUFFICES ASSUME NEW y \in R, ~(y < x) PROVE FALSE
      BY <2>1
    <3>1. x \in 1 .. y
      BY <2>1
    <3> QED
      BY <1>5, <3>1
  <2>3. Cardinality(R) <= Cardinality(1 .. x - 1)
    BY <1>3, <2>1, <2>2, FS_Subset
  <2>4. Cardinality(1 .. x - 1) = x - 1
    BY <1>3, <2>1
  <2> QED
    BY <1>2, <1>5, <2>1, <2>3, <2>4
<1> QED
  BY <1>2, <1>4, <1>5

\* The loop swaps for every iteration up to Swaps, and where it stops short
\* of its room it stops at a candidate that does not beat its victim.
LEMMA SwapsStopAt ==
    ASSUME NEW cand, NEW vict, NEW direct, NEW room \in Int, NEW beats,
           NEW m, m = Swaps(cand, vict, direct, room, beats), m < room
    PROVE  <<cand[direct + (m + 1)], vict[m + 1]>> \notin beats
<1> DEFINE R == {k \in 1 .. room :
                    \A j \in 1 .. k : <<cand[direct + j], vict[j]>> \in beats}
<1>1. R \in SUBSET (1 .. room)
  OBVIOUS
<1>2. \A k \in R : \A j \in 1 .. k : j \in R
  <2> TAKE k \in R
  <2> TAKE j \in 1 .. k
  <2>1. j \in 1 .. room /\ 1 .. j \subseteq 1 .. k
    OBVIOUS
  <2> QED
    BY <2>1
<1>3. m = Cardinality(R)
  BY DEF Swaps
<1> HIDE DEF R
<1>4. m \in Nat /\ R = 1 .. m
  BY <1>1, <1>2, <1>3, DownwardClosed
<1>5. m + 1 \in 1 .. room /\ m + 1 \notin R
  BY <1>4
<1>6. PICK j \in 1 .. (m + 1) : <<cand[direct + j], vict[j]>> \notin beats
  BY <1>5 DEF R
<1>7. CASE j = m + 1
  BY <1>6, <1>7
<1>8. CASE j # m + 1
  <2>1. j \in R /\ j \in 1 .. j
    BY <1>4, <1>6, <1>8
  <2>2. <<cand[direct + j], vict[j]>> \in beats
    BY <2>1 DEF R
  <2> QED
    BY <1>6, <2>2
<1> QED
  BY <1>7, <1>8

\* promote_and_demote with a strict weak order leaves no sampled slow page
\* behind that is hotter than a page it leaves in the fast tier, unless the cap
\* on promotions ended its loop.
THEOREM GreedyLeavesNoHotter ==
    ASSUME NEW known, IsFiniteSet(DOMAIN known), NEW tally \in Int,
           NEW hotter \in SUBSET ((DOMAIN known) \X (DOMAIN known)),
           NegativelyTransitive(DOMAIN known, hotter),
           \A p \in DOMAIN known : <<p, p>> \notin hotter,
           NEW made \in BaselinePlans(known, tally, hotter),
           Cardinality(made.promote) < MAX_PROMOTIONS_PER_EPOCH,
           NEW c \in SlowHotPages(known) \ made.promote,
           NEW v \in FastPages(known) \ made.demote
    PROVE  <<c, v>> \notin hotter
<1> DEFINE cands == SlowHotPages(known)
           victims == FastPages(known)
           free == FAST_TIER_CAPACITY - tally
           direct == Direct(free, cands)
           room == SwapRoom(free, cands, cands, victims)
<1>1. cands \subseteq DOMAIN known /\ victims \subseteq DOMAIN known
  BY DEF SlowHotPages, FastPages
<1>2. /\ IsFiniteSet(cands) /\ IsFiniteSet(victims)
      /\ Cardinality(cands) \in Nat /\ Cardinality(victims) \in Nat
  BY <1>1, FS_Subset, FS_CardinalityType
<1>3. PICK cand \in SortOrders(cands, hotter),
           vict \in SortOrders(victims, Converse(hotter)) :
              made = GreedyPlan(cand, vict, direct, room, hotter)
  BY DEF BaselinePlans, GreedyPlans
<1> DEFINE m == Swaps(cand, vict, direct, room, hotter)
<1>4. /\ made.promote = {cand[i] : i \in 1 .. direct + m}
      /\ made.demote = {vict[i] : i \in 1 .. m}
  BY <1>3 DEF GreedyPlan
<1>5. free \in Int /\ MAX_PROMOTIONS_PER_EPOCH \in Nat
  BY PoliciesAssumption
<1>6. /\ direct \in Nat
      /\ direct = Smaller(NonNegative(free),
                          Smaller(MAX_PROMOTIONS_PER_EPOCH, Cardinality(cands)))
  BY <1>2, <1>5, DirectBounds DEF Direct
<1>7. /\ room \in Int
      /\ room > 0 => /\ room <= Cardinality(victims)
                     /\ direct + room <= Cardinality(cands)
      /\ room = IF free > direct
                THEN 0
                ELSE Smaller(Cardinality(victims),
                             Smaller(MAX_PROMOTIONS_PER_EPOCH - direct,
                                     NonNegative(Cardinality(cands) - direct)))
  <2>1. /\ room \in Int
        /\ room > 0 => /\ room <= Cardinality(victims)
                       /\ direct + room <= Cardinality(cands)
    BY <1>2, <1>5, SwapRoomBounds
  <2> QED
    BY <2>1 DEF SwapRoom
<1>8. m \in Nat /\ (m > 0 => m <= room)
  BY <1>7, SwapsBounds
<1>9. /\ cand \in [1 .. Cardinality(cands) -> cands]
      /\ vict \in [1 .. Cardinality(victims) -> victims]
      /\ \E i \in 1 .. Cardinality(cands) : cand[i] = c
      /\ \E j \in 1 .. Cardinality(victims) : vict[j] = v
  BY DEF SortOrders, Bijection, Surjection, Injection
<1> HIDE DEF direct, room, m, free, cands, victims
<1>10. PICK i \in 1 .. Cardinality(cands) : cand[i] = c
  BY <1>9
<1>11. PICK j \in 1 .. Cardinality(victims) : vict[j] = v
  BY <1>9
<1>12. i > direct + m
  BY <1>4, <1>6, <1>8, <1>10
<1>13. j > m
  BY <1>4, <1>8, <1>11
<1>14. Cardinality(made.promote) = direct + m
  <2>1. PICK k \in 0 .. Cardinality(cands) : k = direct + m
    BY <1>2, <1>6, <1>8, <1>12
  <2>2. Cardinality({cand[n] : n \in 1 .. k}) = k
    BY <1>2, <1>3, PrefixCardinality
  <2>3. made.promote = {cand[n] : n \in 1 .. k}
    BY <1>4, <2>1
  <2> QED
    BY <2>1, <2>2, <2>3
<1>15. direct + m < MAX_PROMOTIONS_PER_EPOCH
  BY <1>14
<1>16. m < room
  <2>1. direct < Cardinality(cands) /\ direct < MAX_PROMOTIONS_PER_EPOCH
    BY <1>2, <1>5, <1>6, <1>8, <1>10, <1>12, <1>15
  <2>2. direct = NonNegative(free)
    BY <1>2, <1>5, <1>6, <2>1 DEF Smaller
  <2>3. ~(free > direct)
    BY <1>5, <1>6, <2>2 DEF NonNegative
  <2>4. /\ m < Cardinality(victims)
        /\ m < MAX_PROMOTIONS_PER_EPOCH - direct
        /\ m < Cardinality(cands) - direct
    BY <1>2, <1>5, <1>6, <1>8, <1>10, <1>11, <1>12, <1>13, <1>15
  <2> QED
    BY <1>2, <1>5, <1>6, <1>7, <1>8, <2>3, <2>4 DEF Smaller, NonNegative
<1> DEFINE x == cand[direct + (m + 1)]
           y == vict[m + 1]
<1>17. <<x, y>> \notin hotter
  BY <1>7, <1>16, SwapsStopAt DEF m
<1>18. /\ direct + (m + 1) \in 1 .. Cardinality(cands)
       /\ i \in (direct + (m + 1)) .. Cardinality(cands)
       /\ m + 1 \in 1 .. Cardinality(victims)
       /\ j \in (m + 1) .. Cardinality(victims)
  BY <1>2, <1>6, <1>8, <1>10, <1>11, <1>12, <1>13
<1>19. x \in cands /\ y \in victims
  BY <1>9, <1>18
<1>20. <<c, x>> \notin hotter
  <2>1. NegativelyTransitive(cands, hotter) /\ \A a \in cands : <<a, a>> \notin hotter
    BY <1>1 DEF NegativelyTransitive
  <2>2. <<cand[i], cand[direct + (m + 1)]>> \notin hotter
    BY <1>2, <1>3, <1>18, <2>1, SortedAtAnyDistance
  <2> QED
    BY <1>10, <2>2
<1>21. <<y, v>> \notin hotter
  <2>1. \A a, b : <<a, b>> \in Converse(hotter) <=> <<b, a>> \in hotter
    <3> TAKE a, b
    <3>1. ASSUME <<b, a>> \in hotter PROVE <<a, b>> \in Converse(hotter)
      <4>1. <<a, b>> = <<(<<b, a>>)[2], (<<b, a>>)[1]>>
        OBVIOUS
      <4> QED
        BY <3>1, <4>1 DEF Converse
    <3>2. ASSUME <<a, b>> \in Converse(hotter) PROVE <<b, a>> \in hotter
      <4>1. PICK ab \in hotter : <<a, b>> = <<ab[2], ab[1]>>
        BY <3>2 DEF Converse
      <4>2. ab = <<ab[1], ab[2]>>
        OBVIOUS
      <4> QED
        BY <4>1, <4>2
    <3> QED
      BY <3>1, <3>2
  <2>2. /\ NegativelyTransitive(victims, Converse(hotter))
        /\ \A a \in victims : <<a, a>> \notin Converse(hotter)
    BY <1>1, <2>1 DEF NegativelyTransitive
  <2>3. <<vict[j], vict[m + 1]>> \notin Converse(hotter)
    BY <1>2, <1>3, <1>18, <2>2, SortedAtAnyDistance
  <2> QED
    BY <1>11, <2>1, <2>3
<1>22. c \in DOMAIN known /\ v \in DOMAIN known /\ x \in DOMAIN known /\ y \in DOMAIN known
  BY <1>1, <1>19 DEF cands, victims
<1> HIDE DEF x, y
<1> QED
  BY <1>17, <1>20, <1>21, <1>22 DEF NegativelyTransitive

-----------------------------------------------------------------------------
(* Cardinalities *)

\* A part of a finite set is finite and no larger.
LEMMA SubsetCardinality ==
    ASSUME NEW T, IsFiniteSet(T), NEW S, S \subseteq T
    PROVE  /\ IsFiniteSet(S)
           /\ Cardinality(S) \in Nat
           /\ Cardinality(T) \in Nat
           /\ Cardinality(S) <= Cardinality(T)
BY FS_Subset, FS_CardinalityType

\* A union of two finite sets has no more elements than both together.
LEMMA UnionCardinality ==
    ASSUME NEW S, IsFiniteSet(S), NEW T, IsFiniteSet(T), NEW U, U \subseteq S \cup T
    PROVE  /\ Cardinality(U) \in Nat
           /\ Cardinality(S) \in Nat
           /\ Cardinality(T) \in Nat
           /\ Cardinality(U) <= Cardinality(S) + Cardinality(T)
<1>1. /\ IsFiniteSet(S \cup T)
      /\ Cardinality(S \cup T) = Cardinality(S) + Cardinality(T) - Cardinality(S \cap T)
  BY FS_Union
<1>2. /\ Cardinality(S) \in Nat /\ Cardinality(T) \in Nat
      /\ Cardinality(S \cap T) \in Nat
  BY FS_CardinalityType, FS_Intersection
<1>3. /\ Cardinality(U) \in Nat
      /\ Cardinality(U) <= Cardinality(S \cup T)
  BY <1>1, SubsetCardinality
<1> QED
  BY <1>1, <1>2, <1>3

\* A set is split in two by any of its subsets, and the sizes add up.
LEMMA DisjointCardinality ==
    ASSUME NEW S, IsFiniteSet(S), NEW T, T \subseteq S
    PROVE  /\ Cardinality(T) \in Nat
           /\ Cardinality(S \ T) \in Nat
           /\ Cardinality(S) = Cardinality(T) + Cardinality(S \ T)
<1>1. IsFiniteSet(T) /\ IsFiniteSet(S \ T)
  BY FS_Subset
<1>2. /\ (S \ T) \cup T = S
      /\ (S \ T) \cap T = {}
  OBVIOUS
<1>3. Cardinality(S) = Cardinality(S \ T) + Cardinality(T) - Cardinality({})
  BY <1>1, <1>2, FS_Union
<1>4. Cardinality(T) \in Nat /\ Cardinality(S \ T) \in Nat /\ Cardinality({}) = 0
  BY <1>1, FS_CardinalityType, FS_EmptySet
<1> QED
  BY <1>3, <1>4

\* Every set of pages the proofs count is finite.
LEMMA PagesFinite ==
    ASSUME NEW S, S \subseteq Page
    PROVE  IsFiniteSet(S) /\ Cardinality(S) \in Nat
BY TieringAssumption, SubsetCardinality

-----------------------------------------------------------------------------
(* Type correctness *)

\* The types hold when the daemon enters its loop.
LEMMA TypeInit == Init => TypeOK
BY DEF Init, TypeOK, Tracked, PageMetadata, NoPlan

\* The two updates of a page's metadata in detect_accesses keep its type.
LEMMA RecordType ==
    ASSUME NEW o \in PageMetadata, NEW n \in Nat
    PROVE  /\ [o EXCEPT !.accessed = TRUE, !.count = @ + n, !.esa = 0] \in PageMetadata
           /\ [o EXCEPT !.accessed = FALSE, !.esa = @ + 1] \in PageMetadata
<1>1. o.count + n \in Nat /\ o.esa + 1 \in Nat
  BY DEF PageMetadata
<1>2. [o EXCEPT !.accessed = TRUE, !.count = o.count + n, !.esa = 0] \in PageMetadata
  BY <1>1 DEF PageMetadata
<1>3. [o EXCEPT !.accessed = FALSE, !.esa = o.esa + 1] \in PageMetadata
  BY <1>1 DEF PageMetadata
<1> QED
  BY <1>2, <1>3

\* detect_accesses leaves metadata of the right type for all pages of the model.
LEMMA DetectAccessesType ==
    ASSUME NEW m, DOMAIN m \subseteq Page, m \in [DOMAIN m -> PageMetadata],
           NEW sampled \in SUBSET Page, NEW samples \in [sampled -> SampleCounts]
    PROVE  LET r == DetectAccesses(m, samples)
           IN  /\ DOMAIN r = DOMAIN m \cup sampled
               /\ r \in [DOMAIN r -> PageMetadata]
<1> DEFINE r == DetectAccesses(m, samples)
           old(p) == IF p \in DOMAIN m THEN m[p] ELSE NewPage
<1>1. DOMAIN r = DOMAIN m \cup sampled
  BY DEF DetectAccesses
<1>2. ASSUME NEW p \in DOMAIN m \cup sampled PROVE old(p) \in PageMetadata
  BY PoliciesAssumption DEF NewPage, PageMetadata
<1>3. ASSUME NEW p \in DOMAIN m \cup sampled
      PROVE  r[p] = IF p \in sampled
                    THEN [old(p) EXCEPT !.accessed = TRUE, !.count = @ + samples[p], !.esa = 0]
                    ELSE [old(p) EXCEPT !.accessed = FALSE, !.esa = @ + 1]
  BY DEF DetectAccesses
<1> HIDE DEF r, old
<1>4. ASSUME NEW p \in DOMAIN m \cup sampled PROVE r[p] \in PageMetadata
  <2>1. old(p) \in PageMetadata
    BY <1>2
  <2>2. CASE p \in sampled
    <3>1. samples[p] \in Nat
      BY <2>2, TieringAssumption
    <3>2. PICK o, n : o = old(p) /\ n = samples[p]
      OBVIOUS
    <3>3. o \in PageMetadata /\ n \in Nat
      BY <2>1, <3>1, <3>2
    <3>4. r[p] = [o EXCEPT !.accessed = TRUE, !.count = @ + n, !.esa = 0]
      BY <1>3, <2>2, <3>2
    <3> QED
      BY <3>3, <3>4, RecordType
  <2>3. CASE p \notin sampled
    <3>1. PICK o : o = old(p)
      OBVIOUS
    <3>2. o \in PageMetadata /\ 0 \in Nat
      BY <2>1, <3>1
    <3>3. r[p] = [o EXCEPT !.accessed = FALSE, !.esa = @ + 1]
      BY <1>3, <2>3, <3>1
    <3> QED
      BY <3>2, <3>3, RecordType
  <2> QED
    BY <2>2, <2>3
<1>5. r = [p \in DOMAIN r |-> r[p]]
  BY DEF r, DetectAccesses
<1>6. r \in [DOMAIN r -> PageMetadata]
  BY <1>1, <1>4, <1>5
<1> QED
  BY <1>1, <1>6 DEF r

\* update_page_nodes keeps the types, its failing query included.
LEMMA UpdatePageNodesType ==
    ASSUME TypeOK, UpdatePageNodes
    PROVE  /\ DOMAIN meta' \subseteq Tracked
           /\ meta' \in [DOMAIN meta' -> PageMetadata]
           /\ fastCount' \in Nat
           /\ lost' \in Nat
<1>1. CASE UNCHANGED <<meta, fastCount, lost>>
  BY <1>1 DEF TypeOK, Tracked
<1>2. CASE proc = "running" /\ Tracked # {}
  <2>1. PICK missed \in SUBSET (Tracked \cap Resident) :
            Refresh([p \in Tracked |-> IF p \in missed THEN Absent ELSE node[p]])
    BY <1>2 DEF UpdatePageNodes
  <2> DEFINE status == [p \in Tracked |-> IF p \in missed THEN Absent ELSE node[p]]
  <2>2. Tracked \subseteq Page
    BY DEF TypeOK
  <2>3. ASSUME NEW p \in Tracked PROVE status[p] \in {Absent, 0, SLOW_NODE}
    BY <2>2 DEF TypeOK
  <2> HIDE DEF status
  <2>4. /\ meta' = [p \in Kept(status) |-> [meta[p] EXCEPT !.node = status[p]]]
        /\ fastCount' = Cardinality({p \in Tracked : status[p] = 0})
        /\ lost' = lost + Cardinality({p \in Tracked \cap Fast : status[p] < 0})
    BY <2>1 DEF Refresh, status
  <2>5. Kept(status) \subseteq Tracked
    BY DEF Kept
  <2>6. ASSUME NEW p \in Kept(status) PROVE status[p] \in {0, SLOW_NODE}
    <3>1. status[p] \in {Absent, 0, SLOW_NODE}
      BY <2>3, <2>5
    <3>2. status[p] = 0 \/ status[p] > 0
      BY DEF Kept
    <3> QED
      BY <3>1, <3>2 DEF Absent
  <2>7. ASSUME NEW p \in Kept(status)
        PROVE  [meta[p] EXCEPT !.node = status[p]] \in PageMetadata
    <3>1. meta[p] \in PageMetadata
      BY <2>5 DEF TypeOK
    <3> QED
      BY <2>6, <3>1 DEF PageMetadata
  <2>8. /\ DOMAIN meta' = Kept(status)
        /\ meta' \in [Kept(status) -> PageMetadata]
    BY <2>4, <2>7
  <2>9. /\ Cardinality({p \in Tracked : status[p] = 0}) \in Nat
        /\ Cardinality({p \in Tracked \cap Fast : status[p] < 0}) \in Nat
    <3>1. /\ {p \in Tracked : status[p] = 0} \subseteq Page
          /\ {p \in Tracked \cap Fast : status[p] < 0} \subseteq Page
      BY <2>2
    <3> QED
      BY <3>1, PagesFinite
  <2>10. lost \in Nat
    BY DEF TypeOK
  <2> QED
    BY <2>4, <2>5, <2>8, <2>9, <2>10
<1> QED
  BY <1>1, <1>2 DEF UpdatePageNodes

\* migrate_pages keeps the types: it writes only to pages that are tracked.
LEMMA MigratePagesType ==
    ASSUME TypeOK, NEW pages \in SUBSET Page, NEW target \in {0, SLOW_NODE},
           MigratePages(pages, target)
    PROVE  /\ node' \in [Page -> {Absent, 0, SLOW_NODE}]
           /\ DOMAIN meta' = Tracked
           /\ meta' \in [Tracked -> PageMetadata]
           /\ totalMigrations' \in Nat
           /\ placed' \in Nat /\ unanswered' \in Nat
<1>1. PICK moved \in SUBSET pages, unwritten \in SUBSET pages :
          LET succeeded == Succeeded(pages, target, moved, unwritten)
          IN  /\ MovePages(pages, target, moved, unwritten)
              /\ node' = [p \in Page |-> IF p \in moved THEN target ELSE node[p]]
              /\ meta' = [p \in Tracked |-> IF p \in succeeded
                                            THEN [meta[p] EXCEPT !.node = target]
                                            ELSE meta[p]]
              /\ totalMigrations' = totalMigrations + Cardinality(succeeded)
              /\ placed' = placed + Cardinality(moved)
              /\ unanswered' = unanswered + Cardinality(unwritten)
  BY DEF MigratePages
<1> DEFINE succeeded == Succeeded(pages, target, moved, unwritten)
<1>2. succeeded \subseteq Page
  BY DEF Succeeded
<1>3. /\ Cardinality(succeeded) \in Nat /\ Cardinality(moved) \in Nat
      /\ Cardinality(unwritten) \in Nat
  BY <1>2, PagesFinite
<1>4. totalMigrations' \in Nat /\ placed' \in Nat /\ unanswered' \in Nat
  BY <1>1, <1>3 DEF TypeOK
<1>5. node' \in [Page -> {Absent, 0, SLOW_NODE}]
  BY <1>1 DEF TypeOK
<1>6. ASSUME NEW p \in Tracked
      PROVE  /\ meta[p] \in PageMetadata
             /\ [meta[p] EXCEPT !.node = target] \in PageMetadata
  <2>1. meta[p] \in PageMetadata
    BY DEF TypeOK
  <2> QED
    BY <2>1 DEF PageMetadata
<1>7. DOMAIN meta' = Tracked /\ meta' \in [Tracked -> PageMetadata]
  BY <1>1, <1>6
<1> QED
  BY <1>4, <1>5, <1>7

\* Every step of the daemon, the kernel or the workload keeps the types.
LEMMA TypeStep == TypeOK /\ [Next]_vars => TypeOK'
<1> SUFFICES ASSUME TypeOK, [Next]_vars PROVE TypeOK'
  OBVIOUS
<1> USE DEF TypeOK, Tracked
<1>1. CASE UNCHANGED vars
  BY <1>1 DEF vars
<1>2. CASE BeginEpoch
  <2>1. PICK sampled \in SUBSET Page : \E samples \in [sampled -> SampleCounts] :
            meta' = DetectAccesses(meta, samples)
    BY <1>2 DEF BeginEpoch
  <2>2. PICK samples \in [sampled -> SampleCounts] : meta' = DetectAccesses(meta, samples)
    BY <2>1
  <2>3. /\ DOMAIN meta' \subseteq Page
        /\ meta' \in [DOMAIN meta' -> PageMetadata]
    <3> DEFINE r == DetectAccesses(meta, samples)
    <3>1. DOMAIN meta \subseteq Page /\ meta \in [DOMAIN meta -> PageMetadata]
      OBVIOUS
    <3>2. DOMAIN r = DOMAIN meta \cup sampled /\ r \in [DOMAIN r -> PageMetadata]
      BY <3>1, DetectAccessesType
    <3> HIDE DEF r
    <3>3. meta' = r
      BY <2>2 DEF r
    <3> QED
      BY <3>1, <3>2, <3>3
  <2> QED
    BY <1>2, <2>3 DEF BeginEpoch, NoPlan, kernelVars, historyVars
<1>3. CASE QueryBeforePolicy
  <2>1. UpdatePageNodes
    BY <1>3 DEF QueryBeforePolicy
  <2> QED
    BY <1>3, <2>1, UpdatePageNodesType DEF QueryBeforePolicy, kernelVars
<1>4. CASE Decide
  <2>1. plan' \in Plans(policy, meta, fastCount)
    BY <1>4 DEF Decide
  <2>2. Contract(meta, fastCount, plan')
    BY <2>1, PagesFinite, PlansHonourContract, TieringAssumption
  <2>3. plan' \in [promote : SUBSET Page, demote : SUBSET Page]
    BY <2>2 DEF Contract, FastPages
  <2> QED
    BY <1>4, <2>3 DEF Decide, kernelVars, historyVars
<1>5. CASE Demote
  <2>1. /\ plan.demote \in SUBSET Page
        /\ MigratePages(plan.demote, SLOW_NODE)
    BY <1>5 DEF Demote
  <2>2. {p \in plan.demote : node'[p] = 0} \subseteq Page
    BY <2>1
  <2>3. debt' \in Nat
    BY <1>5, <2>2, PagesFinite DEF Demote
  <2> QED
    BY <1>5, <2>1, <2>3, MigratePagesType DEF Demote
<1>6. CASE Promote
  <2>1. /\ plan.promote \in SUBSET Page
        /\ MigratePages(plan.promote, 0)
    BY <1>6 DEF Promote
  <2> QED
    BY <1>6, <2>1, MigratePagesType DEF Promote
<1>7. CASE QueryAfterPolicy
  <2>1. UpdatePageNodes
    BY <1>7 DEF QueryAfterPolicy
  <2> QED
    BY <1>7, <2>1, UpdatePageNodesType DEF QueryAfterPolicy, kernelVars
<1>8. CASE Stop
  BY <1>8 DEF Stop, kernelVars, historyVars
<1>9. CASE Signal
  BY <1>9 DEF Signal, kernelVars, historyVars
<1>10. CASE Announce
  BY <1>10 DEF Announce, daemonVars, historyVars
<1>11. CASE Exit
  BY <1>11 DEF Exit, daemonVars, historyVars
<1>12. CASE Reap
  BY <1>12 DEF Reap, daemonVars, historyVars
<1>13. ASSUME NEW p \in Page, Map(p) PROVE TypeOK'
  BY <1>13 DEF Map, daemonVars, historyVars
<1>14. ASSUME NEW p \in Page, Unmap(p) PROVE TypeOK'
  BY <1>14 DEF Unmap, daemonVars, historyVars
<1> QED
  BY <1>1, <1>2, <1>3, <1>4, <1>5, <1>6, <1>7, <1>8, <1>9, <1>10, <1>11, <1>12,
     <1>13, <1>14 DEF Next, Daemon, Environment

\* The state keeps its type: pages_meta only ever holds pages of the workload
\* on node 0 or SLOW_NODE (pages a query reports absent are erased from it),
\* and the counters stay natural numbers.
THEOREM TypeCorrect == Spec => []TypeOK
<1>1. Init => TypeOK
  BY TypeInit
<1>2. TypeOK /\ [Next]_vars => TypeOK'
  BY TypeStep
<1> QED
  BY <1>1, <1>2, PTL DEF Spec

-----------------------------------------------------------------------------
(* The inductive invariant *)

Budget == FAST_TIER_CAPACITY + debt + lost

\* The inductive invariant holds when the daemon enters its loop.
LEMMA InvInit == Init => IInv
<1> SUFFICES ASSUME Init PROVE IInv
  OBVIOUS
<1>1. TypeOK
  BY TypeInit
<1>2. Fast = {}
  BY PoliciesAssumption DEF Init, Fast, Absent
<1>3. Cardinality(Fast) = 0 /\ Cardinality(Fast \ Tracked) = 0
  BY <1>2, FS_EmptySet
<1>4. CapacityBound /\ NoForgottenFastPage
  BY <1>3, PoliciesAssumption DEF Init, CapacityBound, NoForgottenFastPage
<1> QED
  BY <1>1, <1>2, <1>4
     DEF Init, IInv, DecisionSeesFastTier, CountFits, PlanFits, EmptyCountIsZero,
         GoneHasNoPages

\* Steps that at most shrink the fast tier and leave the daemon where it is:
\* signals, the workload's steps, and stuttering.
LEMMA ShrinkStep ==
    ASSUME IInv, TypeOK', Fast' \subseteq Fast,
           UNCHANGED <<pc, meta, fastCount, plan, debt, lost>>,
           proc' = "running" => proc = "running",
           proc' # "running" => Fast' = {}
    PROVE  IInv'
<1>1. /\ Fast \subseteq Page
      /\ IsFiniteSet(Fast)
  BY PagesFinite DEF Fast
<1>2. /\ Cardinality(Fast') <= Cardinality(Fast)
      /\ Cardinality(Fast' \ Tracked) <= Cardinality(Fast \ Tracked)
      /\ Cardinality(Fast' \ plan.demote) <= Cardinality(Fast \ plan.demote)
  <2>1. /\ IsFiniteSet(Fast \ Tracked) /\ Fast' \ Tracked \subseteq Fast \ Tracked
        /\ IsFiniteSet(Fast \ plan.demote)
        /\ Fast' \ plan.demote \subseteq Fast \ plan.demote
    BY <1>1, FS_Subset
  <2> QED
    BY <1>1, <2>1, FS_Subset
<1>3. /\ Cardinality(Fast') \in Nat /\ Cardinality(Fast) \in Nat
      /\ Cardinality(Fast' \ Tracked) \in Nat /\ Cardinality(Fast \ Tracked) \in Nat
      /\ Cardinality(Fast' \ plan.demote) \in Nat
      /\ Cardinality(Fast \ plan.demote) \in Nat
      /\ Cardinality(plan.promote) \in Nat
  <2>1. /\ Fast' \subseteq Page /\ Fast' \ Tracked \subseteq Page
        /\ Fast \ Tracked \subseteq Page
        /\ Fast' \ plan.demote \subseteq Page /\ Fast \ plan.demote \subseteq Page
        /\ plan.promote \subseteq Page
    BY <1>1 DEF IInv, TypeOK
  <2> QED
    BY <1>1, <2>1, PagesFinite
<1>4. /\ Tracked' = Tracked
      /\ FAST_TIER_CAPACITY \in Nat /\ debt \in Nat /\ lost \in Nat /\ fastCount \in Nat
  BY PoliciesAssumption DEF Tracked, IInv, TypeOK
<1>5. CapacityBound' /\ NoForgottenFastPage'
  BY <1>2, <1>3, <1>4 DEF IInv, CapacityBound, NoForgottenFastPage
<1>6. DecisionSeesFastTier'
  BY <1>4 DEF IInv, DecisionSeesFastTier, FastPages
<1>7. CountFits'
  BY <1>2, <1>3, <1>4 DEF IInv, CountFits
<1>8. PlanFits'
  <2>1. CASE pc = "demote"
    BY <1>2, <1>3, <1>4, <2>1 DEF IInv, PlanFits
  <2>2. CASE pc # "demote"
    BY <1>2, <1>3, <1>4, <2>2 DEF IInv, PlanFits
  <2> QED
    BY <2>1, <2>2
<1>9. EmptyCountIsZero' /\ GoneHasNoPages'
  BY <1>4 DEF IInv, EmptyCountIsZero, GoneHasNoPages
<1> QED
  BY <1>5, <1>6, <1>7, <1>8, <1>9 DEF IInv

\* What a refresh of the metadata establishes.
LEMMA QueryStep ==
    ASSUME IInv, UpdatePageNodes, UNCHANGED <<node, proc, debt>>
    PROVE  /\ CapacityBound' /\ NoForgottenFastPage' /\ EmptyCountIsZero'
           /\ GoneHasNoPages'
           /\ proc = "running" =>
                /\ (Fast \cap Tracked)' \subseteq FastPages(meta')
                /\ fastCount' = Cardinality(FastPages(meta'))
                /\ fastCount' + Cardinality((Fast \ Tracked)') <= Budget'
<1>1. /\ Fast' = Fast
      /\ Fast \subseteq Page
      /\ Fast \ Tracked \subseteq Page
      /\ IsFiniteSet(Fast)
      /\ Cardinality(Fast) \in Nat
      /\ Cardinality(Fast \ Tracked) \in Nat
  BY PagesFinite DEF Fast
<1>2. FAST_TIER_CAPACITY \in Nat /\ debt \in Nat /\ lost \in Nat /\ debt' = debt
  BY PoliciesAssumption DEF IInv, TypeOK
<1>3. GoneHasNoPages'
  BY <1>1 DEF IInv, GoneHasNoPages
<1>4. CASE UNCHANGED <<meta, fastCount, lost>> /\ (Tracked = {} \/ proc # "running")
  <2>1. Tracked' = Tracked
    BY <1>4 DEF Tracked
  <2>2. CapacityBound' /\ NoForgottenFastPage' /\ EmptyCountIsZero'
    BY <1>1, <1>2, <1>4, <2>1
       DEF IInv, CapacityBound, NoForgottenFastPage, EmptyCountIsZero
  <2>3. CASE Tracked = {}
    <3>1. fastCount = 0 /\ FastPages(meta) = {}
      BY <2>3 DEF IInv, EmptyCountIsZero, FastPages, Tracked
    <3>2. Fast \ Tracked = Fast /\ Fast \cap Tracked = {}
      BY <2>3
    <3>3. Cardinality(FastPages(meta)) = 0
      BY <3>1, FS_EmptySet
    <3>4. FastPages(meta') = {}
      BY <1>4, <3>1
    <3>5. fastCount' + Cardinality((Fast \ Tracked)') <= Budget'
      BY <1>1, <1>2, <1>4, <2>1, <3>1, <3>2 DEF IInv, CapacityBound, Budget
    <3> QED
      BY <1>1, <1>3, <1>4, <2>1, <2>2, <3>1, <3>2, <3>3, <3>4, <3>5
  <2>4. CASE proc # "running"
    BY <1>3, <2>2, <2>4
  <2> QED
    BY <1>4, <2>3, <2>4
<1>5. CASE Tracked # {} /\ proc = "running"
  <2>1. PICK missed \in SUBSET (Tracked \cap Resident) :
            Refresh([p \in Tracked |-> IF p \in missed THEN Absent ELSE node[p]])
    BY <1>5 DEF UpdatePageNodes
  <2> DEFINE status == [p \in Tracked |-> IF p \in missed THEN Absent ELSE node[p]]
             seen == {p \in Tracked : status[p] = 0}
             forgotten == {p \in Tracked \cap Fast : status[p] < 0}
  <2>2. Tracked \subseteq Page /\ node \in [Page -> {Absent, 0, SLOW_NODE}]
    BY DEF IInv, TypeOK
  <2>3. ASSUME NEW p \in Tracked
        PROVE  /\ status[p] = 0 <=> p \in Fast /\ p \notin missed
               /\ status[p] < 0 <=> p \in missed \/ node[p] = Absent
    BY <2>2, PoliciesAssumption DEF Absent, Fast
  <2>4. /\ meta' = [p \in Kept(status) |-> [meta[p] EXCEPT !.node = status[p]]]
        /\ fastCount' = Cardinality(seen)
        /\ lost' = lost + Cardinality(forgotten)
    BY <2>1 DEF Refresh
  <2> HIDE DEF status
  <2>5. /\ Tracked' = Kept(status)
        /\ seen \subseteq Kept(status)
        /\ Kept(status) \subseteq Tracked
    BY <2>4 DEF Tracked, Kept
  <2>6. \A p \in Kept(status) : meta'[p].node = status[p]
    <3> TAKE p \in Kept(status)
    <3>1. meta[p] \in PageMetadata
      BY <2>5 DEF IInv, TypeOK
    <3> QED
      BY <2>4, <3>1 DEF PageMetadata
  <2>7. FastPages(meta') = seen
    BY <2>5, <2>6 DEF FastPages, Tracked
  <2>8. /\ Fast \cap Kept(status) = seen
        /\ Fast \ Kept(status) = Fast \ seen
        /\ seen \subseteq Fast
        /\ Fast \ Kept(status) \subseteq (Fast \ Tracked) \cup forgotten
    <3>1. ASSUME NEW p \in Kept(status), p \in Fast PROVE p \in seen
      <4>1. node[p] = 0 /\ p \in Tracked
        BY <2>5, <3>1 DEF Fast
      <4>2. status[p] = 0 \/ status[p] > 0
        BY DEF Kept
      <4>3. ~(status[p] < 0)
        BY <4>1, <4>2, <2>3, PoliciesAssumption DEF Absent, status
      <4> QED
        BY <2>3, <3>1, <4>1, <4>3
    <3>2. ASSUME NEW p \in Fast, p \in Tracked, p \notin Kept(status)
          PROVE  p \in forgotten
      <4>1. status[p] # 0
        BY <2>5, <3>2
      <4> QED
        BY <2>3, <3>2, <4>1
    <3>3. seen \subseteq Fast
      BY <2>3
    <3> QED
      BY <2>5, <3>1, <3>2, <3>3
  <2> HIDE DEF seen, forgotten
  <2>9. /\ Cardinality(seen) \in Nat
        /\ Cardinality(Fast \ seen) \in Nat
        /\ Cardinality(Fast) = Cardinality(seen) + Cardinality(Fast \ seen)
    BY <1>1, <2>8, DisjointCardinality
  <2>10. forgotten \subseteq Page
    BY <2>2 DEF forgotten
  <2>11. /\ Cardinality(forgotten) \in Nat
         /\ Cardinality(Fast \ Kept(status))
                <= Cardinality(Fast \ Tracked) + Cardinality(forgotten)
    <3>1. IsFiniteSet(Fast \ Tracked) /\ IsFiniteSet(forgotten)
      BY <1>1, <2>10, PagesFinite
    <3> QED
      BY <2>8, <3>1, UnionCardinality
  <2>12. CapacityBound'
    BY <1>1, <1>2, <2>4, <2>11 DEF IInv, CapacityBound
  <2> DEFINE left == Cardinality(Fast \ Kept(status))
  <2>13. /\ Cardinality((Fast \ Tracked)') = left
         /\ left = Cardinality(Fast \ seen)
         /\ left \in Nat
    BY <1>1, <2>5, <2>8, <2>9
  <2> HIDE DEF left
  <2>14. /\ Cardinality(Fast \ Tracked) <= lost
         /\ Cardinality(Fast) <= FAST_TIER_CAPACITY + debt + lost
    BY DEF IInv, NoForgottenFastPage, CapacityBound
  <2>15. left <= Cardinality(Fast \ Tracked) + Cardinality(forgotten)
    BY <2>11 DEF left
  <2>16. NoForgottenFastPage'
    <3>1. left <= lost'
      BY <1>1, <1>2, <2>4, <2>11, <2>13, <2>14, <2>15
    <3> QED
      BY <2>13, <3>1 DEF NoForgottenFastPage
  <2>17. EmptyCountIsZero'
    <3>1. SUFFICES ASSUME Kept(status) = {} PROVE fastCount' = 0
      BY <2>5 DEF EmptyCountIsZero
    <3> QED
      BY <2>4, <2>5, <3>1, FS_EmptySet
  <2>18. fastCount' + Cardinality((Fast \ Tracked)') <= Budget'
    <3>1. fastCount' + left <= FAST_TIER_CAPACITY + debt' + lost'
      BY <1>1, <1>2, <2>4, <2>9, <2>11, <2>13, <2>14
    <3> QED
      BY <2>13, <3>1 DEF Budget
  <2> QED
    BY <1>1, <1>3, <2>4, <2>5, <2>7, <2>8, <2>12, <2>16, <2>17, <2>18
<1> QED
  BY <1>4, <1>5 DEF UpdatePageNodes

\* A plan of any policy fits the budget.
LEMMA DecideStep ==
    ASSUME IInv, Decide, TypeOK'
    PROVE  IInv'
<1>1. /\ UNCHANGED <<node, proc, meta, fastCount, debt, lost>>
      /\ pc = "decide" /\ pc' = "demote"
      /\ plan' \in Plans(policy, meta, fastCount)
  BY DEF Decide, kernelVars, historyVars
<1>2. Fast' = Fast /\ Tracked' = Tracked
  BY <1>1 DEF Fast, Tracked
<1>3. /\ CapacityBound' /\ NoForgottenFastPage' /\ EmptyCountIsZero' /\ GoneHasNoPages'
      /\ DecisionSeesFastTier' /\ CountFits'
  BY <1>1, <1>2 DEF IInv, CapacityBound, NoForgottenFastPage, EmptyCountIsZero,
                    GoneHasNoPages, DecisionSeesFastTier, CountFits
<1>4. Tracked \subseteq Page /\ fastCount \in Nat
  BY DEF IInv, TypeOK
<1>5. Contract(meta, fastCount, plan')
  <2>1. IsFiniteSet(DOMAIN meta) /\ policy \in PolicyNames
    BY <1>4, PagesFinite, TieringAssumption DEF Tracked, IInv, TypeOK
  <2> QED
    BY <1>1, <1>4, <2>1, PlansHonourContract
<1> DEFINE in == plan'.promote
           out == plan'.demote
           believed == FastPages(meta)
<1>6. /\ in \subseteq Tracked \ believed
      /\ out \subseteq believed
      /\ Cardinality(in) <= NonNegative(FAST_TIER_CAPACITY - fastCount) + Cardinality(out)
      /\ believed \subseteq Tracked
  BY <1>5 DEF Contract, FastPages, Tracked
<1>7. ASSUME proc = "running"
      PROVE  Cardinality(Fast \ out) + Cardinality(in) <= Budget
  <2>1. /\ Fast \cap Tracked \subseteq believed
        /\ fastCount = Cardinality(believed)
        /\ fastCount + Cardinality(Fast \ Tracked) <= Budget
        /\ Cardinality(Fast \ Tracked) <= lost
    BY <1>1, <1>7 DEF IInv, DecisionSeesFastTier, CountFits, NoForgottenFastPage, Budget
  <2>2. IsFiniteSet(believed) /\ IsFiniteSet(Fast \ Tracked) /\ Cardinality(in) \in Nat
    BY <1>4, <1>6, PagesFinite DEF Fast
  <2> HIDE DEF in, out, believed
  <2>3. /\ Cardinality(out) \in Nat
        /\ Cardinality(believed \ out) \in Nat
        /\ Cardinality(believed) = Cardinality(out) + Cardinality(believed \ out)
    BY <1>6, <2>2, DisjointCardinality
  <2>4. /\ Cardinality(Fast \ out) \in Nat
        /\ Cardinality(Fast \ Tracked) \in Nat
        /\ Cardinality(Fast \ out)
               <= Cardinality(believed \ out) + Cardinality(Fast \ Tracked)
    <3>1. IsFiniteSet(believed \ out)
      BY <2>2, FS_Subset
    <3>2. Fast \ out \subseteq (believed \ out) \cup (Fast \ Tracked)
      BY <2>1
    <3> QED
      BY <2>2, <3>1, <3>2, UnionCardinality
  <2>5. FAST_TIER_CAPACITY \in Nat /\ debt \in Nat /\ lost \in Nat
    BY PoliciesAssumption DEF IInv, TypeOK
  <2> QED
    BY <1>4, <1>6, <2>1, <2>2, <2>3, <2>4, <2>5 DEF NonNegative, Budget
<1>8. PlanFits'
  <2>1. SUFFICES ASSUME proc = "running"
                 PROVE  /\ in \cup out \subseteq Tracked
                        /\ in \cap out = {}
                        /\ Cardinality(Fast \ out) + Cardinality(in) <= Budget
    BY <1>1, <1>2 DEF PlanFits, Budget
  <2> QED
    BY <1>6, <1>7, <2>1
<1> QED
  BY <1>3, <1>8 DEF IInv

\* What move_pages leaves of the fast tier.
LEMMA MigrateStep ==
    ASSUME TypeOK, NEW pages \in SUBSET Page, NEW target \in {0, SLOW_NODE},
           MigratePages(pages, target)
    PROVE  /\ Tracked' = Tracked
           /\ target = 0 => Fast' \subseteq Fast \cup pages
           /\ target = SLOW_NODE => Fast' \subseteq Fast
           /\ proc # "running" => Fast' = Fast
<1>1. PICK moved \in SUBSET pages, unwritten \in SUBSET pages :
          /\ MovePages(pages, target, moved, unwritten)
          /\ node' = [p \in Page |-> IF p \in moved THEN target ELSE node[p]]
          /\ DOMAIN meta' = Tracked
  BY DEF MigratePages
<1>2. proc # "running" => moved = {}
  BY <1>1 DEF MovePages
<1>3. SLOW_NODE # 0
  BY PoliciesAssumption
<1> QED
  BY <1>1, <1>2, <1>3 DEF Fast, Tracked

\* A victim that stays fast is charged to debt.
LEMMA DemoteStep ==
    ASSUME IInv, Demote, TypeOK'
    PROVE  IInv'
<1> DEFINE stuck == {p \in plan.demote : node'[p] = 0}
<1>1. /\ UNCHANGED <<proc, fastCount, plan, lost>>
      /\ pc = "demote" /\ pc' = "promote"
      /\ debt' = debt + Cardinality(stuck)
      /\ MigratePages(plan.demote, SLOW_NODE)
  BY DEF Demote
<1>2. /\ TypeOK
      /\ plan.demote \in SUBSET Page /\ plan.promote \in SUBSET Page
      /\ FAST_TIER_CAPACITY \in Nat /\ debt \in Nat /\ lost \in Nat
  BY PoliciesAssumption DEF IInv, TypeOK
<1>3. Tracked' = Tracked /\ Fast' \subseteq Fast /\ (proc # "running" => Fast' = Fast)
  BY <1>1, <1>2, MigrateStep
<1>4. /\ Fast \subseteq Page /\ Fast \ Tracked \subseteq Page
      /\ Fast \ plan.demote \subseteq Page /\ stuck \subseteq Page
  BY <1>2 DEF Fast
<1>5. /\ IsFiniteSet(Fast) /\ Cardinality(Fast) \in Nat
      /\ IsFiniteSet(Fast \ Tracked) /\ Cardinality(Fast \ Tracked) \in Nat
      /\ IsFiniteSet(Fast \ plan.demote) /\ Cardinality(Fast \ plan.demote) \in Nat
      /\ IsFiniteSet(stuck) /\ Cardinality(stuck) \in Nat
      /\ Cardinality(plan.promote) \in Nat
  BY <1>2, <1>4, PagesFinite
<1> HIDE DEF stuck
<1>6. /\ Cardinality(Fast') \in Nat /\ Cardinality(Fast') <= Cardinality(Fast)
      /\ Cardinality(Fast' \ Tracked) \in Nat
      /\ Cardinality(Fast' \ Tracked) <= Cardinality(Fast \ Tracked)
  <2>1. Fast' \ Tracked \subseteq Fast \ Tracked
    BY <1>3
  <2> QED
    BY <1>3, <1>5, <2>1, SubsetCardinality
<1>7. CapacityBound' /\ NoForgottenFastPage'
  <2>1. Cardinality(Fast') <= FAST_TIER_CAPACITY + debt' + lost
    BY <1>1, <1>2, <1>5, <1>6 DEF IInv, CapacityBound
  <2>2. Cardinality(Fast' \ Tracked) <= lost
    BY <1>2, <1>5, <1>6 DEF IInv, NoForgottenFastPage
  <2> QED
    BY <1>1, <1>3, <2>1, <2>2 DEF CapacityBound, NoForgottenFastPage
<1>8. PlanFits'
  <2>1. SUFFICES ASSUME proc = "running"
                 PROVE  /\ plan.promote \cup plan.demote \subseteq Tracked
                        /\ plan.promote \cap plan.demote = {}
                        /\ Cardinality(Fast') + Cardinality(plan.promote)
                              <= FAST_TIER_CAPACITY + debt' + lost
    BY <1>1, <1>3 DEF PlanFits
  <2>2. /\ plan.promote \cup plan.demote \subseteq Tracked
        /\ plan.promote \cap plan.demote = {}
        /\ Cardinality(Fast \ plan.demote) + Cardinality(plan.promote)
              <= FAST_TIER_CAPACITY + debt + lost
    BY <1>1, <2>1 DEF IInv, PlanFits
  <2>3. Fast' \subseteq (Fast \ plan.demote) \cup stuck
    BY <1>3 DEF stuck, Fast
  <2>4. Cardinality(Fast') <= Cardinality(Fast \ plan.demote) + Cardinality(stuck)
    BY <1>5, <2>3, UnionCardinality
  <2> QED
    BY <1>1, <1>2, <1>5, <1>6, <2>2, <2>4
<1>9. EmptyCountIsZero' /\ GoneHasNoPages' /\ DecisionSeesFastTier' /\ CountFits'
  BY <1>1, <1>3 DEF IInv, EmptyCountIsZero, GoneHasNoPages, DecisionSeesFastTier, CountFits
<1> QED
  BY <1>7, <1>8, <1>9 DEF IInv

\* The promotions of a plan that fits stay within the budget.
LEMMA PromoteStep ==
    ASSUME IInv, Promote, TypeOK'
    PROVE  IInv'
<1>1. /\ UNCHANGED <<proc, fastCount, plan, debt, lost>>
      /\ pc = "promote" /\ pc' = "query2"
      /\ MigratePages(plan.promote, 0)
  BY DEF Promote
<1>2. /\ TypeOK
      /\ plan.promote \in SUBSET Page
      /\ FAST_TIER_CAPACITY \in Nat /\ debt \in Nat /\ lost \in Nat
  BY PoliciesAssumption DEF IInv, TypeOK
<1>3. /\ Tracked' = Tracked
      /\ Fast' \subseteq Fast \cup plan.promote
      /\ proc # "running" => Fast' = Fast
  BY <1>1, <1>2, MigrateStep
<1>4. /\ IsFiniteSet(Fast) /\ IsFiniteSet(plan.promote) /\ IsFiniteSet(Fast \ Tracked)
  BY <1>2, PagesFinite DEF Fast
<1>5. CapacityBound' /\ NoForgottenFastPage'
  <2>1. CASE proc = "running"
    <3>1. /\ plan.promote \subseteq Tracked
          /\ Cardinality(Fast) + Cardinality(plan.promote)
                <= FAST_TIER_CAPACITY + debt + lost
      BY <1>1, <2>1 DEF IInv, PlanFits
    <3>2. /\ Cardinality(Fast') \in Nat
          /\ Cardinality(Fast) \in Nat
          /\ Cardinality(plan.promote) \in Nat
          /\ Cardinality(Fast') <= Cardinality(Fast) + Cardinality(plan.promote)
      BY <1>3, <1>4, UnionCardinality
    <3>3. Cardinality(Fast') <= FAST_TIER_CAPACITY + debt + lost
      BY <1>2, <3>1, <3>2
    <3>4. Fast' \ Tracked \subseteq Fast \ Tracked
      BY <1>3, <3>1
    <3>5. /\ Cardinality(Fast' \ Tracked) \in Nat
          /\ Cardinality(Fast \ Tracked) \in Nat
          /\ Cardinality(Fast' \ Tracked) <= Cardinality(Fast \ Tracked)
      BY <1>4, <3>4, SubsetCardinality
    <3>6. Cardinality(Fast' \ Tracked) <= lost
      BY <1>2, <3>5 DEF IInv, NoForgottenFastPage
    <3> QED
      BY <1>1, <1>3, <3>3, <3>6 DEF CapacityBound, NoForgottenFastPage
  <2>2. CASE proc # "running"
    BY <1>1, <1>3, <2>2 DEF IInv, CapacityBound, NoForgottenFastPage
  <2> QED
    BY <2>1, <2>2
<1>6. GoneHasNoPages' /\ EmptyCountIsZero' /\ DecisionSeesFastTier' /\ CountFits' /\ PlanFits'
  BY <1>1, <1>3 DEF IInv, EmptyCountIsZero, GoneHasNoPages, DecisionSeesFastTier,
                    CountFits, PlanFits
<1> QED
  BY <1>5, <1>6 DEF IInv

\* A new epoch only adds tracked pages, believed slow, and forgets the old plan.
LEMMA BeginEpochStep ==
    ASSUME IInv, BeginEpoch, TypeOK'
    PROVE  IInv'
<1>1. PICK sampled \in SUBSET Page : \E samples \in [sampled -> SampleCounts] :
          meta' = DetectAccesses(meta, samples)
  BY DEF BeginEpoch
<1>2. Tracked \subseteq Tracked'
  BY <1>1 DEF DetectAccesses, Tracked
<1>3. /\ pc' = "query1"
      /\ UNCHANGED <<node, proc, fastCount, debt, lost>>
  BY DEF BeginEpoch, kernelVars, historyVars
<1>4. Fast' = Fast
  BY <1>3 DEF Fast
<1>5. IsFiniteSet(Fast \ Tracked) /\ lost \in Nat
  BY PagesFinite DEF Fast, IInv, TypeOK
<1>6. Fast \ Tracked' \subseteq Fast \ Tracked
  BY <1>2
<1>7. /\ Cardinality(Fast \ Tracked') \in Nat /\ Cardinality(Fast \ Tracked) \in Nat
      /\ Cardinality(Fast \ Tracked') <= Cardinality(Fast \ Tracked)
  BY <1>5, <1>6, SubsetCardinality
<1>8. NoForgottenFastPage'
  BY <1>3, <1>4, <1>5, <1>7 DEF IInv, NoForgottenFastPage
<1>9. EmptyCountIsZero'
  BY <1>2, <1>3 DEF IInv, EmptyCountIsZero
<1> QED
  BY <1>3, <1>4, <1>8, <1>9
     DEF IInv, CapacityBound, DecisionSeesFastTier, CountFits, PlanFits, GoneHasNoPages

\* Every step of the daemon, the kernel or the workload keeps the invariant.
LEMMA InvStep == IInv /\ [Next]_vars => IInv'
<1> SUFFICES ASSUME IInv, [Next]_vars PROVE IInv'
  OBVIOUS
<1>0. TypeOK'
  BY TypeStep DEF IInv
<1> DEFINE Quiet == UNCHANGED <<pc, meta, fastCount, plan, debt, lost>>
<1>1. CASE UNCHANGED vars
  <2>1. Quiet /\ proc' = proc /\ Fast' = Fast
    BY <1>1 DEF vars, Fast
  <2> QED
    BY <1>0, <2>1, ShrinkStep DEF IInv, GoneHasNoPages
<1>2. CASE BeginEpoch
  BY <1>0, <1>2, BeginEpochStep
<1>3. CASE QueryBeforePolicy
  <2>1. /\ UpdatePageNodes /\ UNCHANGED <<node, proc, debt>>
        /\ pc' = "decide"
    BY <1>3 DEF QueryBeforePolicy, kernelVars
  <2>2. /\ CapacityBound' /\ NoForgottenFastPage' /\ EmptyCountIsZero' /\ GoneHasNoPages'
        /\ proc = "running" =>
              /\ (Fast \cap Tracked)' \subseteq FastPages(meta')
              /\ fastCount' = Cardinality(FastPages(meta'))
              /\ fastCount' + Cardinality((Fast \ Tracked)') <= Budget'
    BY <2>1, QueryStep
  <2> QED
    BY <1>0, <2>1, <2>2 DEF IInv, DecisionSeesFastTier, CountFits, PlanFits, Budget
<1>4. CASE Decide
  BY <1>0, <1>4, DecideStep
<1>5. CASE Demote
  BY <1>0, <1>5, DemoteStep
<1>6. CASE Promote
  BY <1>0, <1>6, PromoteStep
<1>7. CASE QueryAfterPolicy
  <2>1. /\ UpdatePageNodes /\ UNCHANGED <<node, proc, debt>>
        /\ pc' = "top"
    BY <1>7 DEF QueryAfterPolicy, kernelVars
  <2>2. CapacityBound' /\ NoForgottenFastPage' /\ EmptyCountIsZero' /\ GoneHasNoPages'
    BY <2>1, QueryStep
  <2> QED
    BY <1>0, <2>1, <2>2 DEF IInv, DecisionSeesFastTier, CountFits, PlanFits
<1>8. CASE Stop
  <2>1. /\ UNCHANGED <<node, proc, meta, fastCount, plan, debt, lost>>
        /\ pc' = "stopped"
    BY <1>8 DEF Stop, kernelVars, historyVars
  <2>2. Fast' = Fast /\ Tracked' = Tracked
    BY <2>1 DEF Fast, Tracked
  <2> QED
    BY <1>0, <2>1, <2>2
       DEF IInv, CapacityBound, NoForgottenFastPage, DecisionSeesFastTier, CountFits,
           PlanFits, EmptyCountIsZero, GoneHasNoPages
<1>9. CASE Signal \/ Announce \/ Reap
  <2>1. /\ Quiet /\ Fast' = Fast
        /\ proc' = "running" => proc = "running"
        /\ proc' # "running" => proc # "running"
    BY <1>9 DEF Signal, Announce, Reap, kernelVars, historyVars, daemonVars, Fast
  <2> QED
    BY <1>0, <2>1, ShrinkStep DEF IInv, GoneHasNoPages
<1>10. CASE Exit
  <2>1. /\ Quiet /\ proc = "running" /\ Fast' = {}
    BY <1>10 DEF Exit, historyVars, daemonVars, Fast, Absent
  <2> QED
    BY <1>0, <2>1, ShrinkStep
<1>11. ASSUME NEW p \in Page, Map(p) \/ Unmap(p) PROVE IInv'
  <2>1. /\ Quiet /\ proc' = proc /\ proc = "running"
    BY <1>11 DEF Map, Unmap, historyVars, daemonVars
  <2>2. Fast' \subseteq Fast
    BY <1>11, PoliciesAssumption DEF Map, Unmap, Fast, Absent, IInv, TypeOK
  <2> QED
    BY <1>0, <2>1, <2>2, ShrinkStep
<1> QED
  BY <1>1, <1>2, <1>3, <1>4, <1>5, <1>6, <1>7, <1>8, <1>9, <1>10, <1>11
     DEF Next, Daemon, Environment

\* The inductive invariant holds in every reachable state.
THEOREM Invariance == Spec => []IInv
<1>1. Init => IInv
  BY InvInit
<1>2. IInv /\ [Next]_vars => IInv'
  BY InvStep
<1> QED
  BY <1>1, <1>2, PTL DEF Spec

\* The fast tier never exceeds its capacity by more than the demotions that
\* failed and the fast pages that queries lost: for every policy, with any
\* unmapping, remapping, failed, partial or aborted move_pages call, and the
\* end of the workload at any point of an epoch.
THEOREM CapacityHolds == Spec => []CapacityBound
<1>1. IInv => CapacityBound
  BY DEF IInv
<1> QED
  BY <1>1, Invariance, PTL

\* The purge of idle metadata never forgets a page of the fast tier; only a
\* query that misses a mapped page does.
THEOREM FastPagesTracked == Spec => []NoForgottenFastPage
<1>1. IInv => NoForgottenFastPage
  BY DEF IInv
<1> QED
  BY <1>1, Invariance, PTL

\* Each decision is taken on a count that equals the pages believed fast, and
\* no tracked fast page is believed slow.
THEOREM DecisionsInformed == Spec => []DecisionSeesFastTier
<1>1. IInv => DecisionSeesFastTier
  BY DEF IInv
<1> QED
  BY <1>1, Invariance, PTL

\* A plan still fits the fast tier when it is carried out, and neither list
\* names a page that is untracked or on the other list.
THEOREM PlansFit == Spec => []PlanFits
<1>1. IInv => PlanFits
  BY DEF IInv
<1> QED
  BY <1>1, Invariance, PTL
-----------------------------------------------------------------------------
(* The decision itself, and the accounting *)

\* The comparators of LRU and LFU are strict weak orders on the tracked pages.
LEMMA HotterIsWeakOrder ==
    ASSUME NEW m, m \in [DOMAIN m -> PageMetadata],
           NEW hotter \in {LRUHotter(m), LFUHotter(m)}
    PROVE  /\ hotter \in SUBSET ((DOMAIN m) \X (DOMAIN m))
           /\ NegativelyTransitive(DOMAIN m, hotter)
           /\ \A p \in DOMAIN m : <<p, p>> \notin hotter
<1>1. \A p \in DOMAIN m : m[p].esa \in Nat /\ m[p].count \in Nat
  BY DEF PageMetadata
<1>2. CASE hotter = LRUHotter(m)
  <2>1. \A a, b \in DOMAIN m :
           <<a, b>> \in hotter <=> \/ m[a].esa < m[b].esa
                                   \/ m[a].esa = m[b].esa /\ m[a].count > m[b].count
    BY <1>2 DEF LRUHotter
  <2>2. hotter \in SUBSET ((DOMAIN m) \X (DOMAIN m))
    BY <1>2 DEF LRUHotter
  <2> QED
    BY <1>1, <2>1, <2>2 DEF NegativelyTransitive
<1>3. CASE hotter = LFUHotter(m)
  <2>1. \A a, b \in DOMAIN m :
           <<a, b>> \in hotter <=> \/ m[a].count > m[b].count
                                   \/ m[a].count = m[b].count /\ m[a].esa < m[b].esa
    BY <1>3 DEF LFUHotter
  <2>2. hotter \in SUBSET ((DOMAIN m) \X (DOMAIN m))
    BY <1>3 DEF LFUHotter
  <2> QED
    BY <1>1, <2>1, <2>2 DEF NegativelyTransitive
<1> QED
  BY <1>2, <1>3

\* What LRU or LFU decides leaves nothing hotter behind.
LEMMA DecideLeavesNoHotter ==
    ASSUME TypeOK, Decide
    PROVE  NoHotterLeftBehind'
<1>1. plan' \in Plans(policy, meta, fastCount) /\ UNCHANGED <<meta, policy>>
  BY DEF Decide
<1>2. /\ meta \in [DOMAIN meta -> PageMetadata]
      /\ IsFiniteSet(DOMAIN meta)
      /\ fastCount \in Int
  BY PagesFinite DEF TypeOK, Tracked
<1> DEFINE hotter == IF policy = "lru" THEN LRUHotter(meta) ELSE LFUHotter(meta)
<1>3. SUFFICES ASSUME policy \in {"lru", "lfu"},
                      Cardinality(plan'.promote) < MAX_PROMOTIONS_PER_EPOCH,
                      NEW c \in SlowHotPages(meta) \ plan'.promote,
                      NEW v \in FastPages(meta) \ plan'.demote
               PROVE  <<c, v>> \notin hotter
  BY <1>1 DEF NoHotterLeftBehind
<1>4. plan' \in BaselinePlans(meta, fastCount, hotter)
  BY <1>1, <1>3 DEF Plans
<1>5. hotter \in {LRUHotter(meta), LFUHotter(meta)}
  OBVIOUS
<1> HIDE DEF hotter
<1>6. /\ hotter \in SUBSET ((DOMAIN meta) \X (DOMAIN meta))
      /\ NegativelyTransitive(DOMAIN meta, hotter)
      /\ \A p \in DOMAIN meta : <<p, p>> \notin hotter
  BY <1>2, <1>5, HotterIsWeakOrder
<1>7. PICK d : d = plan'
  OBVIOUS
<1> QED
  BY <1>2, <1>3, <1>4, <1>6, <1>7, GreedyLeavesNoHotter

\* With LRU and LFU the loop may stop at the first candidate that is not hotter
\* than its victim: unless the cap on promotions ended it, no sampled slow page
\* left behind is hotter than a page left in the fast tier, whatever the
\* metadata, the size of the tiers and the way std::sort orders equal pages.
THEOREM NothingHotterLeft == Spec => []NoHotterLeftBehind
<1>1. Init => NoHotterLeftBehind
  BY DEF Init, NoHotterLeftBehind
<1>2. IInv /\ NoHotterLeftBehind /\ [Next]_vars => NoHotterLeftBehind'
  <2> SUFFICES ASSUME IInv, NoHotterLeftBehind, [Next]_vars PROVE NoHotterLeftBehind'
    OBVIOUS
  <2>1. CASE Decide
    BY <2>1, DecideLeavesNoHotter DEF IInv
  <2>2. CASE UNCHANGED <<policy, pc, meta, plan>>
    BY <2>2 DEF NoHotterLeftBehind
  <2>3. CASE pc' # "demote"
    BY <2>3 DEF NoHotterLeftBehind
  <2>4. CASE Daemon
    BY <2>1, <2>3, <2>4
       DEF Daemon, BeginEpoch, QueryBeforePolicy, Demote, Promote, QueryAfterPolicy, Stop
  <2>5. CASE Environment
    BY <2>2, <2>5 DEF Environment, Signal, Announce, Exit, Reap, Map, Unmap, daemonVars
  <2>6. CASE UNCHANGED vars
    BY <2>2, <2>6 DEF vars
  <2> QED
    BY <2>4, <2>5, <2>6 DEF Next
<1> QED
  BY <1>1, <1>2, Invariance, PTL DEF Spec

\* The error of one move_pages call is at most its unwritten status entries.
LEMMA CallMiscount ==
    ASSUME NEW pages, IsFiniteSet(pages), NEW target, MigratePages(pages, target),
           TypeOK, MiscountBound
    PROVE  MiscountBound'
<1>1. PICK moved \in SUBSET pages, unwritten \in SUBSET pages :
          /\ totalMigrations' =
                 totalMigrations + Cardinality(Succeeded(pages, target, moved, unwritten))
          /\ placed' = placed + Cardinality(moved)
          /\ unanswered' = unanswered + Cardinality(unwritten)
  BY DEF MigratePages
<1> DEFINE succeeded == Succeeded(pages, target, moved, unwritten)
<1>2. /\ succeeded \subseteq moved \cup unwritten
      /\ moved \subseteq succeeded \cup unwritten
      /\ succeeded \subseteq pages
  BY DEF Succeeded
<1> HIDE DEF succeeded
<1>3. IsFiniteSet(moved) /\ IsFiniteSet(unwritten) /\ IsFiniteSet(succeeded)
  BY <1>2, FS_Subset
<1>4. /\ Cardinality(moved) \in Nat /\ Cardinality(unwritten) \in Nat
      /\ Cardinality(succeeded) \in Nat
  BY <1>3, FS_CardinalityType
<1>5. ASSUME NEW S, NEW T, NEW U, IsFiniteSet(T), IsFiniteSet(U), S \subseteq T \cup U
      PROVE  Cardinality(S) <= Cardinality(T) + Cardinality(U)
  <2>1. IsFiniteSet(T \cup U) /\ Cardinality(T \cup U)
            = Cardinality(T) + Cardinality(U) - Cardinality(T \cap U)
    BY <1>5, FS_Union
  <2>2. IsFiniteSet(S) /\ Cardinality(S) <= Cardinality(T \cup U)
    BY <1>5, <2>1, FS_Subset
  <2>3. IsFiniteSet(T \cap U)
    BY <1>5, FS_Intersection
  <2>4. /\ Cardinality(S) \in Nat /\ Cardinality(T) \in Nat /\ Cardinality(U) \in Nat
        /\ Cardinality(T \cap U) \in Nat
    BY <1>5, <2>2, <2>3, FS_CardinalityType
  <2> QED BY <2>1, <2>2, <2>4
<1>6. /\ Cardinality(succeeded) <= Cardinality(moved) + Cardinality(unwritten)
      /\ Cardinality(moved) <= Cardinality(succeeded) + Cardinality(unwritten)
  BY <1>2, <1>3, <1>5
<1>7. totalMigrations' = totalMigrations + Cardinality(succeeded)
  BY <1>1 DEF succeeded
<1> QED
  BY <1>1, <1>4, <1>6, <1>7 DEF MiscountBound, TypeOK

\* total_migrations differs from the number of pages the kernel placed by no
\* more than the status entries it never wrote: busy pages are never counted,
\* pages already in place are.
THEOREM AccountingHolds == Spec => []MiscountBound
<1>1. Init => MiscountBound
  BY DEF Init, MiscountBound
<1>2. TypeOK /\ MiscountBound /\ [Next]_vars => MiscountBound'
  <2> SUFFICES ASSUME TypeOK, MiscountBound, [Next]_vars PROVE MiscountBound'
    OBVIOUS
  <2>1. CASE UNCHANGED <<totalMigrations, placed, unanswered>>
    BY <2>1 DEF MiscountBound
  <2>2. IsFiniteSet(plan.promote) /\ IsFiniteSet(plan.demote)
    BY PagesFinite DEF TypeOK
  <2>3. CASE Demote \/ Promote
    BY <2>2, <2>3, CallMiscount DEF Demote, Promote
  <2>4. CASE Daemon
    BY <2>1, <2>3, <2>4
       DEF Daemon, BeginEpoch, QueryBeforePolicy, Decide, QueryAfterPolicy, Stop,
           kernelVars, historyVars
  <2>5. CASE Environment
    BY <2>1, <2>5 DEF Environment, Signal, Announce, Exit, Reap, Map, Unmap, daemonVars,
                      kernelVars, historyVars
  <2>6. CASE UNCHANGED vars
    BY <2>1, <2>6 DEF vars
  <2> QED
    BY <2>4, <2>5, <2>6 DEF Next
<1> QED
  BY <1>1, <1>2, TypeCorrect, PTL DEF Spec

-----------------------------------------------------------------------------
(* The change-point detector, for every length of the phases, every pair   *)
(* of margins and every stream of observations.                            *)
USE CusumAssumption DEF Margin, Never

(* The sums and the age, and what they are at a change point.              *)
SumsInv ==
    /\ S_high \in Nat /\ S_low \in Nat
    /\ sinceDetection \in Nat /\ sinceDetection <= Never
    /\ detected \in BOOLEAN
    /\ observations \in Nat
    /\ detected => S_high = 0 /\ S_low = 0 /\ sinceDetection = 0

(* The margins in force are those of some age, which the present age has   *)
(* reached unless it has just been reset.                                  *)
MarginsInv ==
    /\ stable \in Margin
    /\ \E age \in Nat : /\ age <= Never
                        /\ margins = MarginsAt(age)
                        /\ ~detected => age <= sinceDetection

-----------------------------------------------------------------------------
(* The update of the detector keeps the sums natural, and the sums and the *)
(* age are reset where it reports a change point.                          *)
LEMMA UpdateKeepsSums ==
    ASSUME SumsInv, Update
    PROVE  SumsInv' /\ sinceDetection' = IF detected' THEN 0 ELSE Older(sinceDetection)
<1>1. PICK dev \in Deviations, k \in HalfSigmas :
          IF observations' < WARM_UP \/ k = 0
          THEN detected' = FALSE /\ outlier' = FALSE /\ UNCHANGED <<S_high, S_low>>
          ELSE Accumulate(dev, k) /\ outlier' = (dev > 9 * k \/ -dev > 9 * k)
  BY DEF Update
<1>2. dev \in Int /\ k \in Nat
  OBVIOUS
<1>3. /\ S_high' \in Nat /\ S_low' \in Nat /\ detected' \in BOOLEAN
      /\ detected' => S_high' = 0 /\ S_low' = 0
  <2>1. CASE observations' < WARM_UP \/ k = 0
    BY <1>1, <2>1 DEF SumsInv
  <2>2. CASE ~(observations' < WARM_UP \/ k = 0)
    BY <1>1, <1>2, <2>2 DEF SumsInv, Accumulate, Positive
  <2> QED BY <2>1, <2>2
<1>4. observations' \in Nat
  BY DEF Update, SumsInv
<1>5. sinceDetection' = IF detected' THEN 0 ELSE Older(sinceDetection)
  BY DEF Update
<1>6. sinceDetection' \in Nat /\ sinceDetection' <= Never
  BY <1>5 DEF Older, SumsInv
<1> QED BY <1>3, <1>4, <1>5, <1>6 DEF SumsInv

(* It holds at the start.                                                  *)
LEMMA InitSums == CusumInit => SumsInv
<1> SUFFICES ASSUME CusumInit PROVE SumsInv
  OBVIOUS
<1>1. detected \in BOOLEAN /\ ~detected
  BY Zenon DEF CusumInit
<1>2. /\ S_high \in Nat /\ S_low \in Nat /\ observations \in Nat
      /\ sinceDetection \in Nat /\ sinceDetection <= Never
  BY DEF CusumInit
<1> QED BY <1>1, <1>2, Zenon DEF SumsInv

(* The sums and the age are as SumsInv says in every behaviour.            *)
THEOREM SumsAreReset == CusumSpec => []SumsInv
<1>1. CusumInit => SumsInv
  BY InitSums
<1>2. SumsInv /\ [Execute]_cusumVars => SumsInv'
  <2> SUFFICES ASSUME SumsInv, [Execute]_cusumVars PROVE SumsInv'
    OBVIOUS
  <2>1. CASE Execute
    BY <2>1, UpdateKeepsSums DEF Execute
  <2>2. CASE UNCHANGED cusumVars
    BY <2>2 DEF SumsInv, cusumVars
  <2> QED BY <2>1, <2>2
<1> QED BY <1>1, <1>2, PTL DEF CusumSpec

-----------------------------------------------------------------------------
(* No evidence counts for two reports (cusum.cpp:24-29): the sums start    *)
(* again from nothing, so that only an observation which passes the test   *)
(* alone is reported right after a change point.                           *)
THEOREM EvidenceCountsOnce == CusumSpec => ReportedOnce
<1>1. SumsInv /\ [Execute]_cusumVars => [detected /\ detected' => outlier']_cusumVars
  <2> SUFFICES ASSUME SumsInv, Execute, detected, detected' PROVE outlier'
    OBVIOUS
  <2>1. PICK dev \in Deviations, k \in HalfSigmas :
            IF observations' < WARM_UP \/ k = 0
            THEN detected' = FALSE /\ outlier' = FALSE /\ UNCHANGED <<S_high, S_low>>
            ELSE Accumulate(dev, k) /\ outlier' = (dev > 9 * k \/ -dev > 9 * k)
    BY DEF Execute, Update
  <2>2. Accumulate(dev, k) /\ outlier' = (dev > 9 * k \/ -dev > 9 * k)
    BY <2>1
  <2>3. dev \in Int /\ k \in Nat
    OBVIOUS
  <2>4. S_high = 0 /\ S_low = 0
    BY DEF SumsInv
  <2>5. detected' = (Positive(S_high + dev - k) > 8 * k \/ Positive(S_low - dev - k) > 8 * k)
    BY <2>2, Zenon DEF Accumulate
  <2>6. Positive(0 + dev - k) > 8 * k \/ Positive(0 - dev - k) > 8 * k
    BY <2>4, <2>5, Zenon
  <2>7. dev > 9 * k \/ -dev > 9 * k
    BY <2>3, <2>6 DEF Positive
  <2> QED BY <2>2, <2>7, Zenon
<1> QED BY <1>1, SumsAreReset, PTL DEF CusumSpec, ReportedOnce

-----------------------------------------------------------------------------
(* A product with a natural number keeps the order.                        *)
LEMMA ProductMonotone ==
    ASSUME NEW m \in Int, NEW n \in Int, m <= n, NEW d \in Int, 0 <= d
    PROVE  m * d <= n * d
<1>1. (n - m) * d >= 0
  BY Z3
<1>2. (n - m) * d = n * d - m * d
  BY Z3
<1> QED BY <1>1, <1>2, Z3

(* The interpolation towards a higher margin grows with the age.           *)
LEMMA InterpolatedMonotone ==
    ASSUME NEW from \in Nat, NEW to \in Nat, from <= to,
           NEW a \in Nat, NEW b \in Nat, a <= b
    PROVE  /\ Interpolated(from, to, a) \in Int
           /\ Interpolated(from, to, a) <= Interpolated(from, to, b)
<1> DEFINE L == TRANSITION_LENGTH
           d == to - from
           Mid(age) == from * L + (age - REACT_EPOCHS) * d
<1>1. L \in Nat /\ d \in Nat /\ from * L \in Int /\ to * L \in Int
  BY DEF TRANSITION_LENGTH
<1>2. ASSUME NEW m \in Int, NEW n \in Int, m <= n PROVE m * d <= n * d
  BY <1>1, <1>2, ProductMonotone
<1>3. to * L = from * L + L * d
  BY <1>1, Z3
<1>4. ASSUME NEW age \in Nat
      PROVE  /\ (age - REACT_EPOCHS) * d \in Int /\ L * d \in Int
             /\ age >= REACT_EPOCHS => (age - REACT_EPOCHS) * d >= 0
             /\ age <= TRANSITION_EPOCHS => (age - REACT_EPOCHS) * d <= L * d
  <2>1. (age - REACT_EPOCHS) * d \in Int /\ L * d \in Int
    BY <1>1
  <2>2. age >= REACT_EPOCHS => 0 * d <= (age - REACT_EPOCHS) * d
    BY <1>2
  <2>3. age <= TRANSITION_EPOCHS => (age - REACT_EPOCHS) * d <= L * d
    BY <1>2 DEF TRANSITION_LENGTH
  <2> QED BY <1>1, <2>1, <2>2, <2>3
<1>5. (a - REACT_EPOCHS) * d <= (b - REACT_EPOCHS) * d
  BY <1>2
<1>6. ASSUME NEW age \in Nat
      PROVE  Interpolated(from, to, age) =
               IF age <= REACT_EPOCHS THEN from * L
               ELSE IF age <= TRANSITION_EPOCHS THEN Mid(age) ELSE to * L
  BY DEF Interpolated, Phase
<1> HIDE DEF L, d
<1>7. Interpolated(from, to, a) \in Int
  BY <1>1, <1>4, <1>6
<1>8. Interpolated(from, to, a) <= Interpolated(from, to, b)
  <2>1. CASE b <= REACT_EPOCHS
    BY <1>1, <1>6, <2>1
  <2>2. CASE a <= REACT_EPOCHS /\ b > REACT_EPOCHS
    BY <1>1, <1>3, <1>4, <1>6, <2>2
  <2>3. CASE a > REACT_EPOCHS /\ b <= TRANSITION_EPOCHS
    BY <1>1, <1>4, <1>5, <1>6, <2>3
  <2>4. CASE a > REACT_EPOCHS /\ b > TRANSITION_EPOCHS
    <3>1. Interpolated(from, to, b) = to * L
      BY <1>6, <2>4
    <3>2. CASE a > TRANSITION_EPOCHS
      BY <1>1, <1>6, <2>4, <3>1, <3>2
    <3>3. CASE a <= TRANSITION_EPOCHS
      <4>1. Interpolated(from, to, a) = Mid(a)
        BY <1>6, <2>4, <3>3
      <4>2. (a - REACT_EPOCHS) * d \in Int /\ (a - REACT_EPOCHS) * d <= L * d /\ L * d \in Int
        BY <1>4, <3>3
      <4> QED BY <1>1, <1>3, <3>1, <4>1, <4>2
    <3> QED BY <3>2, <3>3
  <2> QED BY <2>1, <2>2, <2>3, <2>4
<1> QED BY <1>7, <1>8

(* The interpolation back is its mirror image.                             *)
LEMMA InterpolatedMirror ==
    ASSUME NEW from \in Nat, NEW to \in Nat, NEW age \in Nat
    PROVE  Interpolated(from, to, age)
             = (from * TRANSITION_LENGTH + to * TRANSITION_LENGTH) - Interpolated(to, from, age)
<1> DEFINE L == TRANSITION_LENGTH
           x == age - REACT_EPOCHS
<1>1. /\ L \in Int /\ x \in Int
      /\ x * (to - from) = -(x * (from - to))
      /\ from * L \in Int /\ to * L \in Int
      /\ x * (to - from) \in Int /\ x * (from - to) \in Int
  BY DEF TRANSITION_LENGTH
<1>2. ASSUME NEW m \in Nat, NEW n \in Nat
      PROVE  Interpolated(m, n, age) =
               IF age <= REACT_EPOCHS THEN m * L
               ELSE IF age <= TRANSITION_EPOCHS THEN m * L + x * (n - m) ELSE n * L
  BY DEF Interpolated, Phase
<1> HIDE DEF L, x
<1>3. Interpolated(from, to, age) = (from * L + to * L) - Interpolated(to, from, age)
  BY <1>1, <1>2
<1> QED BY <1>3 DEF L

(* Whichever end is the higher, each age is nearer to the stable one.      *)
LEMMA InterpolatedApproaches ==
    ASSUME NEW from \in Nat, NEW to \in Nat,
           NEW a \in Nat, NEW b \in Nat, NEW c \in Nat, a <= b, b <= c
    PROVE  Approaches(Interpolated(from, to, a), Interpolated(from, to, b),
                      Interpolated(from, to, c))
<1>1. CASE from <= to
  BY <1>1, InterpolatedMonotone DEF Approaches
<1>2. CASE to <= from
  <2>1. /\ Interpolated(to, from, a) <= Interpolated(to, from, b)
        /\ Interpolated(to, from, b) <= Interpolated(to, from, c)
        /\ Interpolated(to, from, a) \in Int /\ Interpolated(to, from, b) \in Int
        /\ Interpolated(to, from, c) \in Int
    BY <1>2, InterpolatedMonotone
  <2> DEFINE both == from * TRANSITION_LENGTH + to * TRANSITION_LENGTH
  <2>2. both \in Int
    BY DEF TRANSITION_LENGTH
  <2>3. /\ Interpolated(from, to, a) = both - Interpolated(to, from, a)
        /\ Interpolated(from, to, b) = both - Interpolated(to, from, b)
        /\ Interpolated(from, to, c) = both - Interpolated(to, from, c)
    BY InterpolatedMirror
  <2> HIDE DEF both
  <2> QED BY <2>1, <2>2, <2>3 DEF Approaches
<1> QED BY <1>1, <1>2

(* A change point brings the reactive margins; after it every margin moves *)
(* towards its stable value, for any margins, looser or stricter.          *)
THEOREM MarginsApproach == CusumSpec => MarginsFollowDetections
<1> DEFINE Inv == SumsInv /\ MarginsInv
<1>1. CusumInit => Inv
  BY InitSums DEF CusumInit, MarginsInv
<1>2. ASSUME Inv, Execute
      PROVE  /\ Inv'
             /\ margins' = MarginsAt(sinceDetection)
  <2>1. /\ SumsInv' /\ margins' = MarginsAt(sinceDetection) /\ stable' = stable
        /\ sinceDetection' = IF detected' THEN 0 ELSE Older(sinceDetection)
    BY <1>2, UpdateKeepsSums DEF Execute
  <2>2. sinceDetection \in Nat /\ sinceDetection <= Never
    BY <1>2 DEF SumsInv
  <2>3. ~detected' => sinceDetection <= sinceDetection'
    BY <2>1, <2>2 DEF Older
  <2>4. PICK age \in Nat : age = sinceDetection
    BY <2>2
  <2>5. margins' = MarginsAt(age)' /\ age <= Never /\ (~detected' => age <= sinceDetection')
    BY <2>1, <2>2, <2>3, <2>4 DEF MarginsAt
  <2>6. MarginsInv'
    BY <1>2, <2>1, <2>5 DEF MarginsInv
  <2> QED BY <2>1, <2>6
<1>3. Inv /\ [Execute]_cusumVars => Inv'
  <2>1. ASSUME Inv, UNCHANGED cusumVars PROVE Inv'
    BY <2>1 DEF SumsInv, MarginsInv, cusumVars, MarginsAt
  <2> QED BY <1>2, <2>1
<1> DEFINE Follow ==
        IF detected THEN margins' = MarginsAt(0)
        ELSE LET end == MarginsAt(Never)
             IN  /\ Approaches(margins.promote, margins'.promote, end.promote)
                 /\ Approaches(margins.demote, margins'.demote, end.demote)
                 /\ Approaches(margins.abs, margins'.abs, end.abs)
<1>4. Inv /\ [Execute]_cusumVars => [Follow]_cusumVars
  <2> SUFFICES ASSUME Inv, Execute PROVE Follow
    OBVIOUS
  <2>1. margins' = MarginsAt(sinceDetection)
    BY <1>2
  <2>2. CASE detected
    BY <2>1, <2>2 DEF SumsInv
  <2>3. CASE ~detected
    <3>1. PICK age \in Nat : margins = MarginsAt(age) /\ age <= sinceDetection
      BY <2>3 DEF MarginsInv
    <3>2. sinceDetection \in Nat /\ sinceDetection <= Never /\ Never \in Nat
      BY DEF SumsInv
    <3>3. ASSUME NEW from \in Nat, NEW to \in Nat
          PROVE  Approaches(Interpolated(from, to, age), Interpolated(from, to, sinceDetection),
                            Interpolated(from, to, Never))
      BY <3>1, <3>2, InterpolatedApproaches
    <3>4. /\ ReactMargins.promote \in Nat /\ ReactMargins.demote \in Nat
          /\ ReactMargins.abs \in Nat
          /\ stable.promote \in Nat /\ stable.demote \in Nat /\ stable.abs \in Nat
      BY DEF MarginsInv
    <3> QED BY <2>1, <2>3, <3>1, <3>3, <3>4 DEF MarginsAt
  <2> QED BY <2>2, <2>3
<1> QED BY <1>1, <1>3, <1>4, PTL DEF CusumSpec, MarginsFollowDetections
=============================================================================
