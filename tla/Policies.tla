------------------------------ MODULE Policies ------------------------------
(***************************************************************************)
(* The placement decisions of the daemon's policies (daemon/policy.cpp),   *)
(* as pure operators.  A policy looks at the metadata the TierManager      *)
(* keeps and at its count of fast pages, and names the pages to demote and *)
(* the pages to promote.  What a policy may decide is a SET of plans,      *)
(* because the code leaves some of it open: std::sort is not stable, the   *)
(* random policy draws pages, and the real-valued features the ML and the  *)
(* decaying-LFU policies rank by are abstracted to an arbitrary ranking.   *)
(*                                                                         *)
(* The metadata is a function from the tracked pages to records            *)
(*   [node, accessed, count, esa]                                          *)
(* (current_node, accessed_this_epoch, access_count and                    *)
(* epochs_since_access of struct PageMetadata).  last_access_time is not   *)
(* kept: every page sampled in one epoch gets the same `now`, so ordering  *)
(* by it, latest first, is ordering by epochs_since_access, smallest first.*)
(***************************************************************************)
EXTENDS Integers, FiniteSets, FiniteSetsExt, Functions

CONSTANTS
    FAST_TIER_CAPACITY,         \* daemon.cpp:51, --fast-tier-capacity
    MAX_PROMOTIONS_PER_EPOCH,   \* daemon.cpp:52, --max-promotions
    MAX_DEMOTIONS_PER_EPOCH,    \* daemon.cpp:53, --max-demotions
    SLOW_NODE,                  \* daemon.cpp:50, --slow-node; the fast node is 0
    HOT_EPOCHS,                 \* the heuristic's recency bound (5 in the code)
    Scores,                     \* levels of an ML score or of smooth_frequency
    FREQ_TOLERANCE,             \* decaying LFU's tie band (0.001 in the code)
    FILL_THRESHOLD,             \* ML threshold while the fast tier has room
    Margins                     \* what CUSUM may answer: [promote, demote, abs]

ASSUME PoliciesAssumption ==
    /\ FAST_TIER_CAPACITY \in Nat
    /\ MAX_PROMOTIONS_PER_EPOCH \in Nat
    /\ MAX_DEMOTIONS_PER_EPOCH \in Nat
    /\ SLOW_NODE \in Nat \ {0}
    /\ HOT_EPOCHS \in Nat
    /\ Scores \subseteq Nat
    /\ FREQ_TOLERANCE \in Nat
    /\ FILL_THRESHOLD \in Nat
    /\ Margins \subseteq [promote : Nat, demote : Nat, abs : Nat]

-----------------------------------------------------------------------------

Smaller(a, b) == IF a <= b THEN a ELSE b

NonNegative(a) == IF a < 0 THEN 0 ELSE a

FastPages(meta) == {p \in DOMAIN meta : meta[p].node = 0}

SlowPages(meta) == {p \in DOMAIN meta : meta[p].node = SLOW_NODE}

\* Candidates are pages sampled in this epoch: the baselines take those that
\* are not on node 0, the ML and heuristic policies those on SLOW_NODE.
SlowHotPages(meta) == {p \in DOMAIN meta : meta[p].node # 0 /\ meta[p].accessed}

SlowCandidates(meta) == {p \in SlowPages(meta) : meta[p].accessed}

\* The comparators, each a set of pairs <<a, b>>: comp(a, b), "a is hotter".

LRUHotter(meta) ==
    {ab \in (DOMAIN meta) \X (DOMAIN meta) :
        LET a == meta[ab[1]]
            b == meta[ab[2]]
        IN  \/ a.esa < b.esa
            \/ a.esa = b.esa /\ a.count > b.count}

LFUHotter(meta) ==
    {ab \in (DOMAIN meta) \X (DOMAIN meta) :
        LET a == meta[ab[1]]
            b == meta[ab[2]]
        IN  \/ a.count > b.count
            \/ a.count = b.count /\ a.esa < b.esa}

\* freq: the smooth_frequency of every tracked page.
DecayingLFUHotter(meta, freq) ==
    {ab \in (DOMAIN meta) \X (DOMAIN meta) :
        LET diff == freq[ab[1]] - freq[ab[2]]
        IN  \/ diff > FREQ_TOLERANCE
            \/ /\ -FREQ_TOLERANCE <= diff
               /\ diff <= FREQ_TOLERANCE
               /\ meta[ab[1]].count > meta[ab[2]].count}

ScoredHigher(score) ==
    {ab \in (DOMAIN score) \X (DOMAIN score) : score[ab[1]] > score[ab[2]]}

\* What sorts the victims: the lambda comp(b, a).
Converse(r) == {<<ab[2], ab[1]>> : ab \in r}

\* The sequences std::sort may leave the pages of S in: no page directly
\* follows one it must precede.  For a strict weak order these are exactly
\* the sorted sequences; for decaying LFU's comparator, which is not one,
\* they contain what insertion sort (16 elements or fewer) produces.
SortOrders(S, precedes) ==
    {s \in Bijection(1 .. Cardinality(S), S) :
        \A i \in 1 .. Cardinality(S) - 1 : <<s[i+1], s[i]>> \notin precedes}

-----------------------------------------------------------------------------
(***************************************************************************)
(* The greedy loop that the three baselines, the ML policy and the static  *)
(* heuristic share: walk the candidates, hottest first; while there are    *)
(* free slots promote those above the fill threshold (the set `fill`);     *)
(* from then on swap the next candidate (of the set `swap`) with the next  *)
(* coldest victim as long as it beats it.                                  *)
(***************************************************************************)

\* Mutated form: a direct promotion is tried while free_fast_slots >= 0.
DirectIntoNoSlot(free, fill) ==
    Smaller(NonNegative(free + 1), Smaller(MAX_PROMOTIONS_PER_EPOCH, Cardinality(fill)))

\* Promotions into free slots.
Direct(free, fill) ==
    Smaller(NonNegative(free), Smaller(MAX_PROMOTIONS_PER_EPOCH, Cardinality(fill)))

\* The most swaps the loop can reach before it runs out of candidates, of
\* promotions or of victims.
SwapRoom(free, fill, swap, victims) ==
    LET direct == Direct(free, fill)
    IN  IF free > direct
        THEN 0
        ELSE Smaller(Cardinality(victims),
                     Smaller(MAX_PROMOTIONS_PER_EPOCH - direct,
                             NonNegative(Cardinality(swap) - direct)))

\* The loop breaks at the first candidate that does not beat its victim.
Swaps(cand, vict, direct, room, beats) ==
    Cardinality({m \in 1 .. room :
                    \A j \in 1 .. m : <<cand[direct + j], vict[j]>> \in beats})

GreedyPlan(cand, vict, direct, room, beats) ==
    LET m == Swaps(cand, vict, direct, room, beats)
    IN  [promote |-> {cand[i] : i \in 1 .. direct + m},
         demote  |-> {vict[i] : i \in 1 .. m}]

\* Mutated form: the candidates are sorted like the victims.
GreedyPlansColdFirst(cands, victims, free, fill, swap, hotter, beats) ==
    {GreedyPlan(cand, vict, Direct(free, fill),
                SwapRoom(free, fill, swap, victims), beats) :
        cand \in SortOrders(cands, Converse(hotter)),
        vict \in SortOrders(victims, Converse(hotter))}

GreedyPlans(cands, victims, free, fill, swap, hotter, beats) ==
    {GreedyPlan(cand, vict, Direct(free, fill),
                SwapRoom(free, fill, swap, victims), beats) :
        cand \in SortOrders(cands, hotter),
        vict \in SortOrders(victims, Converse(hotter))}

-----------------------------------------------------------------------------
\* promote_and_demote, for the comparator `hotter`.
BaselinePlans(meta, fastCount, hotter) ==
    LET cands == SlowHotPages(meta)
    IN  GreedyPlans(cands, FastPages(meta), FAST_TIER_CAPACITY - fastCount,
                    cands, cands, hotter, hotter)

\* A candidate must beat its victim by both margins.
BeatsByMargins(score, margin) ==
    {ab \in (DOMAIN score) \X (DOMAIN score) :
        /\ score[ab[1]] > score[ab[2]] + margin.promote
        /\ score[ab[2]] < score[ab[1]] - margin.demote}

MLPlans(meta, fastCount, score, margin) ==
    LET cands == SlowCandidates(meta)
    IN  GreedyPlans(cands, FastPages(meta), FAST_TIER_CAPACITY - fastCount,
                    {p \in cands : score[p] >= FILL_THRESHOLD},
                    {p \in cands : score[p] >= margin.abs},
                    ScoredHigher(score), BeatsByMargins(score, margin))

\* Scores in thousandths: 1.0 for a recently used page, plus 0.001 per access.
HeuristicScore(meta) ==
    [p \in DOMAIN meta |->
        (IF meta[p].count >= 1 /\ meta[p].esa <= HOT_EPOCHS THEN 1000 ELSE 0)
            + meta[p].count]

HeuristicCold(score, p) == score[p] < 500

HeuristicPlans(meta, fastCount) ==
    LET score == HeuristicScore(meta)
        cands == SlowCandidates(meta)
        hot   == {p \in cands : ~HeuristicCold(score, p)}
    IN  GreedyPlans(cands, FastPages(meta), FAST_TIER_CAPACITY - fastCount, hot, hot,
                    ScoredHigher(score),
                    {ab \in (DOMAIN meta) \X (DOMAIN meta) : HeuristicCold(score, ab[2])})

\* Mutated form: free_fast_slots is not decremented by a promotion.
RandomPlansUncounted(meta, fastCount) ==
    LET free == FAST_TIER_CAPACITY - fastCount
        fast == FastPages(meta)
        slow == SlowPages(meta)
        out  == IF free <= 0 THEN Smaller(MAX_DEMOTIONS_PER_EPOCH, Cardinality(fast)) ELSE 0
        in   == IF free + out > 0
                THEN Smaller(MAX_PROMOTIONS_PER_EPOCH, Cardinality(slow)) ELSE 0
    IN  [promote : kSubset(in, slow), demote : kSubset(out, fast)]

\* The random policy draws from all slow pages, and demotes only when full;
\* it is the one policy that looks at MAX_DEMOTIONS_PER_EPOCH.
RandomPlans(meta, fastCount) ==
    LET free == FAST_TIER_CAPACITY - fastCount
        fast == FastPages(meta)
        slow == SlowPages(meta)
        out  == IF free <= 0 THEN Smaller(MAX_DEMOTIONS_PER_EPOCH, Cardinality(fast)) ELSE 0
        in   == Smaller(MAX_PROMOTIONS_PER_EPOCH,
                        Smaller(NonNegative(free + out), Cardinality(slow)))
    IN  [promote : kSubset(in, slow), demote : kSubset(out, fast)]

-----------------------------------------------------------------------------
PolicyNames == {"lru", "lfu", "decaying_lfu", "ml", "heuristic", "random"}

\* Every plan Policy::execute may arrive at.
Plans(policy, meta, fastCount) ==
    CASE policy = "lru" -> BaselinePlans(meta, fastCount, LRUHotter(meta))
      [] policy = "lfu" -> BaselinePlans(meta, fastCount, LFUHotter(meta))
      [] policy = "decaying_lfu" ->
            UNION {BaselinePlans(meta, fastCount, DecayingLFUHotter(meta, freq)) :
                       freq \in [DOMAIN meta -> Scores]}
      [] policy = "ml" ->
            UNION {MLPlans(meta, fastCount, score, margin) :
                       score \in [DOMAIN meta -> Scores], margin \in Margins}
      [] policy = "heuristic" -> HeuristicPlans(meta, fastCount)
      [] policy = "random" -> RandomPlans(meta, fastCount)
=============================================================================
