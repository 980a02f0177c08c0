----------------------------- MODULE Simulator ------------------------------
(***************************************************************************)
(* The trace-driven simulator (simulator/sim) as run_gauntlet.py drives    *)
(* it: one trace, parsed once, is replayed under one policy after the      *)
(* other on the same AddressSpace.  Between two periods of num_reqs_per_ep *)
(* requests the scheduler moves pages between the fast tier L1 and the     *)
(* slow tier L2 and counts how many pages an oracle would have placed      *)
(* otherwise.                                                              *)
(*                                                                         *)
(* Tiers are sets: loc_ep[ep] is the set of pages whose loc_ep[ep] is 0.   *)
(* The places of lru_list are numbers: a page moved to its end gets a      *)
(* number above all others.                                                *)
(***************************************************************************)
EXTENDS Integers, Sequences, FiniteSets, FiniteSetsExt, Functions

CONSTANTS
    num_pages,          \* pages in the trace
    num_reqs,           \* requests in the trace
    num_reqs_per_ep,    \* requests per period
    l1_pages,           \* int(l1_ratio * num_pages)
    Bin,                \* width of the oracle's bins (20 in the code)
    Runs,               \* the policies, in the order they are run
    Scores,             \* levels of smooth_frequency and of the ML score
    ABS_THRESHOLD,      \* STABLE_ABS_THRESHOLD, in levels
    DEMOTE_MARGIN       \* STABLE_DEMOTE_MARGIN, in levels

SimPolicies == {"history", "oracle", "hybrid", "lru", "lfu", "decaying_lfu", "ml"}

ASSUME SimulatorAssumption ==
    /\ num_pages \in Nat \ {0}
    /\ num_reqs \in Nat
    /\ num_reqs_per_ep \in Nat \ {0}
    /\ l1_pages \in 0 .. num_pages
    /\ Bin \in Nat \ {0}
    /\ Runs \in Seq(SimPolicies)
    /\ Scores \subseteq Nat
    /\ ABS_THRESHOLD \in Nat /\ DEMOTE_MARGIN \in Nat

VARIABLES
    trace,              \* page_id of each request
    run,                \* the run under way: an index of Runs
    step,               \* what the driver does next
    req,                \* id of the next request
    curr_ep,            \* the current period
    loc_ep,             \* for each period, the pages that are in L1
    lru_list,           \* for each page, its place in lru_list
    counts_ep,          \* for each page and period, accesses in this run
    access_count,       \* for each page, what LFU ranks by
    epoch_access_count, \* for each page, accesses not yet in access_count
    accessed,           \* pages with accessed_this_epoch
    oracle_page_ids,    \* pages the hybrid policy places with the oracle's eye
    misplaced,          \* unique_misplaced_pages
    total_misplaced,    \* total_misplaced_epochs
    num_migr,           \* migrations, as the scheduler counts them
    l1_hits,            \* hits, as hitrate computes them after the run
    moved,              \* history: pages that changed their tier in this run
    served              \* history: requests that found their page in L1

placeVars   == <<loc_ep, misplaced, total_misplaced, num_migr>>
featureVars == <<access_count, epoch_access_count, accessed>>
historyVars == <<moved, served>>
vars == <<trace, run, step, req, curr_ep, loc_ep, lru_list, counts_ep,
          access_count, epoch_access_count, accessed, oracle_page_ids, misplaced,
          total_misplaced, num_migr, l1_hits, moved, served>>

-----------------------------------------------------------------------------
Page == 0 .. num_pages - 1

num_periods == (num_reqs \div num_reqs_per_ep) + 1

Period == 0 .. num_periods - 1

PeriodOf(id) == id \div num_reqs_per_ep

policy == Runs[run]

\* parse_pin_trace numbers pages in the order in which they first occur.
Traces ==
    {t \in [0 .. num_reqs - 1 -> Page] :
        /\ \A i \in DOMAIN t : \A q \in 0 .. t[i] - 1 : \E j \in 0 .. i - 1 : t[j] = q
        /\ \A p \in Page : \E i \in DOMAIN t : t[i] = p}

Smaller(a, b) == IF a <= b THEN a ELSE b

\* What the first k pages of S may be, sorted by val in descending order: the
\* order of equal pages is left open, as it is by argsort.
TopSets(S, val, k) ==
    {T \in kSubset(Smaller(k, Cardinality(S)), S) :
        \A a \in T, b \in S \ T : val[a] >= val[b]}

\* The same, in ascending order.
BottomSets(S, val, k) == TopSets(S, [p \in S |-> -val[p]], k)

-----------------------------------------------------------------------------
(* What the simulator knows of the trace. *)

\* set_oracle_cnts: the accesses of each page in each period.
OracleCount(p, ep) ==
    Cardinality({i \in 0 .. num_reqs - 1 : trace[i] = p /\ PeriodOf(i) = ep})

\* Counts are rounded down to a bin, and the last bin starts below the largest
\* count of the page: range() ends before its stop value.
BinnedCount(p, ep) ==
    LET busiest == Max({OracleCount(p, e) : e \in Period})
    IN  Bin * Smaller(OracleCount(p, ep) \div Bin, (busiest - 1) \div Bin)

\* compute_misplacements: the first l1_pages pages by actual count.  Python's
\* sort is stable, so that equal pages stay in the order of their ids.
IdealFastSet(ep) ==
    LET count == [p \in Page |-> OracleCount(p, ep)]
        Before(p) == {q \in Page : \/ count[q] > count[p]
                                   \/ count[q] = count[p] /\ q < p}
    IN  {p \in Page : Cardinality(Before(p)) < l1_pages}

-----------------------------------------------------------------------------
(* Which pages of L2 a policy wants in L1 (get_l2_hot_pages...), for the    *)
(* period ep about to begin and the set L1 of the period before.            *)

\* Pages among the l1_pages hottest that are not in L1 yet.
HottestMissing(L1, S, val) == {T \ L1 : T \in TopSets(S, val, l1_pages)}

PredictedCount(p, ep) ==
    IF policy = "oracle" \/ (policy = "hybrid" /\ p \in oracle_page_ids)
    THEN BinnedCount(p, ep)
    ELSE BinnedCount(p, ep - 1)

\* Pages predicted not to be touched are no candidates.
PredictedHot(L1, ep) ==
    LET pcnt == [p \in Page |-> PredictedCount(p, ep)]
    IN  HottestMissing(L1, {p \in Page : pcnt[p] # 0}, pcnt)

\* Mutated form: recently used pages of both tiers are taken.
LRUHotOfBoth(L1) == TopSets(Page, lru_list, l1_pages)

\* The most recently used pages of L2, used in this run or not.
LRUHot(L1) == TopSets(Page \ L1, lru_list, l1_pages)

LFUHot(L1, count) == HottestMissing(L1, {p \in Page : count[p] > 0}, count)

\* smooth_frequency is positive from a page's first access on.
DecayingLFUHot(L1, count) ==
    UNION {HottestMissing(L1, {p \in Page : freq[p] > 0}, freq) :
              freq \in {f \in [Page -> Scores] :
                           \A p \in Page : f[p] > 0 <=> count[p] > 0}}

\* With any scores.  Free slots are filled with the best candidates above the
\* threshold; then candidates are matched with the coldest pages of L1 for as
\* long as they beat them by the margin.
MLHotFor(L1, seen, score) ==
    LET cands  == {p \in seen \ L1 : score[p] >= ABS_THRESHOLD}
        direct == Smaller(l1_pages - Cardinality(L1), Cardinality(cands))
        room   == Smaller(Cardinality(cands) - direct, Cardinality(L1))
        swaps  == Max({m \in 0 .. room :
                          \E T \in TopSets(cands, score, direct + m),
                             B \in BottomSets(L1, score, m) :
                              \A t \in T, b \in B : score[t] > score[b] + DEMOTE_MARGIN})
    IN  TopSets(cands, score, direct + swaps)

MLHot(L1, seen) == UNION {MLHotFor(L1, seen, score) : score \in [Page -> Scores]}

HotPages(L1, ep, count, seen) ==
    CASE policy = "lru"          -> LRUHot(L1)
      [] policy = "lfu"          -> LFUHot(L1, count)
      [] policy = "decaying_lfu" -> DecayingLFUHot(L1, count)
      [] policy = "ml"           -> MLHot(L1, seen)
      [] OTHER                   -> PredictedHot(L1, ep)

-----------------------------------------------------------------------------
FeaturePolicies == {"ml", "lfu", "decaying_lfu"}

\* Mutated form: the per-epoch counters are not reset.
UpdateFeaturesKeep ==
    IF policy \in FeaturePolicies
    THEN /\ accessed' = {p \in Page : epoch_access_count[p] > 0}
         /\ access_count' = [p \in Page |-> access_count[p] + epoch_access_count[p]]
         /\ UNCHANGED epoch_access_count
    ELSE UNCHANGED featureVars

\* update_ml_features, without the features only the score is made of.
UpdateFeatures ==
    IF policy \in FeaturePolicies
    THEN /\ accessed' = {p \in Page : epoch_access_count[p] > 0}
         /\ access_count' = [p \in Page |-> access_count[p] + epoch_access_count[p]]
         /\ epoch_access_count' = [p \in Page |-> 0]
    ELSE UNCHANGED featureVars

\* init_tier: every other page, until L1 is full or there are no more of them.
InitialTier ==
    IF l1_pages = num_pages THEN Page
    ELSE {p \in Page : p % 2 = 0 /\ p \div 2 < l1_pages}

\* All periods but the first are zero, that is in L1, until they begin.
InitialLoc == [ep \in Period |-> IF ep = 0 THEN InitialTier ELSE Page]

NoCounts == [p \in Page |-> [ep \in Period |-> 0]]

Init ==
    /\ trace \in Traces
    /\ run = 0
    /\ step = "init"
    /\ req = 0
    /\ curr_ep = 0
    /\ loc_ep = InitialLoc
    /\ lru_list = [p \in Page |-> p]
    /\ counts_ep = NoCounts
    /\ access_count = [p \in Page |-> 0]
    /\ epoch_access_count = [p \in Page |-> 0]
    /\ accessed = {}
    /\ oracle_page_ids = {}
    /\ misplaced = {}
    /\ total_misplaced = 0 /\ num_migr = 0 /\ l1_hits = 0
    /\ moved = 0 /\ served = 0

\* Scheduler.init for the next run.  init_cnts leaves the features as the run
\* before left them.  The page selector gives the oracle the pages that run
\* misplaced, or some of them.
StartRun ==
    /\ step = "init"
    /\ run < Len(Runs)
    /\ run' = run + 1
    /\ step' = "run"
    /\ req' = 0
    /\ curr_ep' = 0
    /\ loc_ep' = InitialLoc
    /\ lru_list' = [p \in Page |-> p]
    /\ counts_ep' = NoCounts
    /\ \E ids \in SUBSET misplaced :
          oracle_page_ids' = IF Runs[run'] = "hybrid" THEN ids ELSE {}
    /\ misplaced' = {}
    /\ total_misplaced' = 0 /\ num_migr' = 0 /\ l1_hits' = 0
    /\ moved' = 0 /\ served' = 0
    /\ UNCHANGED <<trace, featureVars>>

\* The next request is the first of a period that has not begun.
RetierDue == req < num_reqs /\ curr_ep < PeriodOf(req)

\* Mutated form: pages not used yet keep their places, and are not below it.
update_lruAmid(id) == [lru_list EXCEPT ![trace[id]] = id]

\* The page of request id goes to the end of lru_list.
update_lru(id) == [lru_list EXCEPT ![trace[id]] = num_pages + id]

Serve ==
    /\ step = "run"
    /\ req < num_reqs
    /\ ~RetierDue
    /\ lru_list' = update_lru(req)
    /\ LET p == trace[req]
       IN  /\ counts_ep' = [counts_ep EXCEPT ![p][curr_ep] = @ + 1]
           /\ epoch_access_count' = [epoch_access_count EXCEPT ![p] = @ + 1]
           /\ served' = served + (IF p \in loc_ep[curr_ep] THEN 1 ELSE 0)
    /\ req' = req + 1
    /\ UNCHANGED <<trace, run, step, curr_ep, placeVars, access_count, accessed,
                   oracle_page_ids, l1_hits, moved>>

Moves(L1, promoted, k) ==
    {[promoted |-> promoted, demoted |-> D] : D \in BottomSets(L1, lru_list, k)}

\* Mutated form: one page too few makes room.
TierMovesOneShort(L1, hot) ==
    UNION {Moves(L1, P, Cardinality(P) - 1) :
              P \in kSubset(Smaller(l1_pages, Cardinality(hot)), hot)}

\* tier_pages(hot_pages[:nmigr], lru_pages[:nmigr]): hot pages move in, and as
\* many of the least recently used pages of L1 move out, or all there are.
TierMoves(L1, hot) ==
    UNION {Moves(L1, P, Cardinality(P)) :
              P \in kSubset(Smaller(l1_pages, Cardinality(hot)), hot)}

\* Mutated form: the pages are placed into the period that has just ended.
PlaceLate(ep, L1) == [loc_ep EXCEPT ![ep - 1] = L1, ![ep] = L1]

\* update_tier and tier_pages write the period that begins.
Place(ep, L1) == [loc_ep EXCEPT ![ep] = L1]

Retier ==
    /\ step = "run"
    /\ RetierDue
    /\ UpdateFeatures
    /\ curr_ep' = curr_ep + 1
    /\ LET L1 == loc_ep[curr_ep]
       IN  \E hot \in HotPages(L1, curr_ep', access_count', accessed') :
           \E move \in TierMoves(L1, hot) :
              LET placed == (L1 \cup move.promoted) \ move.demoted
                  missed == IdealFastSet(curr_ep') \ placed
                  nmigr  == Cardinality(move.promoted)
              IN  /\ loc_ep' = Place(curr_ep', placed)
                  /\ num_migr' = num_migr + 2 * nmigr
                  /\ moved' = moved + Cardinality(placed \ L1) + Cardinality(L1 \ placed)
                  /\ misplaced' = misplaced \cup missed
                  /\ total_misplaced' = total_misplaced + Cardinality(missed)
    /\ UNCHANGED <<trace, run, step, req, lru_list, counts_ep, oracle_page_ids,
                   l1_hits, served>>

\* What hitrate takes a period's accesses to have hit, and all of them.
PeriodHits(ep) == SumFunctionOnSet([p \in Page |-> counts_ep[p][ep]], loc_ep[ep])

hitrate == SumFunctionOnSet([ep \in Period |-> PeriodHits(ep)], Period)

\* hitrate, after the last request.
Hitrate ==
    /\ step = "run"
    /\ req = num_reqs
    /\ l1_hits' = hitrate
    /\ step' = "init"
    /\ UNCHANGED <<trace, run, req, curr_ep, placeVars, lru_list, counts_ep,
                   featureVars, oracle_page_ids, historyVars>>

Next == StartRun \/ Serve \/ Retier \/ Hitrate

Spec == Init /\ [][Next]_vars

-----------------------------------------------------------------------------
\* The variables keep their types; every page has a place of its own in
\* lru_list.  (ReportTrue says more than a type of l1_hits.)
TypeOK ==
    /\ trace \in Traces
    /\ run \in 0 .. Len(Runs)
    /\ step \in {"init", "run"}
    /\ step = "run" => run > 0
    /\ req \in 0 .. num_reqs
    /\ curr_ep \in Period
    /\ loc_ep \in [Period -> SUBSET Page]
    /\ lru_list \in [Page -> Nat]
    /\ \A p \in Page : lru_list[p] < num_pages + req
    /\ \A p, q \in Page : lru_list[p] = lru_list[q] => p = q
    /\ counts_ep \in [Page -> [Period -> Nat]]
    /\ access_count \in [Page -> Nat]
    /\ epoch_access_count \in [Page -> Nat]
    /\ accessed \subseteq Page
    /\ oracle_page_ids \subseteq Page
    /\ misplaced \subseteq Page
    /\ total_misplaced \in Nat /\ num_migr \in Nat
    /\ moved \in Nat /\ served \in Nat

L1Now == loc_ep[curr_ep]

\* capacity_check never has an error to print, whatever the policy chose.
CapacityKept == Cardinality(L1Now) <= l1_pages

\* The scheduler counts two migrations for each page it moves in. As many pages
\* do move, but where the tier still had room: init_tier runs out of pages at a
\* capacity ratio above one half, and the count is then above the moves by
\* exactly the pages the tier has gained since the run began.
MigrationsExact ==
    num_migr + Cardinality(InitialTier) = moved + Cardinality(L1Now)

\* Pages of the ideal set that are in L2, in the periods that began with a
\* retier.
IdealPagesLeft ==
    SumFunctionOnSet([ep \in Period |-> Cardinality(IdealFastSet(ep) \ loc_ep[ep])],
                     1 .. curr_ep)

\* What a run reports can be read off the placements it leaves. hitrate, which
\* goes by loc_ep after the run, finds the hits the requests had when they were
\* served: no placement of a period changes after its first request, and the
\* periods accesses are counted in are those pages are placed for, the first and
\* the last included. And total_misplaced_epochs is what the placements of the
\* periods after the first left out of the ideal set; the first has none counted.
ReportTrue ==
    /\ step = "init" => l1_hits = served
    /\ total_misplaced = IdealPagesLeft

\* Requests of the current period served so far.
ServedNow(p) ==
    Cardinality({i \in 0 .. req - 1 : trace[i] = p /\ PeriodOf(i) = curr_ep})

\* From the first retier of a run on, what update_ml_features will add to the
\* features is what was accessed since that retier, however many runs of
\* policies without features came before on the same pages.  (What it adds to
\* does carry over from the runs before: init_cnts resets no feature.)
EpochCountersSettle ==
    step = "run" /\ curr_ep > 0 /\ policy \in FeaturePolicies =>
        \A p \in Page : epoch_access_count[p] = ServedNow(p)

-----------------------------------------------------------------------------
\* The README's "Upper Bound ... places the truly hottest pages every epoch",
\* even by the oracle's own, binned counts: no page in L2 is hotter in the
\* current period than a page in L1.
OracleIsIdeal ==
    step = "run" /\ policy = "oracle" /\ curr_ep > 0 =>
        \A p \in L1Now, q \in Page \ L1Now :
            BinnedCount(p, curr_ep) >= BinnedCount(q, curr_ep)

-----------------------------------------------------------------------------
\* No period begins before its first request is due, and no request of a later
\* period is served before that.
InStep ==
    /\ curr_ep <= PeriodOf(req)
    /\ \A i \in 0 .. req - 1 : PeriodOf(i) <= curr_ep

\* The inductive invariant behind CapacityKept, MigrationsExact and
\* EpochCountersSettle, for any trace and any order of policies
\* (SimulatorProofs).
IInv ==
    /\ TypeOK
    /\ CapacityKept
    /\ MigrationsExact
    /\ InStep
    /\ EpochCountersSettle

\* With IInv, the inductive invariant behind ReportTrue: at each moment of a run
\* hitrate would find the hits so far, and no access counts for a later period.
HitsInv ==
    /\ step = "run" => served = hitrate
    /\ step = "init" => l1_hits = served
    /\ step = "run" =>
          \A p \in Page, ep \in Period : ep > curr_ep => counts_ep[p][ep] = 0
    /\ total_misplaced = IdealPagesLeft
=============================================================================
