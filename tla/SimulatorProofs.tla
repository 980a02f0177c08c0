-------------------------- MODULE SimulatorProofs ---------------------------
(***************************************************************************)
(* Proofs about Simulator for any trace, any capacity and any sequence of  *)
(* policies: the fast tier keeps within its capacity, what the scheduler   *)
(* counts as migrations did move, the features of a run settle, and what a *)
(* run reports is what happened.                                           *)
(***************************************************************************)
EXTENDS Simulator, FiniteSums

-----------------------------------------------------------------------------
(* Sets of pages and periods *)

\* Sets of pages are finite.
LEMMA PagesFinite ==
    ASSUME NEW S, S \subseteq Page
    PROVE  IsFiniteSet(S) /\ Cardinality(S) \in Nat
<1>1. IsFiniteSet(Page)
  BY SimulatorAssumption, FS_Interval DEF Page
<1> QED
  BY <1>1, FS_Subset, FS_CardinalityType

\* A later request is not of an earlier period.
LEMMA PeriodMonotone ==
    ASSUME NEW i \in Nat, NEW j \in Nat, i <= j
    PROVE  PeriodOf(i) \in Nat /\ PeriodOf(j) \in Nat /\ PeriodOf(i) <= PeriodOf(j)
<1> DEFINE n == num_reqs_per_ep
           a == i \div n
           b == j \div n
<1>1. n \in Nat \ {0}
  BY SimulatorAssumption
<1>2. i = n * a + (i % n) /\ 0 <= i % n /\ i % n < n /\ a \in Nat
  BY <1>1
<1>3. j = n * b + (j % n) /\ 0 <= j % n /\ j % n < n /\ b \in Nat
  BY <1>1
<1>4. ASSUME a > b PROVE FALSE
  <2>1. a >= b + 1
    BY <1>2, <1>3, <1>4
  <2>2. n * a >= n * (b + 1)
    BY <1>1, <1>2, <1>3, <2>1
  <2> QED
    BY <1>1, <1>2, <1>3, <2>2
<1>5. a <= b
  BY <1>2, <1>3, <1>4
<1> QED
  BY <1>2, <1>3, <1>5 DEF PeriodOf

\* There is a period for every request.
LEMMA PeriodOfRequest ==
    ASSUME NEW i \in 0 .. num_reqs
    PROVE  PeriodOf(i) \in Period /\ num_periods \in Nat
<1>1. PeriodOf(i) \in Nat /\ PeriodOf(num_reqs) \in Nat /\ PeriodOf(i) <= PeriodOf(num_reqs)
  BY SimulatorAssumption, PeriodMonotone
<1> QED
  BY <1>1 DEF Period, num_periods, PeriodOf

\* There is a first period.
LEMMA FirstPeriod == 0 \in Period
<1>1. PeriodOf(0) \in Period /\ num_periods \in Nat
  BY SimulatorAssumption, PeriodOfRequest
<1>2. PeriodOf(0) \in Nat /\ PeriodOf(0) <= num_periods - 1
  BY <1>1 DEF Period
<1> QED
  BY <1>1, <1>2 DEF Period

\* The tier a run begins with holds at most l1_pages pages.
LEMMA InitialTierFits ==
    /\ InitialTier \subseteq Page
    /\ Cardinality(InitialTier) \in Nat
    /\ Cardinality(InitialTier) <= l1_pages
<1>1. InitialTier \subseteq Page
  BY DEF InitialTier
<1>2. CASE l1_pages = num_pages
  <2>1. num_pages \in Nat /\ num_pages # 0 /\ Cardinality(0 .. num_pages - 1) = num_pages
    BY SimulatorAssumption, FS_Interval
  <2>2. InitialTier = 0 .. num_pages - 1
    BY <1>2 DEF InitialTier, Page
  <2> QED
    BY <1>1, <1>2, <2>1, <2>2
<1>3. CASE l1_pages # num_pages
  <2> DEFINE T == 0 .. l1_pages - 1
             f == [p \in InitialTier |-> p \div 2]
  <2>1. l1_pages \in Nat /\ IsFiniteSet(T) /\ Cardinality(T) = l1_pages
    BY SimulatorAssumption, FS_Interval
  <2>2. \A p \in InitialTier : p \in Nat /\ p = 2 * (p \div 2) /\ p \div 2 \in T
    BY <1>3, <2>1, SimulatorAssumption DEF InitialTier, Page
  <2>3. f \in Injection(InitialTier, T)
    BY <2>2 DEF Injection, IsInjective
  <2> HIDE DEF T, f
  <2>4. Cardinality(InitialTier) <= Cardinality(T)
    BY <2>1, <2>3, FS_Injection
  <2> QED
    BY <1>1, <2>1, <2>4, PagesFinite
<1> QED
  BY <1>2, <1>3

-----------------------------------------------------------------------------
(* The policies *)

\* What is taken from the top of a set is taken from the set.
LEMMA TopSetsSubset ==
    ASSUME NEW S, NEW val, NEW k, NEW T \in TopSets(S, val, k)
    PROVE  T \subseteq S /\ Cardinality(T) = Smaller(k, Cardinality(S))
BY DEF TopSets, kSubset

\* Every policy asks for pages of L2 only.
LEMMA HotIsSlow ==
    ASSUME NEW L1, NEW ep, NEW count, NEW seen \in SUBSET Page,
           NEW hot \in HotPages(L1, ep, count, seen)
    PROVE  hot \subseteq Page \ L1
<1>1. ASSUME NEW S \in SUBSET Page, NEW val, NEW h \in HottestMissing(L1, S, val)
      PROVE  h \subseteq Page \ L1
  BY <1>1, TopSetsSubset DEF HottestMissing
<1>2. CASE hot \in LRUHot(L1)
  BY <1>2, TopSetsSubset DEF LRUHot
<1>3. CASE hot \in LFUHot(L1, count)
  BY <1>1, <1>3 DEF LFUHot
<1>4. CASE hot \in DecayingLFUHot(L1, count)
  <2>1. PICK freq \in [Page -> Scores] :
            hot \in HottestMissing(L1, {p \in Page : freq[p] > 0}, freq)
    BY <1>4 DEF DecayingLFUHot
  <2> QED
    BY <1>1, <2>1
<1>5. CASE hot \in MLHot(L1, seen)
  <2>1. PICK score \in [Page -> Scores] : hot \in MLHotFor(L1, seen, score)
    BY <1>5 DEF MLHot
  <2>2. hot \subseteq {p \in seen \ L1 : score[p] >= ABS_THRESHOLD}
    BY <2>1, TopSetsSubset DEF MLHotFor
  <2> QED
    BY <2>2
<1>6. CASE hot \in PredictedHot(L1, ep)
  BY <1>1, <1>6 DEF PredictedHot
<1> QED
  BY <1>2, <1>3, <1>4, <1>5, <1>6, Zenon DEF HotPages

\* A move takes no more pages into L1 than it holds, and takes as many out of
\* it or all there are.
LEMMA MoveBounds ==
    ASSUME NEW L1 \in SUBSET Page, NEW hot \in SUBSET Page,
           NEW move \in TierMoves(L1, hot)
    PROVE  /\ move.promoted \subseteq hot
           /\ move.demoted \subseteq L1
           /\ Cardinality(move.promoted) <= l1_pages
           /\ Cardinality(move.demoted) =
                 Smaller(Cardinality(move.promoted), Cardinality(L1))
<1>1. PICK P \in kSubset(Smaller(l1_pages, Cardinality(hot)), hot) :
          move \in Moves(L1, P, Cardinality(P))
  BY DEF TierMoves
<1>2. PICK D \in BottomSets(L1, lru_list, Cardinality(P)) :
          move = [promoted |-> P, demoted |-> D]
  BY <1>1 DEF Moves
<1>3. P \subseteq hot /\ Cardinality(P) = Smaller(l1_pages, Cardinality(hot))
  BY DEF kSubset
<1>4. D \subseteq L1 /\ Cardinality(D) = Smaller(Cardinality(P), Cardinality(L1))
  BY TopSetsSubset DEF BottomSets
<1>5. Cardinality(P) <= l1_pages
  BY <1>3, PagesFinite, SimulatorAssumption DEF Smaller
<1> QED
  BY <1>2, <1>3, <1>4, <1>5

-----------------------------------------------------------------------------
(* Type correctness *)

\* The places of lru_list are distinct before any page is used.
LEMMA TypeInit == Init => TypeOK
<1> SUFFICES ASSUME Init PROVE TypeOK
  OBVIOUS
<1>1. InitialLoc \in [Period -> SUBSET Page]
  BY InitialTierFits DEF InitialLoc
<1>2. 0 \in Period /\ Len(Runs) \in Nat
  BY FirstPeriod, SimulatorAssumption
<1> QED
  BY <1>1, <1>2, SimulatorAssumption DEF Init, TypeOK, NoCounts, Page

\* A run starts with the types of the first one.
LEMMA TypeStartRun == TypeOK /\ StartRun => TypeOK'
<1> SUFFICES ASSUME TypeOK, StartRun PROVE TypeOK'
  OBVIOUS
<1>1. InitialLoc \in [Period -> SUBSET Page]
  BY InitialTierFits DEF InitialLoc
<1>2. 0 \in Period
  BY FirstPeriod
<1>3. run' \in 0 .. Len(Runs) /\ run' > 0
  BY SimulatorAssumption DEF StartRun, TypeOK
<1>4. oracle_page_ids' \subseteq Page
  BY DEF StartRun, TypeOK
<1>5. /\ lru_list' \in [Page -> Nat]
      /\ \A p \in Page : lru_list'[p] < num_pages + req'
      /\ \A p, q \in Page : lru_list'[p] = lru_list'[q] => p = q
  BY SimulatorAssumption DEF StartRun, Page
<1>6. UNCHANGED <<trace, access_count, epoch_access_count, accessed>>
  BY DEF StartRun, featureVars
<1> QED
  BY <1>1, <1>2, <1>3, <1>4, <1>5, <1>6, SimulatorAssumption DEF StartRun, TypeOK, NoCounts

\* The page that is served gets the last place.
LEMMA TypeServe == TypeOK /\ Serve => TypeOK'
<1> SUFFICES ASSUME TypeOK, Serve PROVE TypeOK'
  OBVIOUS
<1>1. /\ UNCHANGED <<trace, run, step, curr_ep, loc_ep, misplaced, total_misplaced, num_migr>>
      /\ UNCHANGED <<access_count, accessed, oracle_page_ids, l1_hits, moved>>
      /\ req' = req + 1
      /\ req < num_reqs
  BY DEF Serve, placeVars
<1>2. req \in Nat /\ num_pages \in Nat /\ req' \in 0 .. num_reqs
  BY <1>1, SimulatorAssumption DEF TypeOK
<1>3. trace[req] \in Page
  BY <1>1, SimulatorAssumption DEF TypeOK, Traces
<1>4. /\ lru_list' \in [Page -> Nat]
      /\ \A p \in Page : lru_list'[p] < num_pages + req'
      /\ \A p, q \in Page : lru_list'[p] = lru_list'[q] => p = q
  <2>1. lru_list' = [lru_list EXCEPT ![trace[req]] = num_pages + req]
    BY DEF Serve, update_lru
  <2>2. lru_list \in [Page -> Nat] /\ \A p \in Page : lru_list[p] < num_pages + req
    BY DEF TypeOK
  <2>3. \A p, q \in Page : lru_list[p] = lru_list[q] => p = q
    BY DEF TypeOK
  <2> QED
    BY <1>1, <1>2, <1>3, <2>1, <2>2, <2>3
<1>5. epoch_access_count' \in [Page -> Nat]
  BY <1>3 DEF Serve, TypeOK
<1>6. served' \in Nat
  BY DEF Serve, TypeOK
<1>7. counts_ep' \in [Page -> [Period -> Nat]]
  <2>1. counts_ep' = [counts_ep EXCEPT ![trace[req]][curr_ep] = @ + 1]
    BY DEF Serve
  <2>2. counts_ep \in [Page -> [Period -> Nat]] /\ curr_ep \in Period
    BY DEF TypeOK
  <2> QED
    BY <1>3, <2>1, <2>2
<1> QED
  BY <1>1, <1>2, <1>4, <1>5, <1>6, <1>7 DEF TypeOK

\* hitrate changes no other variable than its result.
LEMMA TypeHitrate == TypeOK /\ Hitrate => TypeOK'
BY DEF Hitrate, TypeOK, placeVars, featureVars, historyVars

\* The facts about a retier that every property of the tiers rests on.
LEMMA RetierTiers ==
    ASSUME TypeOK, Retier
    PROVE  /\ curr_ep \in Period /\ curr_ep' \in Period /\ curr_ep' = curr_ep + 1
           /\ \E promoted \in SUBSET (Page \ L1Now), demoted \in SUBSET L1Now :
                 /\ Cardinality(promoted) <= l1_pages
                 /\ Cardinality(demoted) =
                       Smaller(Cardinality(promoted), Cardinality(L1Now))
                 /\ L1Now' = (L1Now \cup promoted) \ demoted
                 /\ num_migr' = num_migr + 2 * Cardinality(promoted)
                 /\ moved' = moved + Cardinality(L1Now' \ L1Now) + Cardinality(L1Now \ L1Now')
                 /\ misplaced' \subseteq Page
                 /\ total_misplaced' \in Nat
                 /\ total_misplaced' = total_misplaced
                                         + Cardinality(IdealFastSet(curr_ep') \ L1Now')
                 /\ loc_ep' = [loc_ep EXCEPT ![curr_ep'] = L1Now']
                 /\ loc_ep' \in [Period -> SUBSET Page]
<1> DEFINE ep == curr_ep + 1
           ideal == IdealFastSet(ep)
<1>1. /\ curr_ep' = ep
      /\ curr_ep < PeriodOf(req) /\ req \in 0 .. num_reqs
  BY DEF Retier, RetierDue, TypeOK
<1>2. /\ curr_ep \in Period /\ PeriodOf(req) \in Period /\ num_periods \in Nat
  BY <1>1, PeriodOfRequest DEF TypeOK
<1>3. ep \in Period
  BY <1>1, <1>2 DEF Period
<1>4. L1Now \in SUBSET Page
  BY <1>2 DEF L1Now, TypeOK
<1>5. accessed' \in SUBSET Page
  BY DEF Retier, UpdateFeatures, featureVars, TypeOK
<1> DEFINE Moved(move) ==
             LET placed == (L1Now \cup move.promoted) \ move.demoted
                 missed == ideal \ placed
             IN  /\ loc_ep' = Place(ep, placed)
                 /\ num_migr' = num_migr + 2 * Cardinality(move.promoted)
                 /\ moved' = moved + Cardinality(placed \ L1Now) + Cardinality(L1Now \ placed)
                 /\ misplaced' = misplaced \cup missed
                 /\ total_misplaced' = total_misplaced + Cardinality(missed)
<1>6a. PICK hot \in HotPages(L1Now, ep, access_count', accessed') :
          \E move \in TierMoves(L1Now, hot) : Moved(move)
  BY <1>1 DEF Retier, L1Now
<1>6. PICK move \in TierMoves(L1Now, hot) : Moved(move)
  BY <1>6a
<1>7. hot \subseteq Page \ L1Now
  BY <1>5, HotIsSlow
<1>8. /\ move.promoted \subseteq hot
      /\ move.demoted \subseteq L1Now
      /\ Cardinality(move.promoted) <= l1_pages
      /\ Cardinality(move.demoted) =
            Smaller(Cardinality(move.promoted), Cardinality(L1Now))
  BY <1>4, <1>7, MoveBounds
<1> DEFINE placed == (L1Now \cup move.promoted) \ move.demoted
<1>9. placed \subseteq Page
  BY <1>4, <1>7, <1>8
<1>10. loc_ep' = [loc_ep EXCEPT ![ep] = placed]
  BY <1>1, <1>6 DEF Place
<1>11. L1Now' = placed /\ loc_ep' \in [Period -> SUBSET Page]
  <2>1. loc_ep \in [Period -> SUBSET Page]
    BY DEF TypeOK
  <2> HIDE DEF placed
  <2> QED
    BY <1>1, <1>3, <1>9, <1>10, <2>1 DEF L1Now
<1>12. ideal \subseteq Page
  BY DEF IdealFastSet
<1>13. /\ misplaced' \subseteq Page
       /\ total_misplaced' \in Nat
  <2>1. Cardinality(ideal \ placed) \in Nat
    BY <1>9, <1>12, PagesFinite
  <2>2. misplaced \subseteq Page /\ total_misplaced \in Nat
    BY DEF TypeOK
  <2>3. /\ misplaced' = misplaced \cup (ideal \ placed)
        /\ total_misplaced' = total_misplaced + Cardinality(ideal \ placed)
    BY <1>6
  <2> HIDE DEF ideal, placed
  <2> QED
    BY <1>12, <2>1, <2>2, <2>3
<1>14. /\ total_misplaced' = total_misplaced + Cardinality(IdealFastSet(curr_ep') \ L1Now')
       /\ loc_ep' = [loc_ep EXCEPT ![curr_ep'] = L1Now']
  BY <1>1, <1>6, <1>10, <1>11
<1> QED
  BY <1>1, <1>2, <1>3, <1>6, <1>7, <1>8, <1>11, <1>13, <1>14

\* A retier keeps the types.
LEMMA TypeRetier == TypeOK /\ Retier => TypeOK'
<1> SUFFICES ASSUME TypeOK, Retier PROVE TypeOK'
  OBVIOUS
<1>1. UNCHANGED <<trace, run, step, req, lru_list, counts_ep, oracle_page_ids, served>>
  BY DEF Retier
<1>2. PICK promoted \in SUBSET (Page \ L1Now), demoted \in SUBSET L1Now :
        /\ num_migr' = num_migr + 2 * Cardinality(promoted)
        /\ moved' = moved + Cardinality(L1Now' \ L1Now) + Cardinality(L1Now \ L1Now')
        /\ L1Now' = (L1Now \cup promoted) \ demoted
        /\ misplaced' \subseteq Page
        /\ total_misplaced' \in Nat
        /\ loc_ep' \in [Period -> SUBSET Page]
        /\ curr_ep' \in Period
  BY RetierTiers
<1>3. L1Now \in SUBSET Page
  BY DEF L1Now, TypeOK
<1>4. num_migr' \in Nat /\ moved' \in Nat
  <2>1. /\ Cardinality(promoted) \in Nat
        /\ Cardinality(L1Now' \ L1Now) \in Nat
        /\ Cardinality(L1Now \ L1Now') \in Nat
    BY <1>2, <1>3, PagesFinite
  <2> QED
    BY <1>2, <2>1 DEF TypeOK
<1>5. /\ access_count' \in [Page -> Nat]
      /\ epoch_access_count' \in [Page -> Nat]
      /\ accessed' \subseteq Page
  <2>1. UpdateFeatures
    BY DEF Retier
  <2>2. /\ access_count \in [Page -> Nat]
        /\ epoch_access_count \in [Page -> Nat]
        /\ accessed \subseteq Page
    BY DEF TypeOK
  <2>3. CASE policy \in FeaturePolicies
    BY <2>1, <2>2, <2>3 DEF UpdateFeatures
  <2>4. CASE policy \notin FeaturePolicies
    BY <2>1, <2>2, <2>4 DEF UpdateFeatures, featureVars
  <2> QED
    BY <2>3, <2>4
<1> QED
  BY <1>1, <1>2, <1>4, <1>5 DEF TypeOK

\* The type invariant is inductive.
LEMMA TypeStep == TypeOK /\ [Next]_vars => TypeOK'
<1> SUFFICES ASSUME TypeOK, [Next]_vars PROVE TypeOK'
  OBVIOUS
<1>1. CASE UNCHANGED vars
  BY <1>1 DEF TypeOK, vars
<1> QED
  BY <1>1, TypeStartRun, TypeServe, TypeRetier, TypeHitrate DEF Next

-----------------------------------------------------------------------------
(* Capacity and migrations *)

\* What a move does to the number of pages in a tier, in numbers.
LEMMA MoveCounts ==
    ASSUME NEW L1 \in SUBSET Page, NEW promoted \in SUBSET (Page \ L1),
           NEW demoted \in SUBSET L1,
           NEW placed, placed = (L1 \cup promoted) \ demoted
    PROVE  /\ Cardinality(placed) =
                 Cardinality(L1) + Cardinality(promoted) - Cardinality(demoted)
           /\ Cardinality(placed \ L1) = Cardinality(promoted)
           /\ Cardinality(L1 \ placed) = Cardinality(demoted)
<1>1. /\ IsFiniteSet(L1) /\ Cardinality(L1) \in Nat
      /\ IsFiniteSet(promoted) /\ Cardinality(promoted) \in Nat
      /\ IsFiniteSet(demoted) /\ Cardinality(demoted) \in Nat
  BY PagesFinite
<1>2. placed \ L1 = promoted /\ L1 \ placed = demoted
  OBVIOUS
<1>3. /\ IsFiniteSet(L1 \cup promoted)
      /\ Cardinality(L1 \cup promoted) = Cardinality(L1) + Cardinality(promoted)
  <2>1. L1 \cap promoted = {}
    OBVIOUS
  <2>2. Cardinality(L1 \cup promoted) =
           Cardinality(L1) + Cardinality(promoted) - Cardinality(L1 \cap promoted)
    BY <1>1, FS_Union
  <2> QED
    BY <1>1, <2>1, <2>2, FS_Union, FS_EmptySet
<1>4. Cardinality(placed) = Cardinality(L1 \cup promoted) - Cardinality(demoted)
  <2>1. (L1 \cup promoted) \cap demoted = demoted
    OBVIOUS
  <2>2. Cardinality((L1 \cup promoted) \ demoted) =
           Cardinality(L1 \cup promoted) - Cardinality((L1 \cup promoted) \cap demoted)
    BY <1>3, FS_Difference
  <2> QED
    BY <2>1, <2>2
<1> QED
  BY <1>1, <1>2, <1>3, <1>4

\* The tiers of a retier in numbers: what the scheduler counts above the pages
\* that move is what L1 gains.
LEMMA RetierCounts ==
    ASSUME TypeOK, CapacityKept, MigrationsExact, Retier
    PROVE  CapacityKept' /\ MigrationsExact'
<1>1. L1Now \in SUBSET Page
  BY DEF L1Now, TypeOK
<1>2. PICK promoted \in SUBSET (Page \ L1Now), demoted \in SUBSET L1Now :
        /\ Cardinality(promoted) <= l1_pages
        /\ Cardinality(demoted) = Smaller(Cardinality(promoted), Cardinality(L1Now))
        /\ L1Now' = (L1Now \cup promoted) \ demoted
        /\ num_migr' = num_migr + 2 * Cardinality(promoted)
        /\ moved' = moved + Cardinality(L1Now' \ L1Now) + Cardinality(L1Now \ L1Now')
  BY RetierTiers
<1>3. /\ Cardinality(L1Now') =
            Cardinality(L1Now) + Cardinality(promoted) - Cardinality(demoted)
      /\ Cardinality(L1Now' \ L1Now) = Cardinality(promoted)
      /\ Cardinality(L1Now \ L1Now') = Cardinality(demoted)
  <2>1. L1Now' = (L1Now \cup promoted) \ demoted
    BY <1>2
  <2> QED
    BY ONLY <1>1, <2>1, promoted \in SUBSET (Page \ L1Now), demoted \in SUBSET L1Now, MoveCounts
<1>4. /\ Cardinality(L1Now) \in Nat /\ Cardinality(promoted) \in Nat
      /\ Cardinality(demoted) \in Nat
      /\ l1_pages \in Nat /\ num_migr \in Nat /\ moved \in Nat
  BY <1>1, PagesFinite, SimulatorAssumption DEF TypeOK
<1>5. Cardinality(InitialTier) \in Nat /\ Cardinality(InitialTier)' = Cardinality(InitialTier)
  BY InitialTierFits DEF InitialTier, Page
<1>6. CapacityKept'
  BY <1>2, <1>3, <1>4 DEF CapacityKept, Smaller
<1>7. num_migr' + Cardinality(InitialTier) = moved' + Cardinality(L1Now')
  BY <1>2, <1>3, <1>4, <1>5 DEF MigrationsExact
<1> QED
  BY <1>5, <1>6, <1>7 DEF MigrationsExact

-----------------------------------------------------------------------------
(* Requests and periods *)

\* Periods begin when their first request is due.
LEMMA InStepServe == TypeOK /\ InStep /\ Serve => InStep'
<1> SUFFICES ASSUME TypeOK, InStep, Serve PROVE InStep'
  OBVIOUS
<1>1. curr_ep' = curr_ep /\ req' = req + 1 /\ req < num_reqs
  BY DEF Serve
<1>2. req \in Nat /\ curr_ep \in Nat
  BY FirstPeriod, PeriodOfRequest, SimulatorAssumption DEF TypeOK, Period
<1>3. PeriodOf(req) \in Nat /\ PeriodOf(req + 1) \in Nat /\ PeriodOf(req) <= PeriodOf(req + 1)
  BY <1>2, PeriodMonotone
<1>4. PeriodOf(req) <= curr_ep
  BY <1>1, <1>2, <1>3 DEF Serve, RetierDue
<1>5. curr_ep <= PeriodOf(req + 1)
  BY <1>2, <1>3 DEF InStep
<1>6. \A i \in 0 .. req' - 1 : PeriodOf(i) <= curr_ep
  <2> SUFFICES ASSUME NEW i \in 0 .. req' - 1 PROVE PeriodOf(i) <= curr_ep
    OBVIOUS
  <2>1. i = req \/ i \in 0 .. req - 1
    BY <1>1, <1>2
  <2> QED
    BY <1>4, <2>1 DEF InStep
<1>7. \A i \in 0 .. req' - 1 : PeriodOf(i)' = PeriodOf(i)
  BY DEF PeriodOf
<1> QED
  BY <1>1, <1>5, <1>6, <1>7 DEF InStep, PeriodOf

\* A period that begins is not later than the request that is due.
LEMMA InStepRetier == TypeOK /\ InStep /\ Retier => InStep'
<1> SUFFICES ASSUME TypeOK, InStep, Retier PROVE InStep'
  OBVIOUS
<1>1. /\ curr_ep' = curr_ep + 1 /\ req' = req
      /\ curr_ep < PeriodOf(req)
  BY DEF Retier, RetierDue
<1>2. req \in Nat /\ curr_ep \in Nat
  BY FirstPeriod, PeriodOfRequest, SimulatorAssumption DEF TypeOK, Period
<1>3. PeriodOf(req) \in Nat
  BY <1>2, PeriodMonotone
<1>4. \A i \in 0 .. req - 1 : PeriodOf(i) \in Nat /\ PeriodOf(i) <= curr_ep
  BY <1>2, PeriodMonotone DEF InStep
<1> QED
  BY <1>1, <1>2, <1>3, <1>4 DEF InStep, PeriodOf

-----------------------------------------------------------------------------
(* The features of a run *)

\* A request that is served is counted for its page and for no other.
LEMMA ServedNowGrows ==
    ASSUME TypeOK, InStep, Serve, NEW p \in Page
    PROVE  ServedNow(p)' = ServedNow(p) + (IF p = trace[req] THEN 1 ELSE 0)
<1> DEFINE S == {i \in 0 .. req - 1 : trace[i] = p /\ PeriodOf(i) = curr_ep}
           R == {i \in 0 .. req : trace[i] = p /\ PeriodOf(i) = curr_ep}
<1>1. /\ curr_ep' = curr_ep /\ req' = req + 1 /\ trace' = trace
      /\ req < num_reqs /\ ~RetierDue
  BY DEF Serve
<1>2. req \in Nat /\ curr_ep \in Nat
  BY FirstPeriod, PeriodOfRequest, SimulatorAssumption DEF TypeOK, Period
<1>3. PeriodOf(req) = curr_ep
  BY <1>1, <1>2, PeriodMonotone DEF RetierDue, InStep
<1>4. S \subseteq 0 .. req - 1 /\ IsFiniteSet(0 .. req - 1)
  BY <1>2, FS_Interval
<1>5. IsFiniteSet(S) /\ Cardinality(S) \in Nat
  BY <1>4, FS_Subset, FS_CardinalityType
<1>6. req \notin S
  BY <1>2
<1>7. R = IF p = trace[req] THEN S \cup {req} ELSE S
  BY <1>2, <1>3
<1>8. Cardinality(S \cup {req}) = Cardinality(S) + 1
  BY <1>5, <1>6, FS_AddElement
<1>9. ServedNow(p)' = Cardinality(R)
  <2>1. 0 .. req' - 1 = 0 .. req
    BY <1>1, <1>2
  <2> QED
    BY <1>1, <2>1 DEF ServedNow, PeriodOf
<1>10. ServedNow(p) = Cardinality(S)
  BY DEF ServedNow
<1> HIDE DEF S, R
<1> QED
  BY <1>5, <1>7, <1>8, <1>9, <1>10

\* No request of a period is served before the period begins.
LEMMA ServedNowStarts ==
    ASSUME TypeOK, InStep, Retier, NEW p \in Page
    PROVE  ServedNow(p)' = 0
<1>1. curr_ep' = curr_ep + 1 /\ req' = req /\ trace' = trace
  BY DEF Retier
<1>2. req \in Nat /\ curr_ep \in Nat
  BY FirstPeriod, PeriodOfRequest, SimulatorAssumption DEF TypeOK, Period
<1>3. \A i \in 0 .. req - 1 : PeriodOf(i) \in Nat /\ PeriodOf(i) <= curr_ep
  BY <1>2, PeriodMonotone DEF InStep
<1>4. {i \in 0 .. req - 1 : trace[i] = p /\ PeriodOf(i) = curr_ep + 1} = {}
  BY <1>2, <1>3
<1>5. ServedNow(p)' =
         Cardinality({i \in 0 .. req - 1 : trace[i] = p /\ PeriodOf(i) = curr_ep + 1})
  BY <1>1 DEF ServedNow, PeriodOf
<1> QED
  BY <1>4, <1>5, FS_EmptySet

\* Serving a request keeps the counters settled.
LEMMA SettleServe ==
    TypeOK /\ InStep /\ EpochCountersSettle /\ Serve => EpochCountersSettle'
<1> SUFFICES ASSUME TypeOK, InStep, EpochCountersSettle, Serve,
                    (step = "run" /\ curr_ep > 0 /\ policy \in FeaturePolicies)',
                    NEW p \in Page
             PROVE  epoch_access_count'[p] = ServedNow(p)'
  BY DEF EpochCountersSettle, Page
<1>1. step = "run" /\ curr_ep > 0 /\ policy \in FeaturePolicies
  BY DEF Serve, policy, FeaturePolicies
<1>2. epoch_access_count[p] = ServedNow(p)
  BY <1>1 DEF EpochCountersSettle
<1>3. /\ epoch_access_count \in [Page -> Nat]
      /\ epoch_access_count' = [epoch_access_count EXCEPT ![trace[req]] = @ + 1]
  BY DEF Serve, TypeOK
<1>4. ServedNow(p)' = ServedNow(p) + (IF p = trace[req] THEN 1 ELSE 0)
  BY ServedNowGrows
<1> QED
  BY <1>2, <1>3, <1>4

\* A retier settles the counters, whatever runs came before.
LEMMA SettleRetier ==
    TypeOK /\ InStep /\ Retier => EpochCountersSettle'
<1> SUFFICES ASSUME TypeOK, InStep, Retier, policy' \in FeaturePolicies,
                    NEW p \in Page
             PROVE  epoch_access_count'[p] = ServedNow(p)'
  BY DEF EpochCountersSettle, Page, FeaturePolicies
<1>1. policy \in FeaturePolicies
  BY DEF Retier, policy
<1>2. epoch_access_count' = [q \in Page |-> 0]
  BY <1>1 DEF Retier, UpdateFeatures
<1> QED
  BY <1>2, ServedNowStarts

-----------------------------------------------------------------------------
(* The inductive invariant *)

\* The invariant holds before the first run.
LEMMA InvInit == Init => IInv
<1> SUFFICES ASSUME Init PROVE IInv
  OBVIOUS
<1>1. TypeOK
  BY TypeInit
<1>2. L1Now = InitialTier
  BY FirstPeriod DEF Init, L1Now, InitialLoc
<1>3. CapacityKept
  BY <1>2, InitialTierFits DEF CapacityKept
<1>4. MigrationsExact /\ EpochCountersSettle
  BY <1>2, InitialTierFits DEF Init, MigrationsExact, EpochCountersSettle
<1>5. InStep
  BY PeriodMonotone DEF Init, InStep
<1> QED
  BY <1>1, <1>3, <1>4, <1>5 DEF IInv

\* A run starts as the first one did, but for the features.
LEMMA InvStartRun == TypeOK /\ StartRun => IInv'
<1> SUFFICES ASSUME TypeOK, StartRun PROVE IInv'
  OBVIOUS
<1>1. TypeOK'
  BY TypeStartRun
<1>2. L1Now' = InitialTier
  BY FirstPeriod DEF StartRun, L1Now, InitialLoc
<1>3. CapacityKept'
  BY <1>2, InitialTierFits DEF CapacityKept, InitialTier, Page
<1>4. MigrationsExact' /\ EpochCountersSettle'
  <2>1. MigrationsExact'
    BY <1>2, InitialTierFits DEF StartRun, MigrationsExact, InitialTier, Page
  <2> QED
    BY <2>1 DEF StartRun, EpochCountersSettle
<1>5. PeriodOf(0) \in Nat
  BY PeriodMonotone
<1>6. InStep'
  BY <1>5 DEF StartRun, InStep, PeriodOf
<1> QED
  BY <1>1, <1>3, <1>4, <1>6 DEF IInv

\* Every step keeps the invariant.
LEMMA InvStep == IInv /\ [Next]_vars => IInv'
<1> SUFFICES ASSUME IInv, [Next]_vars PROVE IInv'
  OBVIOUS
<1>1. TypeOK'
  BY TypeStep DEF IInv
<1>2. CASE StartRun
  BY <1>2, InvStartRun DEF IInv
<1>3. CASE Serve
  <2>1. UNCHANGED <<loc_ep, curr_ep, num_migr, moved>>
    BY <1>3 DEF Serve, placeVars
  <2>2. CapacityKept' /\ MigrationsExact'
    BY <2>1 DEF IInv, CapacityKept, MigrationsExact, InitialTier, Page, L1Now
  <2> QED
    BY <1>1, <1>3, <2>2, InStepServe, SettleServe DEF IInv
<1>4. CASE Retier
  BY <1>1, <1>4, RetierCounts, InStepRetier, SettleRetier DEF IInv
<1>5. CASE Hitrate
  <2>1. UNCHANGED <<loc_ep, curr_ep, num_migr, moved, req>> /\ step' = "init"
    BY <1>5 DEF Hitrate, placeVars, historyVars
  <2> QED
    BY <1>1, <2>1 DEF IInv, CapacityKept, MigrationsExact, InitialTier, Page, L1Now,
                      InStep, PeriodOf, EpochCountersSettle
<1>6. CASE UNCHANGED vars
  BY <1>1, <1>6 DEF IInv, CapacityKept, MigrationsExact, InitialTier, Page, L1Now,
                    InStep, PeriodOf, EpochCountersSettle,
                    ServedNow, policy, FeaturePolicies, vars
<1> QED
  BY <1>2, <1>3, <1>4, <1>5, <1>6 DEF Next

-----------------------------------------------------------------------------
(* What a run reports *)

\* The hits of a period, and of all of them, are natural numbers.
LEMMA HitsNat ==
    ASSUME TypeOK
    PROVE  /\ IsFiniteSet(Period)
           /\ \A ep \in Period : /\ IsFiniteSet(loc_ep[ep]) /\ loc_ep[ep] \subseteq Page
                                 /\ PeriodHits(ep) \in Nat
           /\ hitrate \in Nat
<1>1. IsFiniteSet(Period)
  <2>1. num_periods \in Nat
    BY PeriodOfRequest, SimulatorAssumption
  <2> QED
    BY <2>1, FS_Interval DEF Period
<1>2. ASSUME NEW ep \in Period
      PROVE  /\ IsFiniteSet(loc_ep[ep]) /\ loc_ep[ep] \subseteq Page
             /\ PeriodHits(ep) \in Nat
  <2> DEFINE f == [p \in Page |-> counts_ep[p][ep]]
  <2>1. loc_ep[ep] \subseteq Page /\ IsFiniteSet(loc_ep[ep])
    BY PagesFinite DEF TypeOK
  <2>2. \A p \in loc_ep[ep] : f[p] \in Nat
    BY <2>1 DEF TypeOK
  <2> HIDE DEF f
  <2>3. SumFunctionOnSet(f, loc_ep[ep]) \in Nat
    BY <2>1, <2>2, SumNat
  <2> QED
    BY <2>1, <2>3 DEF PeriodHits, f
<1>3. hitrate \in Nat
  <2> DEFINE f == [ep \in Period |-> PeriodHits(ep)]
  <2>1. \A ep \in Period : f[ep] \in Nat
    BY <1>2
  <2> HIDE DEF f
  <2>2. SumFunctionOnSet(f, Period) \in Nat
    BY <1>1, <2>1, SumNat
  <2> QED
    BY <2>2 DEF hitrate, f
<1> QED
  BY <1>1, <1>2, <1>3

\* Where the hits of only one period change, hitrate changes by as much.
LEMMA HitsOfOnePeriod ==
    ASSUME TypeOK, NEW e \in Period, NEW d \in Int,
           PeriodHits(e)' = PeriodHits(e) + d,
           \A ep \in Period : ep # e => PeriodHits(ep)' = PeriodHits(ep)
    PROVE  hitrate' = hitrate + d
<1> DEFINE f == [ep \in Period |-> PeriodHits(ep)]
           g == [ep \in Period |-> PeriodHits(ep)']
<1>1. IsFiniteSet(Period) /\ hitrate \in Nat /\ \A ep \in Period : PeriodHits(ep) \in Nat
  BY HitsNat
<1>2. hitrate = SumFunctionOnSet(f, Period) /\ hitrate' = SumFunctionOnSet(g, Period)
  BY DEF hitrate, Period, num_periods
<1>3. \A ep \in Period : f[ep] \in Int /\ g[ep] \in Int
  BY <1>1
<1>4. \A ep \in Period \ {e} : g[ep] = f[ep]
  OBVIOUS
<1>5. g[e] = f[e] + d
  OBVIOUS
<1> HIDE DEF f, g
<1>6. SumFunctionOnSet(g, Period) = SumFunctionOnSet(f, Period) - f[e] + g[e]
  BY <1>1, <1>3, <1>4, SumChange
<1> QED
  BY <1>1, <1>2, <1>3, <1>5, <1>6

\* A request that is served is found by hitrate where it found its page.
LEMMA ServeHits ==
    ASSUME TypeOK, Serve
    PROVE  hitrate' = hitrate + (IF trace[req] \in L1Now THEN 1 ELSE 0)
<1> DEFINE p == trace[req]
           d == IF trace[req] \in L1Now THEN 1 ELSE 0
           f == [q \in Page |-> counts_ep[q][curr_ep]]
           g == [q \in Page |-> counts_ep'[q][curr_ep]]
<1>1. p \in Page /\ curr_ep \in Period
  BY SimulatorAssumption DEF Serve, TypeOK, Traces
<1>2. /\ counts_ep \in [Page -> [Period -> Nat]]
      /\ counts_ep' = [counts_ep EXCEPT ![p][curr_ep] = @ + 1]
      /\ UNCHANGED <<loc_ep, curr_ep>>
  BY DEF Serve, TypeOK, placeVars
<1>3. \A ep \in Period : ep # curr_ep => PeriodHits(ep)' = PeriodHits(ep)
  <2> SUFFICES ASSUME NEW ep \in Period, ep # curr_ep PROVE PeriodHits(ep)' = PeriodHits(ep)
    OBVIOUS
  <2>1. \A q \in Page : counts_ep'[q][ep] = counts_ep[q][ep]
    BY <1>1, <1>2
  <2>2. [q \in Page |-> counts_ep'[q][ep]] = [q \in Page |-> counts_ep[q][ep]]
    BY <2>1
  <2> QED
    BY <1>2, <2>2 DEF PeriodHits, Page
<1>4. PeriodHits(curr_ep) = SumFunctionOnSet(f, L1Now)
  BY DEF PeriodHits, L1Now
<1>5. PeriodHits(curr_ep)' = SumFunctionOnSet(g, L1Now)
  BY <1>2 DEF PeriodHits, L1Now, Page
<1>6. L1Now \subseteq Page /\ IsFiniteSet(L1Now) /\ PeriodHits(curr_ep) \in Nat
  BY <1>1, HitsNat DEF L1Now
<1>7. \A q \in Page : f[q] \in Int /\ g[q] \in Int
  BY <1>1, <1>2
<1>8. \A q \in Page : g[q] = IF q = p THEN f[q] + 1 ELSE f[q]
  BY <1>1, <1>2
<1>9. PeriodHits(curr_ep)' = PeriodHits(curr_ep) + d
  <2> HIDE DEF f, g, p
  <2>1. CASE p \in L1Now
    <3>1. SumFunctionOnSet(g, L1Now) = SumFunctionOnSet(f, L1Now) - f[p] + g[p]
      <4>1. \A q \in L1Now : f[q] \in Int /\ g[q] \in Int
        BY <1>6, <1>7
      <4>2. \A q \in L1Now \ {p} : g[q] = f[q]
        BY <1>6, <1>8
      <4> QED
        BY <1>6, <2>1, <4>1, <4>2, SumChange
    <3> QED
      BY <1>1, <1>4, <1>5, <1>6, <1>7, <1>8, <2>1, <3>1 DEF p
  <2>2. CASE p \notin L1Now
    <3>1. SumFunctionOnSet(g, L1Now) = SumFunctionOnSet(f, L1Now)
      <4>1. \A q \in L1Now : f[q] \in Int /\ g[q] = f[q]
        BY <1>6, <1>7, <1>8, <2>2
      <4> QED
        BY <1>6, <4>1, SumSame
    <3> QED
      BY <1>4, <1>5, <1>6, <2>2, <3>1 DEF p
  <2> QED
    BY <2>1, <2>2
<1>10. d \in Int
  OBVIOUS
<1>11. PeriodHits(curr_ep)' = PeriodHits(curr_ep) + d /\ curr_ep' = curr_ep
  BY <1>2, <1>9
<1> HIDE DEF d
<1>12. PICK e \in Period : e = curr_ep
  BY <1>1
<1>13. PeriodHits(e)' = PeriodHits(e) + d
  <2>1. PeriodHits(e)' = PeriodHits(curr_ep)'
    BY <1>2, <1>12 DEF PeriodHits
  <2> QED
    BY <1>11, <1>12, <2>1
<1>14. hitrate' = hitrate + d
  BY <1>3, <1>10, <1>12, <1>13, HitsOfOnePeriod
<1> QED
  BY <1>14 DEF d

\* Placing pages for a period that no request has been served in changes no hit.
LEMMA RetierHits ==
    ASSUME TypeOK, HitsInv, Retier
    PROVE  hitrate' = hitrate
<1>1. /\ curr_ep' = curr_ep + 1 /\ curr_ep \in Period /\ curr_ep' \in Period
      /\ loc_ep' = [loc_ep EXCEPT ![curr_ep'] = L1Now']
      /\ loc_ep' \in [Period -> SUBSET Page]
  BY RetierTiers
<1>2. PICK e \in Period : e = curr_ep'
  BY <1>1
<1>3. counts_ep' = counts_ep /\ step = "run"
  BY DEF Retier
<1>4. \A p \in Page : counts_ep[p][e] = 0
  BY <1>1, <1>2, <1>3 DEF HitsInv, Period
<1>5. \A L \in SUBSET Page : SumFunctionOnSet([p \in Page |-> counts_ep[p][e]], L) = 0
  <2> SUFFICES ASSUME NEW L \in SUBSET Page
               PROVE  SumFunctionOnSet([p \in Page |-> counts_ep[p][e]], L) = 0
    OBVIOUS
  <2> DEFINE f == [p \in Page |-> counts_ep[p][e]]
  <2>1. IsFiniteSet(L) /\ \A p \in L : f[p] = 0
    BY <1>4, PagesFinite
  <2> HIDE DEF f
  <2>2. SumFunctionOnSet(f, L) = 0
    BY <2>1, SumZero
  <2> QED
    BY <2>2 DEF f
<1>6. PeriodHits(e) = 0 /\ PeriodHits(e)' = 0
  <2>1. loc_ep[e] \in SUBSET Page /\ loc_ep'[e] \in SUBSET Page
    BY <1>1 DEF TypeOK
  <2>2. PeriodHits(e) = SumFunctionOnSet([p \in Page |-> counts_ep[p][e]], loc_ep[e])
    BY DEF PeriodHits
  <2>3. PeriodHits(e)' = SumFunctionOnSet([p \in Page |-> counts_ep[p][e]], loc_ep'[e])
    BY <1>3 DEF PeriodHits, Page
  <2> QED
    BY <1>5, <2>1, <2>2, <2>3
<1>7. \A ep \in Period : ep # e => PeriodHits(ep)' = PeriodHits(ep)
  <2>1. \A ep \in Period : ep # e => loc_ep'[ep] = loc_ep[ep]
    BY <1>1, <1>2 DEF TypeOK
  <2> QED
    BY <1>3, <2>1 DEF PeriodHits, Page
<1>8. PeriodHits(e)' = PeriodHits(e) + 0
  BY <1>6
<1>9. hitrate' = hitrate + 0
  BY <1>7, <1>8, HitsOfOnePeriod
<1> QED
  BY <1>9, HitsNat

\* A run starts without hits.
LEMMA NoHits ==
    ASSUME NEW L \in [Period -> SUBSET Page]
    PROVE  SumFunctionOnSet([ep \in Period |-> SumFunctionOnSet([p \in Page |-> 0], L[ep])],
                            Period) = 0
<1>1. IsFiniteSet(Period)
  <2>1. num_periods \in Nat
    BY PeriodOfRequest, SimulatorAssumption
  <2> QED
    BY <2>1, FS_Interval DEF Period
<1> DEFINE z == [p \in Page |-> 0]
           f == [ep \in Period |-> SumFunctionOnSet(z, L[ep])]
<1>2. ASSUME NEW ep \in Period PROVE f[ep] = 0
  <2>1. IsFiniteSet(L[ep]) /\ \A p \in L[ep] : z[p] = 0
    BY PagesFinite
  <2> HIDE DEF z
  <2>2. SumFunctionOnSet(z, L[ep]) = 0
    BY <2>1, SumZero
  <2> QED
    BY <2>2
<1> HIDE DEF f
<1>3. SumFunctionOnSet(f, Period) = 0
  BY <1>1, <1>2, SumZero
<1> QED
  BY <1>3 DEF f, z

\* The ideal pages left in L2 in a period, as long as the period's placement
\* stays, are as many.
LEMMA LeftNat ==
    ASSUME TypeOK, NEW ep \in Period
    PROVE  Cardinality(IdealFastSet(ep) \ loc_ep[ep]) \in Nat
<1>1. IdealFastSet(ep) \subseteq Page
  BY DEF IdealFastSet
<1> QED
  BY <1>1, PagesFinite

\* The periods up to the current one are periods.
LEMMA BegunPeriods ==
    ASSUME NEW e \in Period
    PROVE  1 .. e \subseteq Period /\ IsFiniteSet(1 .. e) /\ e \in Nat
<1>1. num_periods \in Nat /\ e \in Nat /\ e <= num_periods - 1
  BY PeriodOfRequest, SimulatorAssumption DEF Period
<1> QED
  BY <1>1, FS_Interval DEF Period

\* Nothing is left of the ideal set where no period began with a retier.
LEMMA NoneLeft ==
    ASSUME NEW f
    PROVE  SumFunctionOnSet(f, 1 .. 0) = 0
<1>1. 1 .. 0 = {}
  OBVIOUS
<1> QED
  BY <1>1, SumEmpty

\* IdealPagesLeft goes by the trace, the placements and the current period.
LEMMA LeftKept ==
    ASSUME UNCHANGED <<trace, loc_ep, curr_ep>>
    PROVE  IdealPagesLeft' = IdealPagesLeft
<1>1. \A p, ep : OracleCount(p, ep)' = OracleCount(p, ep)
  BY DEF OracleCount, PeriodOf
<1>2. \A ep : IdealFastSet(ep)' = IdealFastSet(ep)
  BY <1>1 DEF IdealFastSet, Page
<1> QED
  BY <1>2 DEF IdealPagesLeft, Period, num_periods

\* A retier adds what the period that begins leaves of the ideal set.
LEMMA LeftRetier ==
    ASSUME TypeOK, Retier
    PROVE  IdealPagesLeft' =
              IdealPagesLeft + Cardinality(IdealFastSet(curr_ep') \ L1Now')
<1>1. /\ curr_ep \in Period /\ curr_ep' \in Period /\ curr_ep' = curr_ep + 1
      /\ loc_ep' = [loc_ep EXCEPT ![curr_ep'] = L1Now']
      /\ loc_ep' \in [Period -> SUBSET Page]
  BY RetierTiers
<1>2. PICK n \in Period : n = curr_ep'
  BY <1>1
<1>3. trace' = trace
  BY DEF Retier
<1>4. \A p, ep : OracleCount(p, ep)' = OracleCount(p, ep)
  BY <1>3 DEF OracleCount, PeriodOf
<1>5. \A ep : IdealFastSet(ep)' = IdealFastSet(ep)
  BY <1>4 DEF IdealFastSet, Page
<1> DEFINE f == [ep \in Period |-> Cardinality(IdealFastSet(ep) \ loc_ep[ep])]
           g == [ep \in Period |-> Cardinality(IdealFastSet(ep) \ loc_ep'[ep])]
<1>6. IdealPagesLeft = SumFunctionOnSet(f, 1 .. curr_ep)
  BY DEF IdealPagesLeft
<1>7. IdealPagesLeft' = SumFunctionOnSet(g, 1 .. n)
  BY <1>2, <1>5 DEF IdealPagesLeft, Period, num_periods
<1>8. \A ep \in Period : f[ep] \in Nat
  BY LeftNat
<1>9. g[n] = Cardinality(IdealFastSet(n) \ L1Now') /\ g[n] \in Nat
  <2>1. loc_ep'[n] = L1Now' /\ L1Now' \in SUBSET Page
    BY <1>1, <1>2 DEF L1Now
  <2>2. IdealFastSet(n) \subseteq Page
    BY DEF IdealFastSet
  <2>3. Cardinality(IdealFastSet(n) \ L1Now') \in Nat
    BY <2>1, <2>2, PagesFinite
  <2> QED
    BY <2>1, <2>3
<1>10. \A ep \in Period \ {n} : g[ep] = f[ep]
  BY <1>1, <1>2 DEF TypeOK
<1> HIDE DEF f, g
<1>11. /\ 1 .. n \subseteq Period /\ IsFiniteSet(1 .. n)
       /\ 1 .. curr_ep \subseteq Period /\ IsFiniteSet(1 .. curr_ep)
       /\ n \in 1 .. n /\ (1 .. n) \ {n} = 1 .. curr_ep
  <2>1. n = curr_ep + 1 /\ curr_ep \in Nat
    BY <1>1, <1>2, BegunPeriods
  <2> QED
    BY <1>1, <2>1, BegunPeriods
<1>12. \A ep \in 1 .. n : g[ep] \in Int
  BY <1>8, <1>9, <1>10, <1>11
<1>13. SumFunctionOnSet(g, 1 .. n) = g[n] + SumFunctionOnSet(g, 1 .. curr_ep)
  <2>1. \A x \in 1 .. n :
           SumFunctionOnSet(g, 1 .. n) = g[x] + SumFunctionOnSet(g, (1 .. n) \ {x})
    BY ONLY <1>11, <1>12, SumSplit
  <2>2. SumFunctionOnSet(g, 1 .. n) = g[n] + SumFunctionOnSet(g, (1 .. n) \ {n})
    BY <1>11, <2>1
  <2> QED
    BY <1>11, <2>2
<1>14. SumFunctionOnSet(g, 1 .. curr_ep) = SumFunctionOnSet(f, 1 .. curr_ep)
  <2>1. \A ep \in 1 .. curr_ep : f[ep] \in Int /\ g[ep] = f[ep]
    BY <1>8, <1>10, <1>11
  <2> QED
    BY <1>11, <2>1, SumSame
<1>15. SumFunctionOnSet(f, 1 .. curr_ep) \in Nat
  BY <1>8, <1>11, SumNat
<1> QED
  BY <1>2, <1>5, <1>6, <1>7, <1>9, <1>13, <1>14, <1>15

\* The report agrees before the first run.
LEMMA HitsInit == Init => HitsInv
<1> SUFFICES ASSUME Init PROVE HitsInv
  OBVIOUS
<1>1. IdealPagesLeft = 0
  BY NoneLeft DEF Init, IdealPagesLeft
<1> QED
  BY <1>1 DEF Init, HitsInv

\* The report agrees when a run starts.
LEMMA HitsStartRun == TypeOK /\ StartRun => HitsInv'
<1> SUFFICES ASSUME TypeOK, StartRun PROVE HitsInv'
  OBVIOUS
<1>1. /\ step' = "run" /\ served' = 0 /\ total_misplaced' = 0 /\ curr_ep' = 0
      /\ loc_ep' = InitialLoc /\ counts_ep' = NoCounts
  BY DEF StartRun
<1>2. InitialLoc \in [Period -> SUBSET Page]
  BY InitialTierFits DEF InitialLoc
<1>3. \A ep \in Period : [p \in Page |-> counts_ep'[p][ep]] = [p \in Page |-> 0]
  BY <1>1 DEF NoCounts
<1>4. \A ep \in Period : PeriodHits(ep)' = SumFunctionOnSet([p \in Page |-> 0], InitialLoc[ep])
  BY <1>1, <1>3 DEF PeriodHits, Page
<1>5. hitrate' = SumFunctionOnSet([ep \in Period |->
                     SumFunctionOnSet([p \in Page |-> 0], InitialLoc[ep])], Period)
  BY <1>4 DEF hitrate, Period, num_periods
<1>6. hitrate' = 0
  BY <1>2, <1>5, NoHits
<1>7. \A p \in Page, ep \in Period : counts_ep'[p][ep] = 0
  BY <1>1 DEF NoCounts
<1>8. IdealPagesLeft' = 0
  BY <1>1, NoneLeft DEF IdealPagesLeft
<1> QED
  BY <1>1, <1>6, <1>7, <1>8 DEF HitsInv, Page, Period, num_periods

\* The report agrees as requests are served.
LEMMA HitsServe == TypeOK /\ HitsInv /\ Serve => HitsInv'
<1> SUFFICES ASSUME TypeOK, HitsInv, Serve PROVE HitsInv'
  OBVIOUS
<1>1. /\ step = "run" /\ step' = "run"
      /\ UNCHANGED <<total_misplaced, trace, loc_ep, curr_ep>>
      /\ served' = served + (IF trace[req] \in L1Now THEN 1 ELSE 0)
      /\ counts_ep' = [counts_ep EXCEPT ![trace[req]][curr_ep] = @ + 1]
  BY DEF Serve, placeVars, L1Now
<1>2. hitrate' = hitrate + (IF trace[req] \in L1Now THEN 1 ELSE 0)
  BY ServeHits
<1>3. served' = hitrate'
  BY <1>1, <1>2 DEF HitsInv
<1>4. \A p \in Page, ep \in Period : ep > curr_ep => counts_ep'[p][ep] = 0
  <2> SUFFICES ASSUME NEW p \in Page, NEW ep \in Period, ep > curr_ep
               PROVE  counts_ep'[p][ep] = 0
    OBVIOUS
  <2>1. curr_ep \in Period /\ counts_ep \in [Page -> [Period -> Nat]] /\ ep # curr_ep
    BY DEF TypeOK, Period
  <2>2. counts_ep'[p][ep] = counts_ep[p][ep]
    BY <1>1, <2>1
  <2> QED
    BY <1>1, <2>2 DEF HitsInv
<1>5. IdealPagesLeft' = IdealPagesLeft
  BY <1>1, LeftKept
<1> QED
  BY <1>1, <1>3, <1>4, <1>5 DEF HitsInv, Page, Period, num_periods

\* The report agrees across a retier: both sides count what the period that
\* begins leaves of the ideal set.
LEMMA HitsRetier == TypeOK /\ HitsInv /\ Retier => HitsInv'
<1> SUFFICES ASSUME TypeOK, HitsInv, Retier PROVE HitsInv'
  OBVIOUS
<1>1. step = "run" /\ step' = "run" /\ served' = served /\ counts_ep' = counts_ep
  BY DEF Retier
<1>2. /\ curr_ep \in Period /\ curr_ep' = curr_ep + 1
      /\ total_misplaced' = total_misplaced + Cardinality(IdealFastSet(curr_ep') \ L1Now')
  BY RetierTiers
<1>3. served' = hitrate'
  BY <1>1, RetierHits DEF HitsInv
<1>4. \A p \in Page, ep \in Period : ep > curr_ep' => counts_ep'[p][ep] = 0
  BY <1>1, <1>2 DEF HitsInv, Period
<1>5. total_misplaced' = IdealPagesLeft'
  BY <1>2, LeftRetier DEF HitsInv
<1> QED
  BY <1>1, <1>3, <1>4, <1>5 DEF HitsInv, Page, Period, num_periods

\* hitrate reports what it finds.
LEMMA HitsHitrate == HitsInv /\ Hitrate => HitsInv'
<1> SUFFICES ASSUME HitsInv, Hitrate PROVE HitsInv'
  OBVIOUS
<1>1. IdealPagesLeft' = IdealPagesLeft
  BY LeftKept DEF Hitrate, placeVars
<1> QED
  BY <1>1 DEF HitsInv, Hitrate, placeVars, historyVars

\* Every step keeps the report in agreement.
LEMMA HitsStep == TypeOK /\ HitsInv /\ [Next]_vars => HitsInv'
<1> SUFFICES ASSUME TypeOK, HitsInv, [Next]_vars PROVE HitsInv'
  OBVIOUS
<1>1. CASE UNCHANGED vars
  <2>1. hitrate' = hitrate
    BY <1>1 DEF hitrate, PeriodHits, vars, Page, Period, num_periods
  <2>2. IdealPagesLeft' = IdealPagesLeft
    BY <1>1, LeftKept DEF vars
  <2> QED
    BY <1>1, <2>1, <2>2 DEF HitsInv, vars, Page, Period, num_periods
<1> QED
  BY <1>1, HitsStartRun, HitsServe, HitsRetier, HitsHitrate DEF Next

-----------------------------------------------------------------------------
(* The theorems *)

\* The invariant holds throughout every sequence of runs.
THEOREM SimInvariant == Spec => []IInv
<1> QED
  BY InvInit, InvStep, PTL DEF Spec

\* The simulator's variables keep their types: periods stay within loc_ep, and
\* the pages keep different places in lru_list.
THEOREM SimTypeCorrect == Spec => []TypeOK
<1>1. IInv => TypeOK
  BY DEF IInv
<1> QED
  BY <1>1, SimInvariant, PTL

\* Whatever a policy chooses from whatever trace, tier_pages keeps L1 within
\* its capacity: capacity_check never has an error to print.
THEOREM CapacityNeverPassed == Spec => []CapacityKept
<1>1. IInv => CapacityKept
  BY DEF IInv
<1> QED
  BY <1>1, SimInvariant, PTL

\* At any capacity ratio, the migrations the scheduler reports are the page moves
\* there were, and one for each page the tier has gained since the run began.
THEOREM MigrationsCounted == Spec => []MigrationsExact
<1>1. IInv => MigrationsExact
  BY DEF IInv
<1> QED
  BY <1>1, SimInvariant, PTL

\* From the first retier of a run on, what the next update will add to the
\* features is what that run accessed since, whatever runs came before.
THEOREM AddsOwnAccesses == Spec => []EpochCountersSettle
<1>1. IInv => EpochCountersSettle
  BY DEF IInv
<1> QED
  BY <1>1, SimInvariant, PTL

\* What a run reports can be read off its placements: hitrate finds after the run
\* the hits that the requests had when they were served, and the misplaced pages
\* it sums up are those of the periods after the first.
THEOREM ReportIsTrue == Spec => []ReportTrue
<1>1. Init => IInv /\ HitsInv
  BY InvInit, HitsInit
<1>2. IInv /\ HitsInv /\ [Next]_vars => (IInv /\ HitsInv)'
  BY InvStep, HitsStep DEF IInv
<1>3. HitsInv => ReportTrue
  BY DEF HitsInv, ReportTrue
<1> QED
  BY <1>1, <1>2, <1>3, PTL DEF Spec
=============================================================================
