------------------------------ MODULE Tiering -------------------------------
(***************************************************************************)
(* The tiering daemon's epoch loop (daemon/daemon.cpp) and TierManager     *)
(* (daemon/tier_manager.cpp) running against the kernel and a workload.    *)
(*                                                                         *)
(* The kernel knows on which node each page of the workload is (node).     *)
(* The daemon works on a copy (meta) that it refreshes twice per epoch by  *)
(* a move_pages query, and on a count of fast pages (fastCount) taken by   *)
(* the same query.  Between the daemon's system calls the workload maps    *)
(* and unmaps pages, ends, or is waited for by the script that started it, *)
(* so each system call is an action of its own:                            *)
(*                                                                         *)
(*   top --BeginEpoch--> query1 --> decide --> demote --> promote          *)
(*    ^                                                      |             *)
(*    +------------------------- query2 <--------------------+             *)
(***************************************************************************)
EXTENDS Policies

CONSTANTS
    Page,                  \* the workload's pages
    PolicyChoices,         \* the policies the daemon may be started with
    SampleCounts,          \* samples a page may have in one epoch
    COLD_PURGE_THRESHOLD,  \* tier_manager.cpp:130 (50 in the code)
    Faults,                \* what move_pages may do beyond succeeding
    MaxEpochs              \* bound of the model on the epochs run

\* busy: a page cannot be moved and the kernel says so in its status;
\* abort: the call ends early and leaves status entries unwritten;
\* transient: a query finds a mapped page not present (e.g. under migration).
FaultKinds == {"busy", "abort", "transient"}

ASSUME TieringAssumption ==
    /\ IsFiniteSet(Page)
    /\ PolicyChoices \subseteq PolicyNames
    /\ SampleCounts \subseteq Nat \ {0}
    /\ COLD_PURGE_THRESHOLD \in Nat
    /\ Faults \subseteq FaultKinds
    /\ MaxEpochs \in Nat

VARIABLES
    node,             \* kernel: the node of each page, or Absent
    proc,             \* kernel: the workload process
    infoPhase,        \* phase in /tmp/workload_info, or NoFile
    policy,           \* daemon: the policy named on the command line
    keepRunning,      \* daemon: keep_running
    pc,               \* daemon: the next step of main's epoch loop
    meta,             \* daemon: TierManager::pages_meta
    fastCount,        \* daemon: TierManager::fast_tier_count
    plan,             \* daemon: to_promote and to_demote of this epoch
    totalMigrations,  \* daemon: TierManager::total_migrations
    epoch,            \* daemon: epochs begun (bounded by MaxEpochs)
    placed,           \* history: pages the kernel put where migrate_pages asked
    debt,             \* history: victims still fast after they were demoted
    lost,             \* history: fast pages whose metadata a query erased
    unanswered        \* history: pages asked for whose status was never written

kernelVars  == <<node, proc, infoPhase>>
historyVars == <<placed, debt, lost, unanswered>>
vars == <<node, proc, infoPhase, policy, keepRunning, pc, meta, fastCount, plan,
          totalMigrations, epoch, placed, debt, lost, unanswered>>

-----------------------------------------------------------------------------
Absent == -1
NoFile == -2

PageMetadata == [node : {0, SLOW_NODE}, accessed : BOOLEAN, count : Nat, esa : Nat]

\* A page seen for the first time is assumed to be slow.
NewPage == [node |-> SLOW_NODE, accessed |-> FALSE, count |-> 0, esa |-> 0]

NoPlan == [promote |-> {}, demote |-> {}]

Tracked  == DOMAIN meta
Resident == {p \in Page : node[p] # Absent}
Fast     == {p \in Page : node[p] = 0}

\* The variables keep their types: in particular pages_meta never holds a page
\* that the last query reported absent.
TypeOK ==
    /\ node \in [Page -> {Absent, 0, SLOW_NODE}]
    /\ proc \in {"running", "zombie", "reaped"}
    /\ infoPhase \in {0, -1, NoFile}
    /\ policy \in PolicyChoices
    /\ keepRunning \in BOOLEAN
    /\ pc \in {"top", "query1", "decide", "demote", "promote", "query2", "stopped"}
    /\ Tracked \subseteq Page
    /\ meta \in [Tracked -> PageMetadata]
    /\ fastCount \in Nat
    /\ plan \in [promote : SUBSET Page, demote : SUBSET Page]
    /\ totalMigrations \in Nat
    /\ epoch \in Nat
    /\ placed \in Nat /\ debt \in Nat /\ lost \in Nat /\ unanswered \in Nat

\* The scripts bind the workload to the slow node, so that is where its
\* pages are when the daemon starts and where new ones appear.
Init ==
    /\ node \in [Page -> {Absent, SLOW_NODE}]
    /\ proc = "running"
    /\ infoPhase = 0
    /\ policy \in PolicyChoices
    /\ keepRunning = TRUE
    /\ pc = "top"
    /\ meta = [p \in {} |-> NewPage]
    /\ fastCount = 0
    /\ plan = NoPlan
    /\ totalMigrations = 0
    /\ epoch = 0
    /\ placed = 0 /\ debt = 0 /\ lost = 0 /\ unanswered = 0

-----------------------------------------------------------------------------
\* Mutated form: the kill test is missing.
MustStopNoKill == ~keepRunning \/ infoPhase = -1

\* The loop's three exits: the flag cleared by a signal, kill(pid, 0) failing
\* with ESRCH (a zombie still answers it), and phase -1 in the info file.
MustStop == ~keepRunning \/ proc = "reaped" \/ infoPhase = -1

Stop ==
    /\ pc = "top"
    /\ MustStop
    /\ pc' = "stopped"
    /\ UNCHANGED <<kernelVars, policy, keepRunning, meta, fastCount, plan,
                   totalMigrations, epoch, historyVars>>

\* detect_accesses, for a function from the sampled pages to their counts.
DetectAccesses(m, samples) ==
    [p \in DOMAIN m \cup DOMAIN samples |->
        LET old == IF p \in DOMAIN m THEN m[p] ELSE NewPage
        IN  IF p \in DOMAIN samples
            THEN [old EXCEPT !.accessed = TRUE, !.count = @ + samples[p], !.esa = 0]
            ELSE [old EXCEPT !.accessed = FALSE, !.esa = @ + 1]]

\* The sampler reports any pages: a page may have been touched and unmapped,
\* or the workload may have ended, since the last drain of the BPF map.
BeginEpoch ==
    /\ pc = "top"
    /\ ~MustStop
    /\ epoch < MaxEpochs
    /\ \E sampled \in SUBSET Page : \E samples \in [sampled -> SampleCounts] :
           meta' = DetectAccesses(meta, samples)
    /\ pc' = "query1"
    /\ plan' = NoPlan
    /\ epoch' = epoch + 1
    /\ UNCHANGED <<kernelVars, policy, keepRunning, fastCount, totalMigrations,
                   historyVars>>

\* Mutated forms: absent pages are not erased; the purge looks at idleness
\* only and takes fast pages too.
KeptAbsent(status) ==
    {p \in Tracked : status[p] <= 0 \/ meta[p].esa <= COLD_PURGE_THRESHOLD}

KeptUnlessIdle(status) ==
    {p \in Tracked : status[p] >= 0 /\ meta[p].esa <= COLD_PURGE_THRESHOLD}

\* What update_page_nodes makes of a successful query's status array: it
\* erases absent pages and slow pages idle beyond the threshold.
Kept(status) ==
    {p \in Tracked : \/ status[p] = 0
                     \/ status[p] > 0 /\ meta[p].esa <= COLD_PURGE_THRESHOLD}

\* Mutated form: fast_tier_count is not reset before it is counted again.
RefreshAccumulates(status) ==
    /\ meta' = [p \in Kept(status) |-> [meta[p] EXCEPT !.node = status[p]]]
    /\ fastCount' = fastCount + Cardinality({p \in Tracked : status[p] = 0})
    /\ lost' = lost + Cardinality({p \in Tracked \cap Fast : status[p] < 0})

Refresh(status) ==
    /\ meta' = [p \in Kept(status) |-> [meta[p] EXCEPT !.node = status[p]]]
    /\ fastCount' = Cardinality({p \in Tracked : status[p] = 0})
    /\ lost' = lost + Cardinality({p \in Tracked \cap Fast : status[p] < 0})

\* update_page_nodes.  The query fails, and changes nothing, once the
\* workload has no address space any more.
UpdatePageNodes ==
    IF Tracked = {} \/ proc # "running"
    THEN UNCHANGED <<meta, fastCount, lost>>
    ELSE \E missed \in SUBSET (Tracked \cap Resident) :
            /\ "transient" \notin Faults => missed = {}
            /\ Refresh([p \in Tracked |-> IF p \in missed THEN Absent ELSE node[p]])

QueryBeforePolicy ==
    /\ pc = "query1"
    /\ UpdatePageNodes
    /\ pc' = "decide"
    /\ UNCHANGED <<kernelVars, policy, keepRunning, plan, totalMigrations, epoch,
                   placed, debt, unanswered>>

\* The policy ranks pages and fixes both lists before any page is moved.
Decide ==
    /\ pc = "decide"
    /\ plan' \in Plans(policy, meta, fastCount)
    /\ pc' = "demote"
    /\ UNCHANGED <<kernelVars, policy, keepRunning, meta, fastCount, totalMigrations,
                   epoch, historyVars>>

\* move_pages: of `pages`, those in `moved` end on the target node; those in
\* `unwritten` keep the zero their status entry was initialised with.
MovePages(pages, target, moved, unwritten) ==
    IF proc # "running"
    THEN moved = {} /\ unwritten = pages
    ELSE /\ {p \in pages : node[p] = target} \subseteq moved
         /\ moved \subseteq Resident
         /\ "abort" \notin Faults => unwritten = {}
         /\ "busy" \notin Faults => (pages \cap Resident) \ unwritten \subseteq moved

\* Mutated form: every page asked for is counted.
SucceededAll(pages, target, moved, unwritten) == pages

\* The pages migrate_pages counts: those whose status equals the target.
Succeeded(pages, target, moved, unwritten) ==
    {p \in pages : IF p \in unwritten THEN target = 0 ELSE p \in moved}

MigratePages(pages, target) ==
    \E moved \in SUBSET pages, unwritten \in SUBSET pages :
        LET succeeded == Succeeded(pages, target, moved, unwritten)
        IN  /\ MovePages(pages, target, moved, unwritten)
            /\ node' = [p \in Page |-> IF p \in moved THEN target ELSE node[p]]
            /\ meta' = [p \in Tracked |-> IF p \in succeeded
                                          THEN [meta[p] EXCEPT !.node = target]
                                          ELSE meta[p]]
            /\ totalMigrations' = totalMigrations + Cardinality(succeeded)
            /\ placed' = placed + Cardinality(moved)
            /\ unanswered' = unanswered + Cardinality(unwritten)

Demote ==
    /\ pc = "demote"
    /\ MigratePages(plan.demote, SLOW_NODE)
    /\ debt' = debt + Cardinality({p \in plan.demote : node'[p] = 0})
    /\ pc' = "promote"
    /\ UNCHANGED <<proc, infoPhase, policy, keepRunning, fastCount, plan, epoch, lost>>

Promote ==
    /\ pc = "promote"
    /\ MigratePages(plan.promote, 0)
    /\ pc' = "query2"
    /\ UNCHANGED <<proc, infoPhase, policy, keepRunning, fastCount, plan, epoch,
                   debt, lost>>

QueryAfterPolicy ==
    /\ pc = "query2"
    /\ UpdatePageNodes
    /\ pc' = "top"
    /\ UNCHANGED <<kernelVars, policy, keepRunning, plan, totalMigrations, epoch,
                   placed, debt, unanswered>>

Daemon ==
    \/ BeginEpoch \/ QueryBeforePolicy \/ Decide \/ Demote \/ Promote
    \/ QueryAfterPolicy \/ Stop

-----------------------------------------------------------------------------
\* SIGINT or SIGTERM: signal_handler runs between any two steps.
Signal ==
    /\ keepRunning
    /\ keepRunning' = FALSE
    /\ UNCHANGED <<kernelVars, policy, pc, meta, fastCount, plan, totalMigrations,
                   epoch, historyVars>>

daemonVars == <<policy, keepRunning, pc, meta, fastCount, plan, totalMigrations, epoch,
                historyVars>>

\* First touch of a page of the bound workload.
Map(p) ==
    /\ proc = "running"
    /\ node[p] = Absent
    /\ node' = [node EXCEPT ![p] = SLOW_NODE]
    /\ UNCHANGED <<proc, infoPhase, daemonVars>>

Unmap(p) ==
    /\ proc = "running"
    /\ node[p] # Absent
    /\ node' = [node EXCEPT ![p] = Absent]
    /\ UNCHANGED <<proc, infoPhase, daemonVars>>

\* The workload announces phase -1, and then removes the file.
Announce ==
    /\ proc = "running"
    /\ infoPhase' = IF infoPhase = 0 THEN -1 ELSE NoFile
    /\ infoPhase # NoFile
    /\ UNCHANGED <<node, proc, daemonVars>>

Exit ==
    /\ proc = "running"
    /\ proc' = "zombie"
    /\ node' = [p \in Page |-> Absent]
    /\ UNCHANGED <<infoPhase, daemonVars>>

\* The script's `wait` for the workload.
Reap ==
    /\ proc = "zombie"
    /\ proc' = "reaped"
    /\ UNCHANGED <<node, infoPhase, daemonVars>>

Environment ==
    \/ Signal \/ Announce \/ Exit \/ Reap
    \/ \E p \in Page : Map(p) \/ Unmap(p)

Next == Daemon \/ Environment

Spec == Init /\ [][Next]_vars

\* The daemon takes its next step as long as it has one, and the script that
\* started the workload waits for it.  Nothing else is promised: the workload
\* need not end and no signal need come.
Fairness == WF_vars(Daemon) /\ WF_vars(Reap)

FairSpec == Spec /\ Fairness

-----------------------------------------------------------------------------
\* The fast tier never holds more pages than its capacity, except for victims
\* whose demotion failed after the promotions had been fixed (debt) and fast
\* pages the daemon no longer tracks (lost).  policy->execute computes free
\* slots from a count that the workload and the kernel may outdate before the
\* two migrate_pages calls.
CapacityBound == Cardinality(Fast) <= FAST_TIER_CAPACITY + debt + lost

\* update_page_nodes erases metadata of absent and of idle slow pages only; it
\* forgets a fast page (which then takes a slot nobody will ever reclaim) only
\* when a query reports a mapped page as not present.
NoForgottenFastPage == Cardinality(Fast \ Tracked) <= lost

\* When the policy decides, every tracked page that is in the fast tier is
\* believed to be there and fast_tier_count is the number of pages believed to
\* be there, in spite of the failed and partial migrations of earlier epochs
\* and of pages unmapped and mapped again since.
DecisionSeesFastTier ==
    pc = "decide" /\ proc = "running" =>
        /\ Fast \cap Tracked \subseteq FastPages(meta)
        /\ fastCount = Cardinality(FastPages(meta))

\* Both lists of a plan are still sound when they are carried out, whatever
\* the workload did since the policy decided: its pages are tracked (so that
\* pages_meta[pages[i]] inserts nothing), no page is on both, and the
\* promotions fit in what the fast tier has left, before the demotions once
\* the victims are out, and after them in any case.
PlanFits ==
    pc \in {"demote", "promote"} /\ proc = "running" =>
        /\ plan.promote \cup plan.demote \subseteq Tracked
        /\ plan.promote \cap plan.demote = {}
        /\ Cardinality(IF pc = "demote" THEN Fast \ plan.demote ELSE Fast)
               + Cardinality(plan.promote) <= FAST_TIER_CAPACITY + debt + lost

\* The loop of promote_and_demote stops at the first candidate that is not
\* hotter than the coldest fast page, "since list is sorted, no remaining
\* candidates will be hotter either": with LRU and LFU, whenever the cap on
\* promotions is not what ended the loop, no sampled slow page left behind is
\* hotter than any page left in the fast tier.
NoHotterLeftBehind ==
    /\ policy \in {"lru", "lfu"}
    /\ pc = "demote"
    /\ Cardinality(plan.promote) < MAX_PROMOTIONS_PER_EPOCH
    => \A c \in SlowHotPages(meta) \ plan.promote, v \in FastPages(meta) \ plan.demote :
           <<c, v>> \notin IF policy = "lru" THEN LRUHotter(meta) ELSE LFUHotter(meta)

\* total_migrations ("Count only pages that actually succeeded") is wrong by no
\* more than the pages whose status the kernel never wrote, because a call was
\* cut short or the workload was gone: busy and absent pages are never counted,
\* pages already in place are, and a page that no call asked for is never
\* counted in its stead, over all epochs and both directions.
MiscountBound ==
    /\ totalMigrations <= placed + unanswered
    /\ placed <= totalMigrations + unanswered

\* The daemon stops after the workload has ended, which the kill(pid, 0) test
\* of the next epoch sees, and after a signal, whatever step of an epoch either
\* of them meets and however the system calls of that epoch fail.
DaemonStops == proc # "running" \/ ~keepRunning ~> pc = "stopped"

\* The comment "Count only pages that actually succeeded" taken at its word:
\* no migration is ever counted that did not happen.
CountsOnlySucceeded == totalMigrations <= placed

\* The comment "demote first (make room), then promote" taken at its word: the
\* fast tier never exceeds its capacity.
CapacityNeverExceeded == Cardinality(Fast) <= FAST_TIER_CAPACITY

-----------------------------------------------------------------------------
\* At the decision the believed fast pages and the forgotten ones fit together.
CountFits ==
    pc = "decide" /\ proc = "running" =>
        fastCount + Cardinality(Fast \ Tracked) <= FAST_TIER_CAPACITY + debt + lost

\* The early return of update_page_nodes leaves a right count behind.
EmptyCountIsZero == Tracked = {} => fastCount = 0

\* A workload that ended has no pages.
GoneHasNoPages == proc # "running" => Fast = {}

\* The inductive invariant behind CapacityBound: every step preserves it, with
\* any policy, any faults and any number of pages and epochs (TieringProofs).
IInv ==
    /\ TypeOK
    /\ CapacityBound
    /\ NoForgottenFastPage
    /\ DecisionSeesFastTier
    /\ CountFits
    /\ PlanFits
    /\ EmptyCountIsZero
    /\ GoneHasNoPages
=============================================================================
