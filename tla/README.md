# A TLA+ model of the tiering daemon, its loads and its simulator

The repository is a page-placement daemon for machines with a fast (DRAM,
node 0) and a slow (CXL, `SLOW_NODE`) memory tier. Every epoch (100 ms by
default) the daemon drains page samples that a BPF program counts, decides by
one of six policies which pages belong in the fast tier, and moves them with
`move_pages(2)`. Around it are a synthetic workload, the GAP graph kernels as
real workloads, benchmark scripts, a trace-driven simulator of the same
policies, and the scripts that train the logistic-regression weights of the ML
policy.

This directory holds TLA+ modules of these programs, TLC configurations that
check them on small instances, and proofs that hold for every instance.

    tlc -config Tiering_safety.cfg MCTiering   # one run, see "Runs"
    tlapm TieringProofs.tla                    # the proofs

## Inventory

| part | source | state | operations | talks to |
|---|---|---|---|---|
| epoch loop | `daemon/daemon.cpp` | `keep_running`, `info`, `epoch`, `last_phase` | wait for the info file; per epoch: three stop tests, drain, detect, query, decide, migrate, query, report | all the parts below; the workload through `/tmp/workload_info`; the kernel through `kill(pid,0)` |
| TierManager | `daemon/tier_manager.*` | `pages_meta`, `fast_tier_count`, counters of the epoch and totals | `detect_accesses`, `update_page_nodes`, `migrate_pages`, `calculate_misplaced_pages` | kernel (`move_pages` to query and to move), sampler, policies |
| policies | `daemon/policy.*`, `ml_weights.h` | none but the ML policy's detector and thresholds | `execute`: rank, pick victims and candidates, demote, promote | TierManager |
| CUSUM detector | `daemon/cusum.*` | running mean and variance, `S_high`, `S_low`, `epochs_since_detection` | `update`, three margin getters, `set_margins` | ML policy |
| sampler, user side | `daemon/ebpf_sampler.*` | `vma_regions`, `page_samples`, perf and link descriptors | `discover_workload_regions`, `start_recording`, `sample_epoch` (two passes over the BPF map) | BPF map, `/proc/<pid>/maps` |
| sampler, kernel side | `daemon/bpf/mem_sampler.bpf.c` | `page_counts`, a per-CPU hash map of at most `MAX_PAGE_ENTRIES` keys | `sample_mem` on each counter overflow, on every CPU | the user side, concurrently |
| synthetic workload | `workload/workload.cpp` | its pages, the info file | six access phases; announce -1, unmap, unlink | the daemon |
| graph builder | `workload/gapbs/src/builder.h`, `graph.h` | the graph in CSR form; degrees and offsets while it is built | count, prefix sum, copy or overwrite in place, squish, relabel | an OpenMP team; the kernels |
| graph kernels | `workload/gapbs/src/{bfs,cc,cc_sv,bc,sssp,pr,pr_spmv,tc}.cc`, `sliding_queue.h`, `bitmap.h` | result arrays, frontiers, bitmaps, bins, all shared by the team | parallel loops, one after another, with atomics inside | the team; the daemon only by the pages they touch |
| benchmark scripts | `scripts/run_*.sh`, `sweep_*.sh` | system settings (NUMA balancing, THP, perf limits), background jobs | set up, start workload and daemon, wait, signal, restore | workload, daemon |
| simulator | `simulator/sim`, `run_*.py`, `kleio` | for each page its tier in each period, counts per period, features; the LRU list; migrations and misplacements of the run | parse a trace; per policy: init, serve requests, retier between periods, count hits | traces; one run leaves features and misplacements to the next |
| training | `ml/*.py`, `simulator/retrain_coeus.py` | none that outlives a call | label, fit, export the weights | traces |
| reports and plots | `scripts/*.py`, `simulator/parse_results.py` | none | read CSV, print | result files |
| vendored | `workload/stream.c`, `scripts/ycsb_patched.py`, the readers and generators of `workload/gapbs`, `daemon/bpf/mem_sampler.skel.h` (generated) | | | |

**What is hard.** The daemon is a single thread, and still concurrent: it
works on copies (`pages_meta`, `fast_tier_count`) of what the kernel knows, and
between any two of its system calls the workload may map and unmap pages or
end, pages may be busy, a signal may come, and other CPUs add samples to the
map that is being drained. Each of its system calls can succeed in part. It
fixes a whole plan before it moves the first page. Nothing in the repository
tests any of this: the correctness arguments are comments such as "demote first
(make room), then promote", "safe: confirmed slow-tier, never touches
fast_tier_count", "Count only pages that actually succeeded", "since list is
sorted, no remaining candidates will be hotter either".

The scripts, the workload and the daemon are concurrent processes that share a
file without a lock and the kernel's switches without an owner. The graph
kernels are lock-free: threads decide on values that change under them, and
correctness rests on what a compare-and-swap, a barrier or another iteration
makes good.

**What makes each part correct.**

- TierManager: a decision is taken on a count that agrees with the metadata and
  in which every tracked fast page is known to be fast; metadata of a fast page
  is not forgotten; the fast tier stays within its capacity; what is counted
  as migrated was migrated.
- Policies: promotions come from slow pages and victims from fast ones, they fit
  together into the capacity, and the greedy loop, which stops at the first
  losing candidate, does not stop too early.
- CUSUM: the reactive thresholds come into force only at a detected change, for
  the next epoch, and from there move monotonically back to the stable ones; no
  evidence is reported twice.
- Epoch loop: it ends after the workload ended, or a signal came, whatever call
  fails in the epoch under way.
- Sampler: samples are attributed to the page they hit; what one drain delivers
  was counted since the drain before it; a drain ends.
- Simulator: the tier keeps within its capacity; migrations, hits and misplaced
  pages are counted as they happened; a policy's run is not governed by what the
  runs before it left behind; the oracle is an upper bound.
- Scripts and the programs they start: a daemon watches its own workload, samples
  the memory that matters and meets the switches it needs; the series ends.
- Builder: the graph is the one the list names, sorted, without repetitions.
- Kernels: whatever the threads interleave, the answer passes the verifier of the
  kernel, which the code itself applies to single runs only.

## Modules

| module | models | uses |
|---|---|---|
| `Policies` | `policy.cpp`: candidates, comparators, the greedy loop, six policies, as operators on the metadata | |
| `Tiering` | the epoch loop of `daemon.cpp`, `tier_manager.cpp`, the kernel's page table, the workload's life | extends `Policies` |
| `MCTiering` | constants and symmetry for TLC | extends `Tiering` |
| `Cusum` | `cusum.*` as `MLPolicy::execute` drives it | |
| `MCCusum` | the constants of `cusum.h` | extends `Cusum` |
| `Sampler` | the BPF program `sample_mem` on every CPU, against `EbpfSampler::sample_epoch` | |
| `MCSampler` | a small map for TLC | extends `Sampler` |
| `Simulator` | the trace-driven simulator as `run_gauntlet.py` drives it | |
| `MCSimulator` | the sequence of runs for TLC | extends `Simulator` |
| `Session` | the scripts, the synthetic workload, a GAPBS program and the daemon's start and end, over the shared file and the kernel's switches | |
| `MCSession` | the series of runs for TLC | extends `Session` |
| `GapKernel` | what the graph kernels share: graph, team of threads, parallel loops | |
| `Frontier` | sliding queue with thread buffers, bitmap words, distances | extends `GapKernel` |
| `Bfs`, `Brandes` | `bfs.cc`; `bc.cc` | extend `Frontier` |
| `Components` | `cc.cc` and `cc_sv.cc` | extends `GapKernel`; instantiates `Merging` |
| `Merging` | what a components kernel promises: classes are merged along edges | |
| `DeltaStep`, `PageRank` | `sssp.cc`; `pr.cc` and `pr_spmv.cc` | extend `GapKernel` |
| `Kernels` | all kernels: which program is started is chosen first | extends the five kernel modules |
| `MCKernels` | graphs and weights for TLC | extends `Kernels` |
| `GraphBuilder` | `builder.h` and `tc.cc` | |
| `MCBuilder` | edge lists for TLC | extends `GraphBuilder` |
| `FiniteSums` | induction over numbers and finite sets, laws of sums, sizes of sets, the triangles of a relation | |
| `TieringProofs` | every policy honours its contract; the greedy loop leaves nothing hotter behind; types and the inductive invariant of the epoch loop; margins and reports of the detector | extends `Tiering`, `Cusum`, `FiniteSums` |
| `SamplerProofs` | types; what a drain reports and leaves, what an insertion race costs, that no sample is reported twice | extends `Sampler`, `FiniteSums` |
| `SimulatorProofs` | capacity, migration counts, reports and features of the simulator | extends `Simulator`, `FiniteSums` |
| `SessionProofs` | types and safety of any series of runs | extends `Session` |
| `TraversalProofs` | breadth-first search: parents, the queue between two levels, the answer; betweenness centrality: depths, path counts, marked edges | extends `Bfs`, `Brandes`, `FiniteSums` |
| `KernelProofs` | components: pointers, `Merging`, the answer; PageRank: types, the answer; delta-stepping: the bin of a round, the answer, the frontier's places; all kernels together | extends `Kernels`, `TraversalProofs` |
| `BuilderProofs` | sorting, prefix sums, the layout of lists; both ways of building end with the graph of the list; its triangles are counted once | extends `GraphBuilder`, `FiniteSums` |

Definitions named *mutated form* are plausible bugs of the definition that
follows them; no specification uses them. They document what each property would
catch.

### Policies

The metadata is a function from tracked pages to records `[node, accessed,
count, esa]` for `current_node`, `accessed_this_epoch`, `access_count` and
`epochs_since_access`. `last_access_time` is left out: all pages sampled in an
epoch get the same `now`, so ordering by it, latest first, is ordering by
`epochs_since_access`, smallest first.

What a policy may decide is a *set* of plans, since the code leaves some of it
open: `std::sort` is not stable (`SortOrders` is the set of the orders it may
leave), `RandomPolicy` draws, and what the ML and decaying-LFU policies rank by
is real-valued: their scores are *any* assignment of a few levels to pages. A
plan is the pair of sets the two vectors hold; the order within a vector does
not matter to `move_pages`. The greedy loop that `promote_and_demote`,
`MLPolicy` and `HeuristicPolicy` share is `GreedyPlan`: `Direct` promotions
while there are free slots, then `Swaps` until a candidate loses.
`MAX_DEMOTIONS_PER_EPOCH` is read by `RandomPolicy` only, as in the code; the
other policies bound demotions by promotions.

### Tiering

`node`, `proc` and `infoPhase` are the truth outside the daemon: where each page
is, whether the workload runs, is a zombie or has been waited for, and what the
info file says. `policy` is the one the daemon was started with, any of
`PolicyChoices`. `meta` and `fastCount` are the daemon's copies. `pc` is where
the loop stands; one system call is one action, since anything may happen
between two of them:

| action | code |
|---|---|
| `BeginEpoch` | the stop tests, `sample_epoch`, `detect_accesses` (`daemon.cpp:173-200`) |
| `QueryBeforePolicy` | `update_page_nodes` (`daemon.cpp:201`): refresh, purge, recount |
| `Decide` | the ranking of `Policy::execute`, up to the first `migrate_pages` |
| `Demote`, `Promote` | the two `migrate_pages` calls, with their accounting |
| `QueryAfterPolicy` | `update_page_nodes` (`daemon.cpp:243`), end of the epoch |
| `Stop` | the loop's three exits |
| `Signal` | `signal_handler` |
| `Map`, `Unmap` | the workload touches and unmaps pages; bound by `numactl --membind`, new pages are slow |
| `Announce`, `Exit`, `Reap` | phase -1, `unlink`, exit, the script's `wait` |

`move_pages` is external and modelled from how the code calls it and reads the
status array: a query fails as a whole once the process has no address space; a
page may be unmovable (`busy`), a call may end early and leave entries of the
zero-initialised status array unwritten (`abort`), and a query may miss a
mapped page (`transient`). Each kind of fault is switched on by the constant
`Faults`.

Four history variables relate the daemon's view to the truth: `placed` (pages
the kernel really put where it was asked), `debt` (victims that stayed fast),
`lost` (fast pages erased from the metadata) and `unanswered` (pages of a
`move_pages` call whose status entry the kernel never wrote). They are read by
properties only.

Left out: the report's latency estimates, `epoch_hits`, `hot_ratio`, `aci` and
the other features (they feed the ML score, which is arbitrary here, and the
report), `calculate_misplaced_pages` (report only) and the trace file. The wait for the
info file before the loop is in `Session`.

### Cusum

Welford's mean and variance are abstracted to what the sums see of them: any
deviation and any half-sigma, or none (`sigma < 1e-10`). Margins are integers in
units of 1/15000, so the interpolation is exact. `Execute` is one
`MLPolicy::execute`: read the three margins, then `update`.

`stable` holds the stable margins, which `set_margins` takes from the command line
before the first epoch: any of `StableChoices`. Nothing makes them stricter than the
reactive ones, and the README's tuned `ABS_THRESHOLD=0.30` is looser than the fixed
reactive 0.587, so no property says that a change point loosens anything:
`MarginsFollowDetections` says that it brings the reactive margins into force, for
the next epoch, and that from there each margin moves towards its stable value
whichever way that is. The README's own words are `ReactsAsDocumented`, which is
violated.

The code does not clamp an observation, and neither does the model. One
above slack and threshold together (4.5 sigma, the history variable `outlier`) is a
report by itself, also in the epoch after a report. `ReportedOnce` says that there is
no other way to have two in a row, so that evidence once reported is not used again.

### Sampler

`entry` and `count` are the BPF map: which page's entry an element of the
preallocated per-CPU hash map holds, and each CPU's count in it. `handler[c]` is
what CPU `c`'s run of `sample_mem` knows between two of its map operations;
`pc`, `ahead`, `keys`, `key`, `page_samples` are the drain's.

| action | code |
|---|---|
| `Lookup`, `Add`, `Insert` | `sample_mem`: `bpf_map_lookup_elem`; the add through the pointer; `bpf_map_update_elem` with `BPF_NOEXIST`, whose result is ignored |
| `StartDrain`, `CollectKey`, `EndCollect` | `sample_epoch`, pass 1: `bpf_map_get_next_key` until it finds none |
| `ReadKey`, `DeleteKey`, `EndDrain` | pass 2, per key: look up and sum over the CPUs, keep or drop the page, delete |

Each map operation is atomic, as the kernel guarantees; everything between two of
them interleaves. An element is freed by the delete at once, also under a handler
that holds a pointer to it, and may by then be the entry of another page: `Add`
adds to whatever is there. Pass 1 goes through the hash buckets in an
order the code does not know, so an entry inserted meanwhile is met or not.
`outstanding`, `inserted`, `due` and `losers` are history variables for the
properties; `due` and `inserted` start anew with each drain, `losers[p]` with each
insertion of `p`.

Left out: the debug counters; other errors of the insertion (`-EBUSY`, memory),
which drop the sample as a full map does. `WorkloadPage` is what
`discover_workload_regions` found at the start; that step is in `Session`.

### Simulator

The simulator has one thread; what is hard is its arithmetic of periods and what
several runs do to the same pages. `trace` is chosen once: any sequence of
requests to pages numbered in the order in which they first occur. `Runs` is the
sequence of policies; `step` says whether the driver is about to `init` the next
run or the scheduler runs.

| action | code |
|---|---|
| `StartRun` | `Scheduler.init` with `init_cnts`, `init_tier`; for a hybrid run `init_hybrid`, as `page_selector.py` calls it |
| `Serve` | one request of `Scheduler.run`: `increase_cnt`, `epoch_access_count`, `update_lru` |
| `Retier` | `retier`: `update_ml_features`, `update_tier`, the policy's hot pages, `get_l1_lru_pages`, `tier_pages`, `compute_misplacements` |
| `Hitrate` | `hitrate` after the last request |

`loc_ep[ep]` is the set of pages whose `loc_ep[ep]` is 0 in the code, which is
every page for a period that has not begun. Places in `lru_list` are numbers
that grow with each use. As in `Policies`, orders the code leaves open
(`argsort` of equal counts) are sets of choices, and the smoothed frequency and
the ML score are any levels; a smoothed frequency is positive once the page was
accessed. The page selector gives the oracle *some* of the pages the run before
misplaced; its ranking by benefit is left open. All runs have one period length;
in the code the Kleio runs have 100 requests a period.

`init_cnts` resets counts and tiers but no feature: `access_count` and
`epoch_access_count` carry over, and `epoch_access_count` is reset by the
policies `ml`, `lfu`, `decaying_lfu` only. So the first retier of `lfu`, the
fourth run, adds to the features what `history`, `oracle` and `lru` accessed, and
`access_count` keeps it for the rest of the gauntlet: what LFU ranks by is not its
own run's accesses. `EpochCountersSettle` says no more than that what is *added* is
right from the first retier of a run on.

`moved` and `served` are history variables: what really moved and hit, counted
when it happened. `init_tier` fills L1 with even pages only, so at capacity ratios
above one half (`run_gauntlet.py` sweeps 0.8) L1 starts part empty. Until it is full,
fewer pages leave than come, and `num_migr`, twice the pages that come, counts
demotions that do not happen. `MigrationsExact` says by how much: `num_migr` exceeds
the moves by exactly the pages L1 has gained since the run began, and by nothing when
it started full. `total_misplaced_epochs` is counted by `retier`, that is for every
period but the first; the part of `ReportTrue` about it says that it is what the
placements of those periods, as the run leaves them, keep out of their ideal sets.

Left out: features that only the ML score reads, patterns and reuse histograms,
a scheduler without periods (`num_reqs_per_ep` 0), and `perf_model.py`, which
computes times from the counts of a finished run.

### Session

The scripts start workloads and daemons one after the other; `Plan` is the
sequence of runs, each `synthetic` (`run_daemon_baseline`), `autonuma` (the
kernel's own tiering) or `gapbs` (`run_gapbs.sh`). `wl[r]` and `dm[r]` are the
workload and the daemon of run `r`, whose number stands for the workload's pid;
`info` is `/tmp/workload_info`; `balancing` and `hugePages` are the switches of
the kernel.

| actions | code |
|---|---|
| `Map`, `OpenInfo`, `WriteInfo`, `RunPhase`, `Unmap`, `Unlink` | `workload.cpp`: mmap, the two halves of `update_shared_info`, a phase, the end |
| `GapbsBuild`, `GapbsSquish`, `PrintStats`, `GapbsTrial`, `EndTrial` | what `MakeGraph` and `BenchmarkKernel` map and print, and when the line is in the log |
| `AwaitWorkload`, `DiscoverRegions`, `StartRecording`, `BalancingOff`, `CheckAlive`, `ReadPhase`, `BalancingOn` | `main` of the daemon, from its signal handlers to its end; the epochs themselves are `Tiering`'s |
| `Cleanup` ... `EndRun` | a run of the script, from `cleanup` over the waits for workload and daemon to the restored switches |
| `TasksetFails` | `taskset -pc`, the one command between start and `wait` that may fail and is not followed by `\|\| true`: with the workload gone it ends the run by `set -e` |
| `InterruptWait`, `InterruptSleep`, `Abort` | a signal to the script: in either `wait` the trap runs and the script goes on as if the process had ended; in a `sleep` it goes on too, if the signal reached the script alone; a command that the signal cuts short ends it, and a script started anew does the rest of `Plan` |

The log of a GAPBS program is a file, so its standard output is buffered in
blocks: "Build Time" is printed before `SquishGraph` allocates the graph the
trials use, but gets into the file with the `endl` of `PrintStats`, after it.
`RegionsDiscovered` rests on that.

Assumed: a daemon that was told to stop has done so within the `sleep 2` of
`cleanup` (an epoch takes less); pids are not reused; the script is not killed by
SIGKILL, and a daemon gets no signal in the few instructions before its handlers
are set. Whether a signal that reaches the script also reaches a daemon started
through `sudo` is left open.

### GapKernel, Frontier and the kernels

A kernel is a sequence of parallel loops. `todo` holds the iterations no thread
has taken, `thread[t]` what thread `t` knows inside its own; a loop ends when all
are done (`TeamDone`), and with `nowait` when all have joined the next barrier.
Which thread takes which iteration in what order is left open, which is more than
any `schedule` clause allows. Every access to a shared location that another
thread may write in the same loop is a step of its own; a compare-and-swap, a
`fetch_and_add` and an `omp atomic` are one step each. What the compiler may
merge (two reads of one location) is a special case of what is interleaved.

| module | steps | left open or left out |
|---|---|---|
| `Frontier` | `BufferPush`, `Reserve`, `CopyOut`, `LastFlush`: `QueueBuffer::push_back` and `flush` | `BufferSize` 1 in place of 16384, words of 3 bits |
| `Bfs` | `TDStep`, `QueueToBitmap`, `BUStep`, `BitmapToQueue` and the tests of `DOBFS` between them | |
| `Components` | `Link` access by access, `Compress`, sampling rounds of Afforest; hook and shortcut loops of Shiloach-Vishkin | the label skipped is that of any vertex, as the code samples at random |
| `Brandes` | `PBFS` per edge: read and claim the depth, test it, set the bit, add the paths; then the walk back | floats are exact, in units of 1/`Scale` |
| `DeltaStep` | `RelaxEdges` access by access, bucket fusion, vote, the two barriers, the `single nowait`, claim and copy of the places | a copy that does not fit into the frontier (`Overrun`) ends the run, see below |
| `PageRank` | a pull per incoming edge, the store, the reduction | scores are integers, rounded down |

`SourcePicker` is the choice of any vertex with outgoing edges; a source given
with `-r` that has none is not modelled.

The frontier of `sssp.cc` has `g.num_edges_directed()` places. A copy for which that
is too few is undefined behaviour, which `Overrun` shows as a step of its own after
which nothing is computed: `BinsInOrder` and `AnswersVerify` say what holds of an
execution in which no such copy happened, and `FrontierSuffices` that with the
default delta of 1 none does. With larger ones it can (see "Observed").

`Merging` is the abstract specification of a components kernel: classes of a
partition are merged along an edge, and the kernel may return only when no edge
joins two classes. `UnitesTrees` is the refinement: Afforest, with the trees of
`comp` for the classes, implements it, so that each compare-and-swap that
succeeds joins exactly two trees and no compression takes one apart. For
Shiloach-Vishkin this does not hold, as its plain stores undo hooks of other
threads; that its answer is right all the same is part of `AnswersVerify`.

`Kernels` puts the programs side by side: which one is started is the first
choice, and from then on only its variables change. `AnswersVerify` has a conjunct
for each verifier of the benchmark but that of `bc.cc`, which is `ScoresExact`.
`GapKernel` assumes of a graph that no list names a neighbour twice, as
`SquishGraph` leaves it.

Scores of PageRank are integers, rounded down where the code's floats are rounded
to the nearest. What is rounded off is at most one unit per edge, which is why
`ToleranceVerifies` grants the verifier `Rounding`, the number of edges, beyond
the tolerance.

### GraphBuilder

`MakeCSR` begins a pass: degrees and prefix sums are pure operators
(`CountDegrees`, `ParallelPrefixSum`), since their loops share nothing but atomic
increments. In the copy loop threads claim places (`ClaimPlace`) and fill them
(`Store`) in any order. `SquishGraph` follows. The in-place builder is sequential:
each of its loops is an action whose effect is a recursive function of the number
of rounds done (`Overwritten`, `Spreading`, `Adding`, `Inverted`), on an array in
which what was overwritten is overwritten. `ReallocFails` is the exit with -33
when `realloc` returns no memory, which it always does for a list of nothing but
self loops: after squishing it has no entry, the new size is 0, and the C library
frees the array and returns a null pointer. `built` is reached otherwise only.
`BinarySearch` halves a range as the library does, so that it may miss what is
there when the range is not sorted. `Sorted` and `Kept` are `std::sort` and what
`std::unique` and `std::remove` leave, by ranks and places: the prover cannot look
into the recursive operators of the community modules. `Hybrid` is `tc.cc`.
`WorthRelabelling` is left open; in the code an average degree below 10 rules
relabelling out, so that a graph of the model's size would never be relabelled.

## Runs

All sizes are small because a plan is about three pages at a time: one that is
fast, one that could replace it, one more that competes. With a capacity of 1
and three pages, the fast tier fills, overflows, swaps, loses its page, and
pages are purged and found again, within two or three epochs.
`COLD_PURGE_THRESHOLD` is 0 or 1 in place of 50 and `HOT_EPOCHS` 0 in place of
5, so that purge and cooling happen within those epochs; both are parameters of
the proofs. Pages of `Tiering` are symmetric in its safety runs, and not in the
liveness run. In `sampler`, three pages and two elements make the map full, two
CPUs race for an insertion, and one sample of each CPU per entry is enough for a
handler to add to an entry that was read, freed, or given to another page.
In `sim`, four of six pages fit into the tier and `init_tier` finds three even ones,
so that it starts part empty as it does at the ratio 0.8, and fills up or not
as the policies want; eight requests make two full periods and one cut short. Every
trace of that size is replayed under all ten runs. In `sim_oracle` two of four pages
fit, and nine requests make three full periods and one that is empty, as it is in the
code when the trace ends with a period. `Bin` is 1 in place of 20, for counts of up to
3 to differ.

In `cusum_margins` the half-sigmas are 1 and 2, or none, and deviations reach ten
sigma of the larger, so that outliers beyond 4.5 sigma come about, one
after the other too; the stable margins are the defaults or the tuned ones.

In `kernels`, which kernel is started is the first choice, and each gets the
graphs that have its hard cases: hooks that meet at one vertex, deep trees, edges
only the incoming lists show to the lower end; two ways to a vertex of the second
level, and a frontier of two vertices in one bitmap word that lead to different
ones; a direct edge longer than the way round. The four values of alpha make
searches go bottom-up at once, after a level, after two, and again after a return.
Delta 1 is the default and 3 makes bins of several distances. With 8, on the graph
`Pile` made for it, copies run past the frontier under some schedules, and
`FrontierSuffices` must not claim otherwise. `FuseLimit` 2 lets bins be fused or
go to the frontier. Two threads, because every race of these kernels is one
between a pair: one reads, the other writes, the first acts. In `builder` all
lists of one or two edges, and all sets of four and five edges between four
vertices for the in-place builder, whose searches over unsorted lists need
several missing inverses at one vertex. In `session`, five runs put a daemon after
each kind of run; up to two signals may come.

`CHECK_DEADLOCK FALSE` where the system really stops: the daemon, the driver of
the simulator, a kernel that has returned, the script. `builder` checks for
deadlock.

| run | asks | bounds |
|---|---|---|
| `tiering_safety` | types; is a decision informed; do LRU and LFU leave no hotter page behind; how far can the count of migrations be off; capacity bound, no forgotten fast page, plans | all six policies, 3 pages, capacity 1, 2 epochs, every fault, 3 score levels, tolerance 1, either margin |
| `tiering_live` | the daemon stops after the workload's end and after a signal | 2 pages, 2 epochs, busy pages and aborted calls |
| `cusum_margins` | the reactive margins come at a change point, for the next epoch, and approach the stable ones between; evidence is reported once | the constants of `cusum.h`, default and tuned stable margins, deviations up to 20 half-sigmas |
| `sampler` | types, no sample reported twice, no page overlooked, nothing left to grow old, the price of the insertion race, the drain's end | 2 CPUs, 3 pages of which one is outside the regions, 2 elements, `MaxCount` 1 |
| `sim` | types, capacity, by how much migrations are overstated, hits and misplaced pages of the report against the placements, counters across runs | 6 pages, 4 in L1 and 3 at the start, 8 requests in periods of 3, all traces, 10 runs, 3 score levels |
| `kernels` | does every kernel return, with an answer its verifier accepts; what each parallel loop relies on: forests, frontiers, path counts, bins; Afforest implements `Merging`; does the frontier of delta-stepping suffice | 6 vertices, 2 threads, 10 graphs |
| `builder` | is a graph that is built the one the list names, in both builders; are triangles counted once, without leaving a list | 3 or 4 vertices, 2 threads |
| `session` | a daemon watches its own workload and samples its memory; switches; phases in order; the series ends | 5 runs, 6 phases, 2 signals, 1 CPU |
| `tiering_phantom` | **violated**: only migrations that happened are counted | |
| `tiering_overfull` | **violated**: demoting first makes room | |
| `cusum_reaction` | **violated**: a change point loosens the thresholds, for five epochs | as `cusum_margins` |
| `sim_oracle` | **violated**: the oracle places the hottest pages | 4 pages, 2 in L1, 9 requests in periods of 3, the same runs |

**Fairness** (`FairSpec`). In `Sampler`, `WF(sample_epoch)` only: the drain goes
on, samples need not come and a handler may stay where it is for good. In
`Tiering`, `WF(Daemon)`: the loop has no wait other than a bounded `usleep` and
its calls return; and `WF(Reap)`: the scripts `wait` for the workload
(`run_baselines.sh:71`). This one is needed: `kill(pid, 0)` succeeds on a
zombie, so without a parent that waits the daemon runs on unless the workload
announced -1 and the daemon read it before the file was removed. Nothing is
assumed of the workload or of signals. `MaxEpochs` bounds the epochs
begun, never the stop, so it cannot turn a run that would go on into one that
stops. In the kernels, weak fairness of the whole team: some thread goes on. That
is less than OpenMP gives, and the kernels return all the same, since no thread
spins on another. In `Session`, weak fairness of the script, of each workload and
of each daemon, which are processes the kernel schedules; and strong fairness of
the exit of a GAPBS program among its trials, since `-n` is finite. Nothing is
assumed of signals or failures.

### What the violated runs show

- `tiering_phantom`: `migrate_pages` zero-initialises the status vector, and 0
  is also the fast node. If the workload ends between decision and promotion,
  `move_pages` writes nothing and every planned promotion is counted, in
  `current_node`, `migration_history`, `total_migrations`, `epoch_promotions`.
- `tiering_overfull`: a victim that cannot be moved stays, its replacement is
  promoted all the same. `CapacityBound` says by how much the capacity can
  be exceeded: by the victims that stayed and the fast pages that were forgotten,
  and by no more.
- `cusum_reaction`: the reactive margins are constants. With the tuned stable
  threshold 0.30 a change point raises the threshold to 0.587, so that pages which
  scored between the two could be swapped in before the change and cannot
  after it, where the README has "thresholds are loosened" (`README.md:162`). The
  property's second part fails as well, with any margins: the reactive ones
  are read in `REACT_EPOCHS + 1` epochs, six for the README's five, and the transition
  takes fifteen for its twenty (`README.md:163`).
- `sim_oracle`: victims are the least recently used pages of L1 for every policy,
  the oracle included. In the trace TLC finds, page 1 is promoted into {0, 2} for
  a period in which page 2 will be the hotter one, and page 2 is evicted for it.
  The oracle is therefore not an upper bound on the hit ratio.

### Observed while modelling, and not a run

- "Misplaced (%)" is said to be "across all epochs" (`README.md:177`), and
  `parse_results.py:48-52` divides by all periods. But `compute_misplacements` is called
  by `retier` only: the first period, whose placement no policy chose, is in the
  divisor and not in the count, and so is the empty period that `num_periods` adds to
  a trace that ends with one. The rate reported is too low by that, most for few
  periods. Nor is it a fraction of *slots* while the tier is part empty. `ReportTrue`
  states what is counted, not what the README says.
- "Total Migrations" (`README.md:179`) is overstated at capacity ratios above one
  half, by the bound of `MigrationsExact`.
- A list of nothing but self loops, read with `-s -m`, ends the program with -33
  (`builder.h:255-259`), while without `-m` it makes a graph of isolated vertices.
- `get_l2_hot_pages_lru` asks for as many pages of L2 as fit into L1, used or
  not, and as many pages of L1 leave: the simulator's LRU exchanges the whole
  tier every period.
- The frontier of `sssp.cc` has as many places as the graph has edges, and may
  need more when delta exceeds 1, as a vertex that improves twice within a bin
  is in it twice. (From a source, vertex 1 at distance 9 and vertex 2 at distance
  1; from 2 to 1 with weight 1; from 1 four edges of weight 20: with `-d 10` the
  bin of the four has eight entries, for seven places.) With the default delta a
  vertex enters a bin once, and `FrontierSuffices` holds. No document of the
  repository says that other deltas are safe, so this is no finding; the run
  `kernels` reaches such copies with delta 8.
- `epoch_hits` uses the nodes of the query of the epoch before
  (`tier_manager.cpp:60`), and `range()` ends below the largest count
  (`scheduler.py:45`), so that pages with at most 20 accesses a period are
  invisible to history, oracle and hybrid: the first is read by the report only,
  the second is modelled (`BinnedCount`).
- `start_recording` goes on with the CPUs on which the event opened, and
  `SourcePicker` draws for ever on a graph without edges; nothing in the code
  depends on the one, and the models have no graph of the other kind.
- A signal does not end the script unless a command is cut short by it: in `wait`,
  and in a `sleep` that did not get the signal, the trap kills the jobs of the current
  baseline and the next one starts. In the wait for the daemon this lets the script
  restore the kernel's switches while the daemon is in its last epoch.

## Proofs

`FiniteSums` holds what the other proofs need of finite sets: induction over the
naturals and over the subsets of a finite set, both for a set given by the
members it has (the prover cannot instantiate an operator, but a set of numbers
can be a hypothesis), and the laws of `SumFunctionOnSet` that follow: a sum is
changed by what changes, is zero over zeros, and is exchanged with another. Its
last section counts: sets with a bijection between them have one size, a set of
pairs is as large as its rows together (`CountInRows`), the corners of a symmetric
relation's triangles are six times those in falling order (`SixTimes`), and as
many when the elements are renumbered (`RenamedTriangles`).

`TieringProofs` first proves, from `PoliciesAssumption` alone, that every plan of
every policy honours a contract (`PlansHonourContract`): promotions are tracked
pages that are not fast, victims are fast pages, and there are no more promotions
than free slots and victims together. The one fact about sorting it needs is that
a sort keeps the elements; the comparator may be anything, which is why decaying
LFU's is no obstacle. `GreedyLeavesNoHotter` is about the loop of
`promote_and_demote` and needs more: if the comparator is a strict weak order
(which decaying LFU's is not), a sorted list is sorted at any distance
(`SortedAtAnyDistance`, by induction), the pairs the loop swaps are a prefix
(`DownwardClosed`), and the pair it stopped at bounds all that stay behind.

It then proves, from `TieringAssumption` and that contract,
`TypeCorrect` and the invariant `IInv`. `CapacityBound` is not inductive: whether
two promotions fit depends on what the policy believed a few calls earlier. `IInv`
adds the chain that carries the belief along:

1. `DecisionSeesFastTier` and `CountFits`: after a query that succeeded,
   `fastCount` is the number of pages believed fast, all tracked fast pages are
   among them, and with the forgotten ones they are within the budget
   `FAST_TIER_CAPACITY + debt + lost`. `EmptyCountIsZero` covers the early
   return when nothing is tracked.
2. By the contract, the plan then fits (`PlanFits`) once its victims are out. In
   the meantime the workload can only shrink the fast tier (`ShrinkStep`): new
   pages are slow.
3. `Demote` moves the victims out of the count, each one that stays adds one to
   `debt`, so what is left and the promotions fit. `Promote` then cannot exceed
   the budget.
4. `NoForgottenFastPage` keeps pages that are fast and not tracked within `lost`
   through purges. `GoneHasNoPages`: once the workload has ended there is
   nothing to bound, so failed queries do no harm.

`CapacityHolds`, `FastPagesTracked`, `DecisionsInformed` and `PlansFit` are the
parts of `IInv` a reader asks for. `NothingHotterLeft` follows from
`GreedyLeavesNoHotter`, as LRU's and LFU's comparators are strict weak orders on
any metadata (`HotterIsWeakOrder`), and `AccountingHolds` from one call of
`move_pages` at a time: what is counted and what was placed differ by no more than
the entries of that call the kernel did not write (`CallMiscount`).

`SamplerProofs` proves, from `SamplerAssumption`, for any number of CPUs, pages
and elements and without `MaxCount` playing a part, the invariant `IInv` and from it
`ReportComplete`, `LeftoverIsNew` and `RaceLossBound`. Two chains carry it:

1. `DrainProgress`: the entries the drain has yet to delete (`Pending`) are in
   the map, and all others in the map were inserted since it began. Only the
   drain deletes, and it deletes after the iteration, so an entry cannot vanish
   under it. An inserted entry has a sample from the start, so a page that was
   due is read with a positive total.
2. `RacersBound`: for a page in the map, the samples already lost to its
   insertion and the handlers that will still lose are of different CPUs, none of
   them the one that inserted it. A handler that looks the page up now finds it.

`NoSampleTwice` is about a sum over all elements of the map, `CountInv`: samples
taken and neither read nor lost are what the map holds, less what the drain has
read of it, and what the busy handlers are about to add. One step changes one
element or one handler, so the laws of sums settle each. `TypeCorrect` is the
type invariant, with the bound on the size of the map.

`SimulatorProofs` proves, from `SimulatorAssumption`, for any trace, capacity and
sequence of policies, the invariant `IInv` of `Simulator`. Every policy asks for
pages of L2 only (`HotIsSlow`), so those moved in and those moved out are disjoint
(`MoveCounts`), and as many leave as come, or all there are (`MoveBounds`):
`CapacityKept` follows. Where all leave and more come, the tier grows by the
difference, which is what `num_migr` counts too much; `MigrationsExact` carries that
difference along. `EpochCountersSettle` needs `InStep`: when a period begins none
of its requests has been served, so counters that are reset then agree with
what the period has seen. `ReportIsTrue` is about `hitrate`, a sum over periods and
pages computed after the run, and about the misplacements, added up during it.
`HitsInv` says that what `hitrate` would find at any moment of the run is what has
been served so far, as a retier changes the placement of no period that has begun;
for the same reason the sum over the periods begun (`IdealPagesLeft`) changes by
what the retier adds, and by nothing else.

`KernelProofs` proves of the components kernels, for any graph, number of threads
and number of sampling rounds, that both keep their types (`CcTypeCorrect`) and that
a vertex points to a vertex of its own component and never to a higher one
(`PointersWithin`). The strengthening is about what the threads hold: every
label a thread has read, and will hook or shorten by, is connected to the vertex
it works for, whatever was overwritten since (`PointsWithin` is about memory
only, and a store of a stale value would break it if the value could be of
another component).

`AfforestUnites` is the refinement of `Merging` by Afforest, `CcSpec => UnitesTrees`,
step by step, from `CcInv` and a second invariant, `TreeInv` (in `Components`):

1. Roots. `Root` is a recursive function over pointers that never lead upwards;
   that there is one and only one (`RootExists`, `RootUnique`) is an induction over
   the vertices, and what a store does to it is proved of any such map:
   `RootHooked` (a root put below another vertex moves its whole tree),
   `RootShortened` (a pointer moved to a lower vertex of its tree moves nothing).
2. Threads. One of the two pointers a linking thread holds is in the tree of each
   end of its edge (`LinksEnds`), however stale they are, because trees only grow
   (`Grows`); so the compare-and-swap that wins joins the trees of that edge, and
   a thread may leave an edge only when its ends are in one tree. A thread that
   shortens holds a lower vertex of the same tree (`ShortensWithin`).
3. Progress. The neighbours the present loop owes a vertex are linked or on some
   thread's list (`Working`, `Settled`); after a loop all are. With the rounds behind
   it every vertex has its first `NeighborRounds` neighbours in its tree.
4. `EdgesWithinTrees`: at the end each edge lies within a tree. An edge Afforest
   never looked at is between two vertices of the skipped component, or the end
   that was not skipped looked at it, from the incoming lists if the graph is
   directed and from the same lists if it is not.

`ComponentsLabelled` adds that the labels returned pass `CCVerifier`, from `LabelInv`.
`FlatInv`: in a loop that shortens, each vertex is still to be taken, with a thread,
or at depth 1; a root found by one thread stays a root, since nobody hooks in that
loop. For Afforest the rest is `TreeInv`. Shiloach-Vishkin has no trees that only
grow, and needs `PassInv`: as long as a pass has not set `change` nothing has moved,
so every label a thread read is still there, and each vertex whose list it is
through agrees with its neighbours. The pass that ends with `change` false has
then looked at every edge.

`TolerancesVerify` is about PageRank, for any graph, team, damping and chunk. What
is returned was computed from contributions of two iterations, mixed as threads
got on (`Mixed`); `Computed` says of each vertex that *some* mixture of its
in-neighbours' old and new scores gives its score. The verifier computes from new
scores only. The difference is at most what the old and new scores differ by,
damped, and is counted once per edge; summed by source instead of by target
(`SumExchange`) it is at most the `error` that was below the tolerance. That no two
threads compute one vertex (`Apportioned`) makes `error` that sum.

`TraversalProofs` proves, for any graph, team, buffer size, width of a word, `alpha`
and `beta`, and any chunk of whole words, what `Bfs` promises at every moment
(`ParentsCorrect`), between two levels (`FrontierCorrect`) and at the end
(`SearchVerifies`). Its invariant `BfsInv` says where in level `k` the search is,
with `A` the vertices up to that level, `L` the level (`AtDepth`) and `B` what is
to be visited when it is done:

1. Levels. `Within` is a recursive function; that it is the sets of vertices within
   `k` steps, that they grow, and that after `N` of them nothing is left to reach
   (`WithinLevels`, `WithinGrows`, `WithinEnds`) is proved by induction on the
   number of steps. `RingFacts` is all the rest needs: a neighbour of `A` is in
   `B`, and a neighbour of `A` that is outside `A` is a neighbour of `L`.
2. The queue (`QueueOK`). `f` gives for each place of the shared array what it
   holds or, where a thread has reserved places and not copied its buffer yet,
   what it will hold. `f` is injective, so the queue cannot outgrow the graph
   (`QueueFits`); what threads hold that has no place yet (`Loose`) is disjoint
   from it and from what other threads hold; and together with what is ahead of the
   window it is exactly what was pushed in this level. One lemma for each operation
   of the queue says what it does to this: `PushedQueue`, `ReservedQueue`,
   `CopiedQueue`, `LastFlushQueue`, `SlidQueue`.
3. Top-down (`DownInv`). What is visited lies between `A` and `B`, and each vertex of
   `L` is still to be taken, has all its neighbours visited, or is with a thread
   that has the others on its list (`Covered`). A thread about to swap holds a
   negative value: if the vertex still has it, it is not visited, so `u`, which is
   in `L`, is one level up.
4. Bottom-up (`ToBitmapInv`, `UpInv`, `ToQueueInv`). `front` holds the level and perhaps
   bits of earlier levels, which nothing clears. They do no harm: `front` is within
   `A`, and an unvisited vertex has no neighbour in `A` outside `L`. `next.set_bit`
   is not atomic; no bit is lost because threads work on different chunks, and
   chunks are whole words (`WordsApart`, the reason for the assumption on
   `ChunkSize`). After the last bottom-up level `front` is exactly the level, since
   each step clears the bitmap it fills.
5. The end (`DoneInv`). An empty window is an empty level, so `A` is all there is.

The same module proves of `Brandes`, for any number of sources, that the search
from each leaves the true depths, the number of shortest paths, a bit of `succ`
for exactly the edges that go one level down, and the levels as ranges of the queue
(`PathsAreCounted`). Its queue is that of the
search, and so are levels, `QueueOK` and their lemmas. In addition `PosOK` says how
far each vertex of the level has got along its list, and that no other thread is
at the same vertex; a count is then, at every moment, the sum of the counts of
those already passed (`PathCounts`, `Counted`), whatever the order in which the
threads add. `PathBits` allows for the one bit that is set before its path is added.
That the numbers of shortest paths are what the recursion over levels says
(`IsPaths`) is an induction on the level, of which the function is a fixed point.

`KernelProofs` proves of `DeltaStep`, for any graph, team, weights, `delta` and size
up to which a bin is fused, that a round begins with every distance below its bin
final (`BinsHold`) and that the answer passes `SSSPVerifier` (`DistancesCorrect`).
Both are about executions in which no thread copies past the frontier: after
`Overrun` there is no round and no answer. `FrontierHolds` says that with delta 1,
the default, this excludes nothing. The invariant `SsspInv` has a form for each half
of a round, and one for the end by `Overrun`, and rests on this:

1. True distances. `Nearest` is a recursive function of rounds over all edges. That
   `N` rounds reach a fixed point (`NearestRounds`, `NearestIsNearest`) is an
   induction over how many vertices are nearer (`NearerVertices`). No `dist` is
   ever less than the true one, and `BelowIsTrue` is the other half: if every
   vertex below `c` is relaxed, then every distance below `c` is the true one.
2. No vertex is forgotten (`RelaxInv`). Each vertex is relaxed (no edge out of it
   improves anything), or waits in a bin at its distance, or in a place of the
   frontier that is still to be taken, or is with a thread that will see to its
   edges (`SeesTo`). A thread sees to the edges of a vertex only while what it is
   about to store is made of the vertex's present distance. If another thread has
   lowered that distance meanwhile, it has put the vertex into a bin of its own
   (`Lowered`), and the stale store can do no harm, being too large.
3. Nothing goes back. What a thread is relaxing is at or above the lower edge of
   the present bin, and so is all it stores: weights are positive. So no vertex
   enters a bin that is behind, and lists that were taken before still have
   only such vertices (`ListOK`, `RelaxKept`).
4. The change of bins (`FillInv`). The bin voted for is no later than the least that
   is not empty, whether a thread voted before or after others were done. The
   places threads have claimed and not copied (`OwesPlace`) are of different
   threads, and a place nobody owes holds a vertex; so when the round begins
   the frontier is what the bins held (`ClaimStep`, `CopyStep`, `Barrier2Step`).
5. The end. The vote finds no bin, so the bins are empty and every vertex is
   relaxed: by 1, with no bound `c`, all distances are true.
6. The frontier's places (`OnceInv`, for delta 1). The entries of a bin, of all
   threads together, are different vertices (`EntriesOnce`): a compare-and-swap that
   wins lowers a distance strictly, and so puts its vertex into a lower bin than it
   may wait in already. Each vertex in a bin is the end of an edge, so a bin has no
   more entries than the graph has edges (`BinFits`). When the bins are copied, what
   has been claimed and what threads will still claim is within that
   (`PlacesSuffice`), so every copy fits.

Last come the programs together. `OneRuns` and `SameRun` show that a behaviour of
`Kernels` is one of a single kernel whose other variables do not move, and
`KernelTypesHold`, `KernelAnswersVerify`, `KernelInvariantsHold` and `KernelsUnite`
are then the properties of the run `kernels` for every value of its constants.

Of scores that PageRank returned because `max_iters` was reached nothing is claimed
or proved, and nothing can be: they may not have converged, and then `PRVerifier`
reports failure. The exact tolerance is granted `Rounding` as said above.

The end of `TieringProofs` is about the detector, for any lengths of the
phases below 999 (the age a fresh detector starts at), any warm-up, observations and
margins; nothing is assumed of which margins are the looser, or of how far an
observation lies from the mean. `SumsAreReset` is the invariant behind
`EvidenceCountsOnce`: where a change point is reported both sums are 0, so the next
report needs an observation that exceeds slack and threshold by itself.
`MarginsApproach` is the interpolation's: it is monotone from the looser end to the
other (`InterpolatedMonotone`), the mirror image when the ends are swapped
(`InterpolatedMirror`), and each read is at an age above that of the read before, or at 0.

`BuilderProofs` proves that whichever way it is built, for any list of edges, any
number of threads and any block size, a graph that is built is the one that the
list gives (`GraphsAsGiven`; when `realloc` has nothing to return none is), that
no thread stores outside the array (`BuilderTypesHold`), and that the triangles of
an undirected graph are counted once (`TrianglesCounted`). The invariant
`BuilderInv` has a part for each stage:

1. Operators. Sorting by ranks is a rearrangement in order (`SortedInOrder`, by
   `Ranked`: in a finite order every rank is taken, once), the block-wise prefix
   sum is the prefix sum (`PrefixSums`), and `Layout` puts each list where its
   index says (`LayoutHolds`).
2. The copy loop (`Copying`). Each entry of an edge is a token; `U` are those that
   have not claimed a place, `cur` says which one a thread is about, and `place`
   which place a token claimed. The offset of a vertex has moved by the tokens of
   it that claimed, and the degrees count its tokens (`DegreesAreTokens`), so a
   claimed place lies in the list of its vertex, and no two tokens have the same.
   When all are stored every list is filled exactly (`CopyDone`), by as many tokens
   as it has places. `SquishCSRHolds` is the rest.
3. In place, overwriting (`Laid`). Before edge `k` is read, only cells below `k` have
   been written, and it lies in cells `2k` and `2k + 1`; as the edges are
   sorted by source, the place that its target goes to is cell `k`
   (`PlaceInOrder`).
4. In place, inverting (`InPlaceIn`). The `k`-th target goes to the place `Slot`
   gives, distinct from all others, and every place is one (`Slots`).
5. In place, adding inverses (`Widened`, `Roomy`). The room made for a vertex is
   the number of inverses it lacks. A cell is read before it is written, as lists
   move up and the last cell goes first (`SpreadRound`). `AddedTo` says of a list,
   when the first `k` cells have been gone through: behind what is left of the
   room stand, in any order, the vertices that have asked for an inverse
   (`Asked`), and then the sorted list of old. The search for `u` is right all the
   same: those that have asked are all smaller than `u`, since the lists are gone
   through in order, and that is all a binary search needs (`SearchAdded`). So an
   inverse is added exactly when it is missing, and none twice.
6. The number of entries. Both sides have the same, and an undirected graph an even
   one: sums over all pairs of vertices, exchanged (`EntriesBothWays`,
   `EntriesEven`).
7. Triangles (`TallyInv`). `Lined` says that the lists are those of a relation,
   sorted and without repetition; the relation is symmetric. The neighbours of
   `u` up to a bound are then the first of its list (`LeadingTargets`), and the
   search for `w` in the list of `v` ends at the first neighbour not below `w`,
   which `u` is at the latest (`PlaceFound`): the code tests for no end, and
   needs none. So the count is that of the corners in falling order
   (`OrderedCountIs`), and the verifier's is that of all corners
   (`VerifierCounts`), six times as many. Relabelling leaves lined lists
   (`RelabelLined`): the new numbers are a permutation, whatever the order of
   vertices of one degree, and the number of triangles stays what it was.

`SessionProofs` proves all of `Session`'s safety, for any plan, from
`SessionAssumption`. Its `IInv` has a part for each thing the processes share:

1. `OneAtATime`: a workload is alive only between its start and the end of the
   wait for it, and a daemon of an aborted run only until the next workload
   starts. Never are there two daemons.
2. `FileOwned`: the file is that of the daemon at work, or none. It is not enough
   to say so of the loop: the file a daemon waits for must already be either its
   own workload's or absent when it starts, which is what `rm -f` is for.
3. `InOrder`: what the daemon knows is no later than the file, and the file no
   later than the workload. `PhasesOnlyForward` follows.
4. `Settled`: a workload that is in the file, or whose build is in the log, maps
   no more than arrays of trials.
5. `Switched`: no other daemon is there to turn balancing on under one at work, and
   the script restores the switches only when its own was told to stop. (That it has
   ended by then is not so: an interrupted `wait` returns early.)

Each step is first shown to be one of three kinds (`WlEffect`, `DmEffect`, or one
that only stops processes), and each kind to keep `IInv`; starting a workload or
a daemon is treated apart.

Only model-checked, and why:

- Liveness (`DaemonStops`, `DrainEnds`, `KernelsEnd`, ...), which is beyond the prover.
- `ScoresExact`. The walk back divides in units of 1/`Scale`, which is exact for the
  graphs of the run and not for all; with other constants the scores differ from
  the verifier's by what is rounded off, as floats do.

## Not modelled, and the plan

1. `PolicyChoice`: what a policy would choose given whole access histories:
   decaying LFU's tolerance band, cold pages the heuristic never evicts.
2. An abstract `FastTier` (a set of at most capacity plus debt pages) that
   `Tiering` implements, with the refinement proved.

Not planned: the training and plotting scripts (pure functions of files, no
state), the recurrent network of `kleio`, the Pin tool, the scripts for Redis,
memcached, RocksDB and XSBench (the same steps around programs that are not in
the repository), reading, writing and generating of graph files (parsing and
random numbers), STREAM, the YCSB client and generated code.
