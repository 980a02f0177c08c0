------------------------------ MODULE Sampler -------------------------------
(***************************************************************************)
(* The sampler: the BPF program sample_mem (daemon/bpf/mem_sampler.bpf.c), *)
(* which counts samples in the map page_counts on every CPU, against       *)
(* EbpfSampler::sample_epoch (daemon/ebpf_sampler.cpp), which drains the   *)
(* map once per epoch in two passes and without stopping the counting.     *)
(*                                                                         *)
(* page_counts is a preallocated per-CPU hash map: an entry occupies one   *)
(* of MAX_PAGE_ENTRIES elements and holds a count for each CPU.  Deleting  *)
(* an entry frees its element at once, also under a CPU that has just      *)
(* looked it up.  The kernel's map operations are atomic; the BPF program  *)
(* and the drain are sequences of them and interleave.                     *)
(*                                                                         *)
(*   idle --StartDrain--> collect --EndCollect--> read <-----> delete      *)
(*    ^                                            |                       *)
(*    +----------------- EndDrain -----------------+                       *)
(***************************************************************************)
EXTENDS Integers, FiniteSets, Functions

CONSTANTS
    CPU,            \* the CPUs a perf event was opened on
    Page,           \* the pages the target process touches
    WorkloadPage,   \* those in a region discover_workload_regions found
    Element,        \* the map's elements: MAX_PAGE_ENTRIES of them
    MaxCount        \* bound of the model on the samples of one CPU in an entry

\* What an element without an entry holds, and key outside pass 2.
Free == "free"

NoKey == "none"

ASSUME SamplerAssumption ==
    /\ IsFiniteSet(CPU) /\ CPU # {}
    /\ IsFiniteSet(Page) /\ Free \notin Page /\ NoKey \notin Page
    /\ WorkloadPage \subseteq Page
    /\ IsFiniteSet(Element)
    /\ MaxCount \in Nat \ {0}

VARIABLES
    entry,          \* map: the page whose entry an element holds, or Free
    count,          \* map: the samples each CPU has counted in an element
    handler,        \* BPF: what each CPU's run of sample_mem has found out
    pc,             \* daemon: the next step of sample_epoch
    ahead,          \* daemon: entries the iteration of pass 1 has yet to meet
    keys,           \* daemon: keys_to_process that pass 2 has not finished
    key,            \* daemon: the key of keys_to_process pass 2 is at
    read,           \* daemon: total, the sum of per_cpu_values
    page_samples,   \* daemon: the pages reported in this epoch
    outstanding,    \* history: samples taken that are not read or lost yet
    inserted,       \* history: pages inserted since the drain began
    due,            \* history: pages that were in the map when it began
    losers          \* history: samples that lost to the insertion of a page

mapVars     == <<entry, count>>
drainVars   == <<pc, ahead, keys, key, read, page_samples, due>>
vars == <<entry, count, handler, pc, ahead, keys, key, read, page_samples,
          outstanding, inserted, due, losers>>

-----------------------------------------------------------------------------
Present == {p \in Page : \E e \in Element : entry[e] = p}

ElementOf(p) == CHOOSE e \in Element : entry[e] = p

Total(e) == SumFunctionOnSet(count[e], CPU)

Idle == [step |-> "idle", page |-> NoKey, elem |-> Free]

Init ==
    /\ entry = [e \in Element |-> Free]
    /\ count = [e \in Element |-> [c \in CPU |-> 0]]
    /\ handler = [c \in CPU |-> Idle]
    /\ pc = "idle"
    /\ ahead = {} /\ keys = {} /\ key = NoKey /\ read = 0
    /\ page_samples = {}
    /\ outstanding = 0
    /\ inserted = {} /\ due = {}
    /\ losers = [p \in Page |-> 0]

-----------------------------------------------------------------------------
(* sample_mem, on CPU c.  Counter overflows of other processes, and those   *)
(* without an address, end before the first map operation.                  *)

\* Mutated form: the entry is inserted without a lookup.
LookupNever(c, p) ==
    /\ handler[c] = Idle
    /\ handler' = [handler EXCEPT ![c] = [step |-> "missed", page |-> p, elem |-> Free]]
    /\ outstanding' = outstanding + 1
    /\ UNCHANGED <<mapVars, drainVars, inserted, losers>>

Lookup(c, p) ==
    /\ handler[c] = Idle
    /\ \/ /\ p \in Present
          /\ count[ElementOf(p)][c] < MaxCount
          /\ handler' = [handler EXCEPT ![c] =
                            [step |-> "found", page |-> p, elem |-> ElementOf(p)]]
       \/ /\ p \notin Present
          /\ handler' = [handler EXCEPT ![c] =
                            [step |-> "missed", page |-> p, elem |-> Free]]
    /\ outstanding' = outstanding + 1
    /\ UNCHANGED <<mapVars, drainVars, inserted, losers>>

\* __sync_fetch_and_add through the pointer the lookup returned.  The element
\* may have been freed since, and even have become the entry of another page.
Add(c) ==
    /\ handler[c].step = "found"
    /\ LET e == handler[c].elem
       IN  IF entry[e] = Free
           THEN outstanding' = outstanding - 1 /\ UNCHANGED count
           ELSE count' = [count EXCEPT ![e][c] = @ + 1] /\ UNCHANGED outstanding
    /\ handler' = [handler EXCEPT ![c] = Idle]
    /\ UNCHANGED <<entry, drainVars, inserted, losers>>

\* bpf_map_update_elem with BPF_NOEXIST.  Its result is ignored, so that the
\* sample is lost when the page is there by now and when no element is free.
\* The iteration of pass 1 meets a new entry or has passed its bucket.
Insert(c) ==
    /\ handler[c].step = "missed"
    /\ LET p == handler[c].page
       IN  \/ /\ p \notin Present
              /\ \E e \in Element :
                    /\ entry[e] = Free
                    /\ entry' = [entry EXCEPT ![e] = p]
                    /\ count' = [count EXCEPT ![e] = [d \in CPU |-> IF d = c THEN 1 ELSE 0]]
              /\ ahead' \in IF pc = "collect" THEN {ahead, ahead \cup {p}} ELSE {ahead}
              /\ inserted' = inserted \cup {p}
              /\ losers' = [losers EXCEPT ![p] = 0]
              /\ UNCHANGED outstanding
           \/ /\ p \in Present
              /\ losers' = [losers EXCEPT ![p] = @ + 1]
              /\ outstanding' = outstanding - 1
              /\ UNCHANGED <<mapVars, ahead, inserted>>
           \/ /\ p \notin Present
              /\ Free \notin {entry[e] : e \in Element}
              /\ outstanding' = outstanding - 1
              /\ UNCHANGED <<mapVars, ahead, inserted, losers>>
    /\ handler' = [handler EXCEPT ![c] = Idle]
    /\ UNCHANGED <<pc, keys, key, read, page_samples, due>>

sample_mem(c) == Add(c) \/ Insert(c) \/ \E p \in Page : Lookup(c, p)

-----------------------------------------------------------------------------
(* sample_epoch.                                                            *)

StartDrain ==
    /\ pc = "idle"
    /\ page_samples' = {}
    /\ pc' = "collect"
    /\ ahead' = Present
    /\ keys' = {}
    /\ due' = Present \cap WorkloadPage
    /\ inserted' = {}
    /\ UNCHANGED <<mapVars, handler, key, read, outstanding, losers>>

\* Mutated form: a single pass, which deletes the entry the iteration is at;
\* bpf_map_get_next_key starts over when its key is gone.
CollectKeyDeleting ==
    /\ pc = "collect"
    /\ \E k \in ahead :
          /\ entry' = [entry EXCEPT ![ElementOf(k)] = Free]
          /\ outstanding' = outstanding - Total(ElementOf(k))
          /\ count' = [count EXCEPT ![ElementOf(k)] = [c \in CPU |-> 0]]
          /\ ahead' = Present \ {k}
          /\ page_samples' = page_samples \cup ({k} \cap WorkloadPage)
    /\ UNCHANGED <<handler, pc, keys, key, read, inserted, due, losers>>

\* bpf_map_get_next_key, in an order that depends on the hash.
CollectKey ==
    /\ pc = "collect"
    /\ \E k \in ahead : ahead' = ahead \ {k} /\ keys' = keys \cup {k}
    /\ UNCHANGED <<mapVars, handler, pc, key, read, page_samples, outstanding,
                   inserted, due, losers>>

\* Mutated form: pass 1 stops when it has collected a batch.
EndCollectBatch ==
    /\ pc = "collect"
    /\ ahead = {} \/ Cardinality(keys) = 1
    /\ pc' = "read"
    /\ UNCHANGED <<mapVars, handler, ahead, keys, key, read, page_samples,
                   outstanding, inserted, due, losers>>

EndCollect ==
    /\ pc = "collect"
    /\ ahead = {}
    /\ pc' = "read"
    /\ UNCHANGED <<mapVars, handler, ahead, keys, key, read, page_samples,
                   outstanding, inserted, due, losers>>

\* Mutated form: the value of one CPU is taken for all.
CountedOneCPU(e) == count[e][CHOOSE c \in CPU : TRUE] > 0

\* total > 0, for the sum over all CPUs.
Counted(e) == \E c \in CPU : count[e][c] > 0

\* The regions are those found once, before the first epoch.
is_workload_vma(p) == p \in WorkloadPage

\* The entries of pages outside the workload's regions are read and dropped.
ReadKey ==
    /\ pc = "read"
    /\ \E k \in keys :
          /\ key' = k
          /\ keys' = keys \ {k}
          /\ read' = Total(ElementOf(k))
          /\ page_samples' = IF Counted(ElementOf(k)) /\ is_workload_vma(k)
                             THEN page_samples \cup {k} ELSE page_samples
    /\ outstanding' = outstanding - read'
    /\ pc' = "delete"
    /\ UNCHANGED <<mapVars, handler, ahead, inserted, due, losers>>

\* Mutated form: the entry is deleted only if it was reported.
DeleteKeyReported ==
    /\ pc = "delete"
    /\ IF key \in page_samples
       THEN /\ entry' = [entry EXCEPT ![ElementOf(key)] = Free]
            /\ count' = [count EXCEPT ![ElementOf(key)] = [c \in CPU |-> 0]]
            /\ outstanding' = outstanding - (Total(ElementOf(key)) - read)
       ELSE UNCHANGED <<mapVars, outstanding>>
    /\ pc' = "read"
    /\ key' = NoKey
    /\ read' = 0
    /\ UNCHANGED <<handler, ahead, keys, page_samples, inserted, due, losers>>

\* Samples counted since the values were read go with the entry.
DeleteKey ==
    /\ pc = "delete"
    /\ entry' = [entry EXCEPT ![ElementOf(key)] = Free]
    /\ count' = [count EXCEPT ![ElementOf(key)] = [c \in CPU |-> 0]]
    /\ outstanding' = outstanding - (Total(ElementOf(key)) - read)
    /\ pc' = "read"
    /\ key' = NoKey
    /\ read' = 0
    /\ UNCHANGED <<handler, ahead, keys, page_samples, inserted, due, losers>>

EndDrain ==
    /\ pc = "read"
    /\ keys = {}
    /\ pc' = "idle"
    /\ UNCHANGED <<mapVars, handler, ahead, keys, key, read, page_samples,
                   outstanding, inserted, due, losers>>

sample_epoch ==
    \/ StartDrain \/ CollectKey \/ EndCollect \/ ReadKey \/ DeleteKey \/ EndDrain

Next == sample_epoch \/ \E c \in CPU : sample_mem(c)

Spec == Init /\ [][Next]_vars

\* The daemon drains on; samples need not come and handlers may be slow.
FairSpec == Spec /\ WF_vars(sample_epoch)

-----------------------------------------------------------------------------
MapType ==
    /\ entry \in [Element -> Page \cup {Free}]
    /\ \A e, f \in Element : entry[e] = entry[f] /\ entry[e] # Free => e = f
    /\ count \in [Element -> [CPU -> Nat]]

DrainType ==
    /\ pc \in {"idle", "collect", "read", "delete"}
    /\ ahead \subseteq Page
    /\ keys \subseteq Page
    /\ key \in Page \cup {NoKey}
    /\ page_samples \subseteq WorkloadPage
    /\ inserted \subseteq Page
    /\ due \subseteq WorkloadPage

HandlerType ==
    /\ handler \in [CPU -> [step : {"idle", "found", "missed"},
                            page : Page \cup {NoKey},
                            elem : Element \cup {Free}]]
    /\ \A c \in CPU : /\ handler[c].step = "missed" => handler[c].page \in Page
                      /\ handler[c].step = "found" => handler[c].elem \in Element
    /\ losers \in [Page -> Nat]

\* The variables keep their types; a page never has two entries.
TypeOK ==
    /\ MapType
    /\ DrainType
    /\ HandlerType
    /\ read \in Nat
    /\ outstanding \in Nat

\* The elements that hold an entry, the samples counted in them, and the CPUs
\* that are in the middle of a sample.
Held == {e \in Element : entry[e] # Free}

InMap == SumFunctionOnSet([e \in Element |-> Total(e)], Held)

Busy == {c \in CPU : handler[c] # Idle}

\* Each sample is reported at most once: what has been taken and neither read
\* nor lost is in the map, uncounted by the drain, or in a handler's hands.  A
\* sample read by one drain is never in the map for the next one to read.
EachSampleOnce == outstanding = InMap - read + Cardinality(Busy)

\* No page is overlooked: a page of the workload that was in the map when a
\* drain began is in its report, although pass 1 iterates over a map that
\* grows and pass 2 reads entries that change.
ReportComplete == pc = "idle" => due \subseteq page_samples

\* What a drain leaves in the map was inserted while it ran.  No entry grows
\* old in the map, on whatever page, so the map cannot fill up with them.
LeftoverIsNew == pc = "idle" => Present \subseteq inserted

\* For every insertion of a page, the BPF_NOEXIST race costs no more than one
\* sample of each other CPU: those that had looked the page up before.
RaceLossBound == \A p \in Page : losers[p] < Cardinality(CPU)

\* A drain ends, however fast the CPUs refill the map: entries are deleted
\* only after the iteration over them is over.
DrainEnds == pc # "idle" ~> pc = "idle"

-----------------------------------------------------------------------------
\* The handlers that have looked page p up, missed it and not yet inserted it.
Missed(p) == {c \in CPU : handler[c].step = "missed" /\ handler[c].page = p}

\* For as long as a page is in the map, the samples that lost to its insertion
\* and those that still may are of CPUs other than the one that inserted it.
RacersBound ==
    \A p \in Present : losers[p] + Cardinality(Missed(p)) < Cardinality(CPU)

\* The entries the drain has yet to delete.
Pending == ahead \cup keys \cup ({key} \ {NoKey})

\* Where the drain stands: it will delete entries that are in the map, each
\* once, and all but those inserted since it began; no entry is without a
\* sample, so that each workload page that was due is reported or will be.
DrainProgress ==
    /\ pc # "collect" => ahead = {}
    /\ pc = "idle" => keys = {}
    /\ pc = "delete" <=> key # NoKey
    /\ key \notin keys
    /\ Pending \subseteq Present
    /\ Present \subseteq Pending \cup inserted
    /\ \A e \in Element : entry[e] # Free => Counted(e)
    /\ due \subseteq (ahead \cup keys) \cup page_samples

\* The inductive invariant behind LeftoverIsNew, ReportComplete and
\* RaceLossBound: it holds for any number of CPUs, pages and elements
\* (SamplerProofs).
IInv ==
    /\ MapType
    /\ DrainType
    /\ HandlerType
    /\ RaceLossBound
    /\ RacersBound
    /\ DrainProgress

\* The sum pass 2 has read is at most what the entry holds until it is deleted.
ReadBound ==
    /\ read \in Nat
    /\ IF pc = "delete" THEN read <= Total(ElementOf(key)) ELSE read = 0

\* With IInv, the inductive invariant behind EachSampleOnce and TypeOK.
CountInv == EachSampleOnce /\ ReadBound
=============================================================================
