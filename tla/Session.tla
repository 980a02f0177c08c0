------------------------------ MODULE Session -------------------------------
(***************************************************************************)
(* A series of benchmark runs: the script (run_baselines.sh, run_gapbs.sh) *)
(* starts a workload and, unless the kernel does the tiering, the daemon;  *)
(* the two share a file, and all of them the kernel's switches. The epochs *)
(* of the daemon are the subject of Tiering; here they have no effect.     *)
(***************************************************************************)
EXTENDS Integers, Sequences, FiniteSets

CONSTANTS Plan,        \* the kind of each run, one after another
          Phases,      \* phases of the synthetic workload
          CPUs,        \* those a perf event may open on
          TotalPages, HotspotPages, NewDataPages,  \* of workload.h
          MaxSignals   \* bound on the times a signal reaches the script

Kinds == {"synthetic", "autonuma", "gapbs"}

ASSUME SessionAssumption ==
  /\ Plan \in Seq(Kinds) /\ Plan # <<>>
  /\ Phases \in Nat \ {0} /\ MaxSignals \in Nat /\ IsFiniteSet(CPUs)
  /\ HotspotPages \in 1 .. TotalPages /\ NewDataPages \in 1 .. TotalPages /\ TotalPages \in Nat

VARIABLES run, script,      \* the run of Plan the script is at, and where in it
          signals,
          info,             \* /tmp/workload_info
          wl,               \* the workload of each run, whose number is its pid
          dm,               \* the daemon of each run
          balancing, hugePages  \* numa_balancing, transparent_hugepage/enabled

kernelVars == <<balancing, hugePages>>
vars == <<run, script, signals, info, wl, dm, kernelVars>>

Run == 1 .. Len(Plan)
NoFile == [pid |-> 0, phase |-> -2]
Truncated == [pid |-> -1, phase |-> -2]  \* opened by ofstream, nothing written

Gone(p) == p.at \in {"none", "gone"}
Kind == Plan[run]

-----------------------------------------------------------------------------
(* The synthetic workload (workload.cpp). Its heap is there from the       *)
(* start, the arena from mmap to munmap.                                   *)
NewWorkload == [at |-> "start", phase |-> 0, mapped |-> {"heap"}, touched |-> 0]
Exited(w) == [NewWorkload EXCEPT !.at = IF w.at = "none" THEN "none" ELSE "gone", !.mapped = {}]

WlMoves(r, next) == wl' = [wl EXCEPT ![r] = next] /\ UNCHANGED <<run, script, signals, dm, kernelVars>>

Map(r) ==
  /\ wl[r].at = "start" /\ Plan[r] # "gapbs"
  /\ \/ WlMoves(r, [wl[r] EXCEPT !.at = "open", !.mapped = @ \cup {"arena"}])
     \/ WlMoves(r, Exited(wl[r]))   \* MAP_FAILED
  /\ UNCHANGED info

(* update_shared_info: the file is truncated, then written and closed.     *)
OpenInfo(r) ==
  /\ wl[r].at = "open"
  /\ info' = Truncated
  /\ WlMoves(r, [wl[r] EXCEPT !.at = "write"])

WriteInfo(r) ==
  /\ wl[r].at = "write"
  /\ info' = [pid |-> r, phase |-> wl[r].phase]
  /\ WlMoves(r, [wl[r] EXCEPT !.at = IF wl[r].phase = -1 THEN "unmap" ELSE "run"])

(* What the access logic of a phase may return. lower_bound over the CDF   *)
(* is its end for a draw above the last entry, which rounding leaves       *)
(* below 1.                                                                *)
SampleZipf == 0 .. HotspotPages
AccessLogic(p) ==
  CASE p = 2 -> SampleZipf
    [] p = 6 -> {TotalPages - NewDataPages + z : z \in SampleZipf}
    [] OTHER -> 0 .. TotalPages - 1

(* Mutated form: the index is not checked.                                 *)
RunPhaseUnchecked(r) ==
  LET p == wl[r].phase
      following == IF p = Phases THEN -1 ELSE p + 1
  IN  /\ wl[r].at = "run"
      /\ \E i \in IF p = 0 THEN {0} ELSE AccessLogic(p) :
           WlMoves(r, [wl[r] EXCEPT !.at = "open", !.phase = following, !.touched = i])
      /\ UNCHANGED info

(* run_phase, up to the update of the next; the last access is recorded.   *)
RunPhase(r) ==
  LET p == wl[r].phase
      following == IF p = Phases THEN -1 ELSE p + 1
  IN  /\ wl[r].at = "run"
      /\ \E i \in IF p = 0 THEN {0} ELSE AccessLogic(p) :
           WlMoves(r, [wl[r] EXCEPT !.at = "open", !.phase = following,
                                    !.touched = IF i < TotalPages THEN i ELSE @])
      /\ UNCHANGED info

Unmap(r) ==
  /\ wl[r].at = "unmap"
  /\ WlMoves(r, [wl[r] EXCEPT !.at = "unlink", !.mapped = @ \ {"arena"}])
  /\ UNCHANGED info

Unlink(r) ==
  /\ wl[r].at = "unlink"
  /\ info' = NoFile
  /\ WlMoves(r, Exited(wl[r]))

(* A GAPBS kernel. MakeGraphFromEL prints "Build Time", which stays in the *)
(* buffer of stdout, a file; MakeGraph frees the edge list; SquishGraph    *)
(* allocates the graph the trials run on, in a new place or where the list *)
(* was, and frees the first one; PrintStats ends its line with endl, which *)
(* writes the buffer. A trial allocates arrays of its own.                 *)
GapbsBuild(r) ==
  /\ wl[r].at = "start" /\ Plan[r] = "gapbs"
  /\ \/ WlMoves(r, [wl[r] EXCEPT !.at = "built", !.mapped = @ \cup {"edges"}])
     \/ WlMoves(r, Exited(wl[r]))
  /\ UNCHANGED info

GapbsSquish(r) ==
  /\ wl[r].at = "built"
  /\ \E place \in {"edges", "squished"} :
       WlMoves(r, [wl[r] EXCEPT !.at = "squished", !.mapped = {"heap", place}])
  /\ UNCHANGED info

PrintStats(r) ==
  /\ wl[r].at = "squished"
  /\ WlMoves(r, [wl[r] EXCEPT !.at = "trials"])
  /\ UNCHANGED info

GapbsTrial(r) ==
  /\ wl[r].at = "trials"
  /\ WlMoves(r, [wl[r] EXCEPT !.at = "trial", !.mapped = @ \cup {"arrays"}])
  /\ UNCHANGED info

EndTrial(r) ==
  /\ wl[r].at = "trial"
  /\ \/ WlMoves(r, [wl[r] EXCEPT !.at = "trials", !.mapped = @ \ {"arrays"}])
     \/ WlMoves(r, Exited(wl[r]))
  /\ UNCHANGED info

(* Mutated form: stdout is not buffered.                                   *)
LoggedAtOnce(w) == w.at \in {"built", "squished", "trials", "trial"}

(* "Build Time" in the file.                                               *)
Logged(w) == w.at \in {"trials", "trial"}

WlStep(r) ==
  Map(r) \/ OpenInfo(r) \/ WriteInfo(r) \/ RunPhase(r) \/ Unmap(r) \/ Unlink(r)
  \/ GapbsBuild(r) \/ GapbsSquish(r) \/ PrintStats(r) \/ GapbsTrial(r) \/ EndTrial(r)

-----------------------------------------------------------------------------
(* The daemon (daemon.cpp), from the point where its handlers are set.     *)
NewDaemon == [at |-> "waiting", running |-> TRUE, info |-> NoFile, regions |-> {}, attached |-> {}]
Ended == [NewDaemon EXCEPT !.at = "gone"]

DmMoves(r, next) == dm' = [dm EXCEPT ![r] = next] /\ UNCHANGED <<run, script, signals, info, wl>>

(* read_workload_info. Of a missing or empty file it stores nothing.       *)
Readable == info \notin {NoFile, Truncated}
(* Mutated form: what was read is taken though the file was empty.         *)
ReadInfoUnchecked(old) == info

ReadInfo(old) == IF Readable THEN info ELSE old

(* Mutated form: the wait does not look at keep_running.                   *)
AwaitWorkloadOnly(r) ==
  /\ dm[r].at = "waiting" /\ Readable /\ info.phase >= 0
  /\ DmMoves(r, [dm[r] EXCEPT !.at = "detected", !.info = info])
  /\ UNCHANGED kernelVars

AwaitWorkload(r) ==
  LET d == dm[r]
  IN  /\ d.at = "waiting"
      /\ \/ d.running /\ Readable /\ info.phase >= 0
            /\ DmMoves(r, [d EXCEPT !.at = "detected", !.info = info])
         \/ ~d.running /\ DmMoves(r, Ended)
      /\ UNCHANGED kernelVars

(* discover_workload_regions fails without a process or a region.          *)
DiscoverRegions(r) ==
  LET found == wl[r].mapped
  IN  /\ dm[r].at = "detected"
      /\ DmMoves(r, IF found = {} THEN Ended ELSE [dm[r] EXCEPT !.at = "attach", !.regions = found])
      /\ UNCHANGED kernelVars

(* start_recording skips the CPUs where the event does not open or attach. *)
StartRecording(r) ==
  /\ dm[r].at = "attach"
  /\ \E cpus \in SUBSET CPUs :
       DmMoves(r, IF cpus = {} THEN Ended
                  ELSE [dm[r] EXCEPT !.at = "balance", !.attached = cpus])
  /\ UNCHANGED kernelVars

BalancingOff(r) ==
  /\ dm[r].at = "balance"
  /\ balancing' = 0
  /\ DmMoves(r, [dm[r] EXCEPT !.at = "loop"])
  /\ UNCHANGED hugePages

(* while (keep_running), and kill(info.pid, 0).                            *)
CheckAlive(r) ==
  LET d == dm[r]
  IN  /\ d.at = "loop"
      /\ DmMoves(r, [d EXCEPT !.at = IF d.running /\ ~Gone(wl[d.info.pid]) THEN "read" ELSE "restore"])
      /\ UNCHANGED kernelVars

ReadPhase(r) ==
  LET seen == ReadInfo(dm[r].info)
  IN  /\ dm[r].at = "read"
      /\ DmMoves(r, [dm[r] EXCEPT !.info = seen, !.at = IF seen.phase < 0 THEN "restore" ELSE "loop"])
      /\ UNCHANGED kernelVars

BalancingOn(r) ==
  /\ dm[r].at = "restore"
  /\ balancing' = 1
  /\ DmMoves(r, Ended)
  /\ UNCHANGED hugePages

DmStep(r) ==
  AwaitWorkload(r) \/ DiscoverRegions(r) \/ StartRecording(r) \/ BalancingOff(r)
  \/ CheckAlive(r) \/ ReadPhase(r) \/ BalancingOn(r)

-----------------------------------------------------------------------------
(* The script.                                                             *)
Goto(place) == script' = place /\ UNCHANGED <<run, signals>>

NextRun(n) ==
  /\ run' = IF n < Len(Plan) THEN n + 1 ELSE n
  /\ script' = IF n < Len(Plan) THEN "begin" ELSE "end"

Signalled(d) == [d EXCEPT !.running = FALSE]

(* Mutated form: the info file is not removed.                             *)
CleanupKeepsInfo ==
  /\ script = "begin"
  /\ dm' = [r \in Run |-> IF Gone(dm[r]) THEN dm[r] ELSE Signalled(dm[r])]
  /\ Goto("cleaned")
  /\ UNCHANGED <<info, wl, kernelVars>>

(* cleanup: killall daemon, and in run_baselines.sh rm -f workload_info.   *)
Cleanup ==
  /\ script = "begin"
  /\ dm' = [r \in Run |-> IF Gone(dm[r]) THEN dm[r] ELSE Signalled(dm[r])]
  /\ info' = IF Kind = "gapbs" THEN info ELSE NoFile
  /\ Goto("cleaned")
  /\ UNCHANGED <<wl, kernelVars>>

(* Mutated form: the settings are taken as the last run left them.         *)
StartWorkloadAsIs ==
  /\ script = "cleaned"
  /\ \A r \in Run : Gone(dm[r])
  /\ wl' = [wl EXCEPT ![run] = NewWorkload]
  /\ Goto("await")
  /\ UNCHANGED <<info, dm, kernelVars>>

(* After its sleep 2, in which a daemon that was told to stop has stopped. *)
StartWorkload ==
  /\ script = "cleaned"
  /\ \A r \in Run : Gone(dm[r])
  /\ balancing' = IF Kind = "autonuma" THEN 1 ELSE 0
  /\ hugePages' = IF Kind = "autonuma" THEN "always" ELSE "never"
  /\ wl' = [wl EXCEPT ![run] = NewWorkload]
  /\ Goto("await")
  /\ UNCHANGED <<info, dm>>

(* At most twenty looks for the file.                                      *)
AwaitInfo ==
  /\ script = "await" /\ Kind # "gapbs"
  /\ IF Kind = "autonuma" THEN UNCHANGED dm /\ Goto("wait")
     ELSE dm' = [dm EXCEPT ![run] = NewDaemon] /\ Goto("wait")
  /\ UNCHANGED <<info, wl, kernelVars>>

(* When the workload has ended, taskset may find no process to move and     *)
(* ends the script (set -e) before it waits.                               *)
TasksetFails ==
  /\ script = "await" /\ Kind = "autonuma" /\ Gone(wl[run])
  /\ NextRun(run)
  /\ UNCHANGED <<signals, info, wl, dm, kernelVars>>

(* "Build Time" is there, or the kernel exited early; the script writes    *)
(* the info file itself.                                                   *)
AwaitBuild ==
  /\ script = "await" /\ Kind = "gapbs"
  /\ Logged(wl[run]) \/ Gone(wl[run])
  /\ info' = [pid |-> run, phase |-> 1]
  /\ dm' = [dm EXCEPT ![run] = NewDaemon]
  /\ Goto("wait")
  /\ UNCHANGED <<wl, kernelVars>>

WaitWorkload ==
  /\ script = "wait" /\ Gone(wl[run])
  /\ Goto("stop")
  /\ UNCHANGED <<info, wl, dm, kernelVars>>

(* kill -SIGINT.                                                           *)
StopDaemon ==
  /\ script = "stop"
  /\ dm' = [dm EXCEPT ![run] = IF Gone(@) THEN @ ELSE Signalled(@)]
  /\ Goto("waitDaemon")
  /\ UNCHANGED <<info, wl, kernelVars>>

WaitDaemon ==
  /\ script = "waitDaemon" /\ Gone(dm[run])
  /\ Goto("restore")
  /\ UNCHANGED <<info, wl, dm, kernelVars>>

(* What each kind of run leaves the switches at.                           *)
EndRun ==
  /\ script = "restore"
  /\ balancing' = IF Kind = "autonuma" THEN 0 ELSE 1
  /\ hugePages' = CASE Kind = "synthetic" -> "always" [] Kind = "autonuma" -> "never"
                    [] OTHER -> hugePages
  /\ NextRun(run)
  /\ UNCHANGED <<signals, info, wl, dm>>

ScriptStep ==
  Cleanup \/ StartWorkload \/ AwaitInfo \/ TasksetFails \/ AwaitBuild
  \/ WaitWorkload \/ StopDaemon \/ WaitDaemon \/ EndRun

(* cleanup_on_exit: kill $(jobs -p), which a daemon started through sudo   *)
(* does not get from a script that is not root.                            *)
KillJobs ==
  /\ signals < MaxSignals /\ signals' = signals + 1
  /\ wl' = [wl EXCEPT ![run] = Exited(@)]
  /\ \/ dm' = [dm EXCEPT ![run] = IF Gone(@) THEN @ ELSE Signalled(@)]
     \/ UNCHANGED dm
  /\ UNCHANGED <<info, kernelVars>>

(* In the wait builtins the trap is all that happens: the script goes on   *)
(* as if the process it waits for had ended.                               *)
InterruptWait ==
  /\ script \in {"wait", "waitDaemon"}
  /\ KillJobs
  /\ script' = (IF script = "wait" THEN "stop" ELSE "restore") /\ UNCHANGED run

(* So it is elsewhere, after the command under way, a sleep as a rule, if  *)
(* the signal reaches the script alone.                                    *)
InterruptSleep ==
  /\ script \in {"begin", "cleaned", "await", "stop"}
  /\ KillJobs
  /\ UNCHANGED <<run, script>>

(* A command that the signal cuts short too ends the script (set -e). What *)
(* is left of Plan is then done by a script started anew.                  *)
Abort ==
  /\ script \in {"begin", "cleaned", "await", "stop", "waitDaemon", "restore"}
  /\ KillJobs
  /\ NextRun(run)

-----------------------------------------------------------------------------
Init ==
  /\ run = 1 /\ script = "begin" /\ signals = 0
  /\ info = NoFile
  /\ wl = [r \in Run |-> [NewWorkload EXCEPT !.at = "none", !.mapped = {}]]
  /\ dm = [r \in Run |-> [NewDaemon EXCEPT !.at = "none"]]
  /\ balancing = 1 /\ hugePages = "always"

Next ==
  \/ \E r \in Run : WlStep(r) \/ DmStep(r)
  \/ ScriptStep \/ InterruptWait \/ InterruptSleep \/ Abort

Spec == Init /\ [][Next]_vars

(* Every process keeps being scheduled, and a kernel has a last trial;     *)
(* nothing is assumed of signals.                                          *)
FairSpec == /\ Spec
            /\ WF_vars(ScriptStep)
            /\ \A r \in Run : /\ WF_vars(WlStep(r)) /\ WF_vars(DmStep(r))
                             /\ SF_vars(EndTrial(r) /\ Gone(wl'[r]))

-----------------------------------------------------------------------------
InLoop(r) == dm[r].at \in {"loop", "read"}

(* Types of the variables; the last page touched is one of the arena.      *)
TypeOK ==
  /\ run \in Run /\ signals \in 0 .. MaxSignals
  /\ script \in {"begin", "cleaned", "await", "wait", "stop", "waitDaemon", "restore", "end"}
  /\ info \in {NoFile, Truncated} \cup [pid : Run, phase : -1 .. Phases]
  /\ \A r \in Run :
       /\ wl[r].at \in {"none", "start", "open", "write", "run", "unmap", "unlink", "built", "squished", "trials",
                      "trial", "gone"}
       /\ wl[r].phase \in -1 .. Phases
       /\ wl[r].mapped \subseteq {"heap", "arena", "edges", "squished", "arrays"}
       /\ wl[r].touched \in 0 .. TotalPages - 1
       /\ dm[r].at \in {"none", "waiting", "detected", "attach", "balance", "loop", "read", "restore", "gone"}
       /\ dm[r].running \in BOOLEAN /\ dm[r].attached \subseteq CPUs
  /\ balancing \in 0 .. 1 /\ hugePages \in {"always", "never"}

(* A daemon in its loop probes the workload it samples, the one it was     *)
(* started for (daemon.cpp:119-123, 176): the file names no other, though  *)
(* an interrupted run leaves its file behind and a daemon may be started   *)
(* before its workload wrote one (run_baselines.sh:48-51).                 *)
WatchesItsOwn == \A r \in Run : InLoop(r) => dm[r].info.pid = r

(* The regions are read once (ebpf_sampler.cpp:38-77), and what a workload *)
(* maps later is never sampled. The synthetic workload's arena is among    *)
(* them, as long as it is mapped: the file is first written when it is     *)
(* (workload.cpp:40-66). So is the graph a kernel works on: when the       *)
(* script finds "Build Time" (run_gapbs.sh:151) SquishGraph                *)
(* (builder.h:363) has run, although the line is printed before it         *)
(* (builder.h:335), as only the end of PrintStats (graph.h:229) writes it  *)
(* to the log. The arrays of the trials are not.                           *)
RegionsDiscovered ==
  \A r \in Run : InLoop(r) => wl[r].mapped \ {"arrays"} \subseteq dm[r].regions

(* The kernel does not migrate pages under a daemon at work, and does in   *)
(* the runs that measure it (run_baselines.sh:39-40, 92-93; daemon.cpp:140,*)
(* 286), though every daemon turns balancing on when it ends and an        *)
(* aborted run leaves the switches as they are. (A daemon that was told to *)
(* stop may be in its last epoch when an interrupted script restores them.) *)
SwitchesAsNeeded ==
  /\ \A r \in Run : InLoop(r) /\ dm[r].running => balancing = 0 /\ hugePages = "never"
  /\ script = "wait" /\ Kind = "autonuma" => balancing = 1 /\ hugePages = "always"

(* The phases a daemon records go forward, from one to a later one or to   *)
(* the end marker, though it may read the file while it is rewritten       *)
(* (workload.cpp:20-26) or after it was removed.                           *)
PhasesGoForward ==
  [][\A r \in Run : InLoop(r) /\ dm'[r].info # dm[r].info =>
       dm'[r].info.phase = -1 \/ dm'[r].info.phase > dm[r].info.phase]_vars

(* Every series ends: when the workload fails before it writes the file,   *)
(* when the daemon misses the end marker, which is there for a moment only *)
(* (workload.cpp:159-161), and after signals.                              *)
SeriesEnds == <>(script = "end")
=============================================================================
