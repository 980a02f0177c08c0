--------------------------- MODULE SessionProofs ----------------------------
(***************************************************************************)
(* Proofs about a series of benchmark runs, for any plan, any number of    *)
(* phases, CPUs and signals.                                               *)
(***************************************************************************)
EXTENDS Session, TLAPS

FilePlaces == {"open", "write", "run", "unmap", "unlink"}
GraphPlaces == {"built", "squished", "trials", "trial"}
WatchPlaces == {"attach", "balance", "loop", "read"}
InformedPlaces == {"detected", "restore"} \cup WatchPlaces
Regions == {"heap", "arena", "edges", "squished", "arrays"}

Workload ==
  [at : {"none", "start", "gone"} \cup FilePlaces \cup GraphPlaces, phase : -1 .. Phases,
   mapped : SUBSET Regions, touched : 0 .. TotalPages - 1]

Contents == [pid : Run, phase : -1 .. Phases]

Daemon ==
  [at : {"none", "waiting", "gone"} \cup InformedPlaces, running : BOOLEAN,
   info : {NoFile} \cup Contents, regions : SUBSET Regions, attached : SUBSET CPUs]

Types ==
  /\ run \in Run /\ signals \in 0 .. MaxSignals
  /\ script \in {"begin", "cleaned", "await", "wait", "stop", "waitDaemon", "restore", "end"}
  /\ info \in {NoFile, Truncated} \cup Contents
  /\ wl \in [Run -> Workload] /\ dm \in [Run -> Daemon]
  /\ balancing \in 0 .. 1 /\ hugePages \in {"always", "never"}

Alive(r) == ~Gone(dm[r])
Informed(r) == dm[r].at \in InformedPlaces

(* The phases in the order the workload goes through them; -1 is the last. *)
Rank(p) == IF p = -1 THEN Phases + 1 ELSE p

(* One workload and one daemon at a time: a workload only between its start *)
(* and the end of the wait for it; a daemon that outlives an aborted run    *)
(* only until the script starts the next workload.                          *)
OneAtATime ==
  /\ \A r \in Run : ~Gone(wl[r]) => r = run /\ script \in {"await", "wait"}
  /\ \A r \in Run : Alive(r) => r = run \/ script \in {"begin", "cleaned", "end"}
  /\ \A r, q \in Run : Alive(r) /\ Alive(q) => r = q
  /\ script = "await" => ~Alive(run)
  /\ \A r \in Run : Alive(r) => Plan[r] # "autonuma"

(* Whose file it is: that of the daemon at work; no other before and while  *)
(* a workload that writes the file itself runs.                             *)
Own(r) == info \in {NoFile, Truncated} \/ info.pid = r

FileOwned ==
  /\ \A r \in Run : Alive(r) => Own(r)
  /\ Kind # "gapbs" =>
       /\ script = "cleaned" => info = NoFile
       /\ script \in {"await", "wait"} => Own(run)
       /\ wl[run].at = "start" => info = NoFile
  /\ \A r \in Run : Informed(r) => dm[r].info \in Contents /\ dm[r].info.pid = r

(* What the daemon knows is no later than what the file says, and the file  *)
(* no later than the workload.                                              *)
InOrder ==
  /\ \A r \in Run : wl[r].at \in FilePlaces => Plan[r] # "gapbs"
  /\ \A r \in Run : wl[r].at \in GraphPlaces => Plan[r] = "gapbs"
  /\ \A r \in Run : wl[r].at = "run" => wl[r].phase # -1
  /\ \A r \in Run : wl[r].at \in FilePlaces /\ info.pid = r => Rank(info.phase) <= Rank(wl[r].phase)
  /\ \A r \in Run : Informed(r) =>
       /\ info.pid = r => Rank(dm[r].info.phase) <= Rank(info.phase)
       /\ wl[r].at \in FilePlaces => Rank(dm[r].info.phase) <= Rank(wl[r].phase)

(* A workload is told of, or its build logged, when what it works on is     *)
(* mapped, and from then on only the arrays of trials are added.            *)
Settled ==
  /\ \A r \in Run : Informed(r) \/ (Alive(r) /\ Plan[r] = "gapbs") =>
       wl[r].at \notin {"start", "built", "squished"}
  /\ \A r \in Run : dm[r].at \in WatchPlaces => wl[r].mapped \ {"arrays"} \subseteq dm[r].regions

(* The switches in the stretches of a run in which they matter: until the   *)
(* daemon is told to stop, and while a workload may run.                    *)
Switched ==
  /\ \A r \in Run : Alive(r) /\ dm[r].running => hugePages = "never"
  /\ \A r \in Run : InLoop(r) /\ dm[r].running => balancing = 0
  /\ script \in {"waitDaemon", "restore"} => \A r \in Run : Alive(r) => ~dm[r].running
  /\ script \in {"await", "wait"} =>
       IF Kind = "autonuma" THEN balancing = 1 /\ hugePages = "always" ELSE hugePages = "never"

IInv == Types /\ OneAtATime /\ FileOwned /\ InOrder /\ Settled /\ Switched

-----------------------------------------------------------------------------
(* The plan, the file's states and the places, without their sequences.    *)
LEMMA PlanFacts ==
  /\ Run \subseteq Nat \ {0} /\ 1 \in Run
  /\ \A r \in Run : Plan[r] \in Kinds
  /\ Len(Plan) \in Nat /\ Len(Plan) \in Run
  /\ Phases \in Nat /\ Phases > 0 /\ MaxSignals \in Nat
  /\ TotalPages \in Nat /\ TotalPages > 0
  BY SessionAssumption DEF Run

(* A rank is a number.                                                     *)
LEMMA RankIsInt ==
  ASSUME NEW p \in -1 .. Phases
  PROVE  Rank(p) \in Int
  BY PlanFacts DEF Rank

(* What a step of a workload may do to what IInv is about.                 *)
WlEffect(r, next) ==
  /\ ~Gone(wl[r]) /\ WlMoves(r, next) /\ next \in Workload
  /\ next.at \notin {"none", "start"}
  /\ next.at \in FilePlaces => Plan[r] # "gapbs" /\ Rank(wl[r].phase) <= Rank(next.phase)
  /\ next.at \in FilePlaces => wl[r].at \in {"start"} \cup FilePlaces
  /\ next.at \in GraphPlaces => Plan[r] = "gapbs"
  /\ next.at = "run" => next.phase # -1
  /\ next.at \in {"built", "squished"} => wl[r].at \in {"start", "built"}
  /\ next.mapped \ {"arrays"} \subseteq wl[r].mapped \/ wl[r].at \in {"start", "built"}
  /\ \/ info' \in {info, NoFile, Truncated}
     \/ Plan[r] # "gapbs" /\ wl[r].at \in FilePlaces /\ info' = [pid |-> r, phase |-> wl[r].phase]

(* It keeps the invariant.                                                 *)
LEMMA WlKeeps ==
  ASSUME IInv, NEW r \in Run, NEW next \in Workload, WlEffect(r, next)
  PROVE  IInv'
<1> USE DEF Alive, Informed, Gone, Kind, InLoop, Own
<1>1. /\ wl' = [wl EXCEPT ![r] = next]
      /\ UNCHANGED <<run, script, signals, dm, balancing, hugePages>>
  BY DEF WlEffect, WlMoves, kernelVars
<1>2. wl \in [Run -> Workload] /\ dm \in [Run -> Daemon] /\ run \in Run
  BY DEF IInv, Types
<1>3. r = run /\ script \in {"await", "wait"}
  BY DEF IInv, OneAtATime, WlEffect
<1>4. /\ wl'[r] = next
      /\ \A q \in Run : q # r => wl'[q] = wl[q]
  BY <1>1, <1>2
<1>5. Types'
  BY <1>1, <1>2 DEF IInv, Types, WlEffect, Contents, Workload
<1>6. OneAtATime'
  BY <1>1, <1>3, <1>4 DEF IInv, OneAtATime, WlEffect
<1>7. FileOwned'
  BY <1>1, <1>2, <1>3, <1>4 DEF IInv, OneAtATime, FileOwned, WlEffect
<1>8. InOrder'
  <2>1. \A q \in Run :
          /\ wl'[q].at \in FilePlaces => Plan[q] # "gapbs"
          /\ wl'[q].at \in GraphPlaces => Plan[q] = "gapbs"
          /\ wl'[q].at = "run" => wl'[q].phase # -1
    BY <1>4 DEF IInv, InOrder, WlEffect
  <2>2. r # 0 /\ r # -1
    BY PlanFacts
  <2>3. ASSUME wl[r].at = "start", Plan[r] # "gapbs" PROVE info = NoFile /\ ~Informed(r)
    BY <1>3, <2>3 DEF IInv, FileOwned, Settled
  <2>4. ASSUME NEW q \in Run, wl'[q].at \in FilePlaces, info'.pid = q
        PROVE  Rank(info'.phase) <= Rank(wl'[q].phase)
    <3>1. CASE q # r
      <4>1. info'.pid # r \/ info' = info
        BY <2>4, <3>1
      <4>2. wl[q].at \in FilePlaces
        BY <1>4, <2>4, <3>1
      <4> QED BY <1>3, <3>1, <4>2 DEF IInv, OneAtATime, FilePlaces
    <3>2. CASE q = r
      <4>1. CASE info' = info
        <5>1. info.pid = r /\ info # NoFile /\ info # Truncated
          BY <2>2, <2>4, <3>2, <4>1 DEF NoFile, Truncated
        <5>2. info.phase \in -1 .. Phases /\ wl[r].phase \in -1 .. Phases /\ next.phase \in -1 .. Phases
          BY <1>2, <5>1 DEF IInv, Types, Contents, Workload
        <5>3. wl[r].at \in FilePlaces /\ Rank(wl[r].phase) <= Rank(next.phase)
          BY <1>4, <2>3, <2>4, <3>2, <5>1 DEF WlEffect
        <5>4. Rank(info.phase) <= Rank(wl[r].phase)
          BY <5>1, <5>3 DEF IInv, InOrder
        <5> HIDE DEF Rank
        <5> QED BY <1>4, <3>2, <4>1, <5>2, <5>3, <5>4, RankIsInt
      <4>2. CASE info' \in {NoFile, Truncated}
        BY <2>2, <2>4, <3>2, <4>2 DEF NoFile, Truncated
      <4>3. CASE info' = [pid |-> r, phase |-> wl[r].phase]
        BY <1>4, <2>4, <3>2, <4>3 DEF WlEffect
      <4> QED BY <4>1, <4>2, <4>3 DEF WlEffect
    <3> QED BY <3>1, <3>2
  <2>5. ASSUME NEW q \in Run, Informed(q)
        PROVE  /\ info'.pid = q => Rank(dm[q].info.phase) <= Rank(info'.phase)
               /\ wl'[q].at \in FilePlaces => Rank(dm[q].info.phase) <= Rank(wl'[q].phase)
    <3>1. q = r
      BY <1>3, <2>5 DEF IInv, OneAtATime, InformedPlaces, WatchPlaces
    <3>2. wl[r].at # "start"
      BY <2>5, <3>1 DEF IInv, Settled
    <3>3. wl'[r].at \in FilePlaces =>
             wl[r].at \in FilePlaces /\ Rank(wl[r].phase) <= Rank(next.phase)
      BY <1>4, <3>2 DEF WlEffect
    <3>4. /\ Rank(dm[r].info.phase) \in Int /\ Rank(wl[r].phase) \in Int
          /\ Rank(next.phase) \in Int
      <4>1. dm[r].info.phase \in -1 .. Phases
        BY <2>5, <3>1 DEF IInv, FileOwned, Contents
      <4>2. wl[r].phase \in -1 .. Phases /\ next.phase \in -1 .. Phases
        BY <1>2 DEF Workload
      <4> QED BY <4>1, <4>2, RankIsInt
    <3>5. wl'[r].at \in FilePlaces => Rank(dm[r].info.phase) <= Rank(wl'[r].phase)
      BY <1>4, <2>5, <3>1, <3>3, <3>4 DEF IInv, InOrder
    <3>6. info'.pid = r => Rank(dm[r].info.phase) <= Rank(info'.phase)
      BY <2>2, <2>5, <3>1 DEF IInv, InOrder, WlEffect, NoFile, Truncated
    <3> QED BY <3>1, <3>5, <3>6
  <2>6. \A q \in Run : wl'[q].at \in FilePlaces /\ info'.pid = q =>
                       Rank(info'.phase) <= Rank(wl'[q].phase)
    BY <2>4
  <2>7. \A q \in Run : Informed(q)' =>
          /\ info'.pid = q => Rank(dm'[q].info.phase) <= Rank(info'.phase)
          /\ wl'[q].at \in FilePlaces => Rank(dm'[q].info.phase) <= Rank(wl'[q].phase)
    BY <1>1, <2>5
  <2> QED BY <2>1, <2>6, <2>7 DEF InOrder, Rank
<1>9. Settled'
  <2>1. /\ next.at \in {"built", "squished"} => wl[r].at \in {"start", "built"} /\ Plan[r] = "gapbs"
        /\ next.at # "start"
    BY DEF WlEffect, GraphPlaces
  <2>2. dm[r].at \in WatchPlaces => next.mapped \ {"arrays"} \subseteq dm[r].regions
    BY DEF IInv, Settled, WlEffect, InformedPlaces
  <2> QED BY <1>1, <1>4, <2>1, <2>2 DEF IInv, Settled
<1>10. Switched'
  BY <1>1 DEF IInv, Switched
<1> QED BY <1>5, <1>6, <1>7, <1>8, <1>9, <1>10 DEF IInv

(* What a step of a daemon may do to what IInv is about.                   *)
DmEffect(r, next) ==
  /\ Alive(r) /\ DmMoves(r, next) /\ next \in Daemon
  /\ next.at \notin {"none", "waiting"}
  /\ next.at \in InformedPlaces =>
       /\ next.info \in Contents /\ next.info.pid = r
       /\ info.pid = r => Rank(next.info.phase) <= Rank(info.phase)
       /\ wl[r].at \in FilePlaces => Rank(next.info.phase) <= Rank(wl[r].phase)
       /\ wl[r].at \notin {"start", "built", "squished"}
  /\ next.at \in WatchPlaces => wl[r].mapped \ {"arrays"} \subseteq next.regions
  /\ next.at # "gone" /\ next.running => dm[r].running
  /\ next.at \in {"loop", "read"} /\ next.running => balancing' = 0
  /\ balancing' \in 0 .. 1 /\ hugePages' = hugePages

(* It keeps the invariant.                                                 *)
LEMMA DmKeeps ==
  ASSUME IInv, NEW r \in Run, NEW next \in Daemon, DmEffect(r, next)
  PROVE  IInv'
<1> USE DEF Alive, Informed, Gone, Kind, InLoop, Own
<1>1. /\ dm' = [dm EXCEPT ![r] = next]
      /\ UNCHANGED <<run, script, signals, info, wl>>
  BY DEF DmEffect, DmMoves
<1>2. wl \in [Run -> Workload] /\ dm \in [Run -> Daemon] /\ run \in Run
  BY DEF IInv, Types
<1>3. /\ dm'[r] = next
      /\ \A q \in Run : q # r => dm'[q] = dm[q]
  BY <1>1, <1>2
<1>4. /\ Alive(r)
      /\ \A q \in Run : q # r => ~Alive(q)
  BY DEF IInv, OneAtATime, DmEffect
<1>5. Types'
  BY <1>1, <1>2 DEF IInv, Types, DmEffect
<1>6. OneAtATime'
  BY <1>1, <1>2, <1>3, <1>4 DEF IInv, OneAtATime, DmEffect
<1>7. FileOwned'
  BY <1>1, <1>2, <1>3, <1>4 DEF IInv, FileOwned, DmEffect
<1>8. InOrder'
  BY <1>1, <1>2, <1>3, <1>4 DEF IInv, InOrder, DmEffect
<1>9. Settled'
  BY <1>1, <1>2, <1>3, <1>4 DEF IInv, Settled, DmEffect
<1>10. Switched'
  <2>1. script \in {"await", "wait"} => r = run /\ Kind # "autonuma"
    BY <1>4 DEF IInv, OneAtATime
  <2> QED BY <1>1, <1>2, <1>3, <1>4, <2>1 DEF IInv, Switched, DmEffect
<1> QED BY <1>5, <1>6, <1>7, <1>8, <1>9, <1>10 DEF IInv

(* A process that has ended.                                               *)
LEMMA ExitedIsWorkload ==
  ASSUME NEW w \in Workload
  PROVE  /\ Exited(w) \in Workload /\ Exited(w).mapped = {} /\ Gone(Exited(w))
         /\ w.at # "none" => Exited(w) = [at |-> "gone", phase |-> 0, mapped |-> {}, touched |-> 0]
<1> DEFINE place == IF w.at = "none" THEN "none" ELSE "gone"
<1>1. Exited(w) = [at |-> place, phase |-> 0, mapped |-> {}, touched |-> 0]
  <2>1. Exited(w) = [NewWorkload EXCEPT !.at = place, !.mapped = {}]
    BY DEF Exited
  <2> HIDE DEF place
  <2> QED BY <2>1 DEF NewWorkload
<1>2. 0 \in -1 .. Phases /\ 0 \in 0 .. TotalPages - 1
  BY PlanFacts
<1> QED BY <1>1, <1>2 DEF Workload, Gone

(* Each step of a workload is one of those.                                *)
LEMMA WlStepKeeps ==
  ASSUME IInv, NEW r \in Run, WlStep(r)
  PROVE  IInv'
<1> DEFINE w == wl[r]
<1>1. w \in Workload /\ Plan[r] \in Kinds
  BY PlanFacts DEF IInv, Types
<1>2. /\ w.at \in FilePlaces => Plan[r] # "gapbs"
      /\ w.at \in GraphPlaces => Plan[r] = "gapbs"
      /\ w.at = "run" => w.phase # -1
  BY DEF IInv, InOrder
<1>same. Rank(w.phase) <= Rank(w.phase)
  BY <1>1, RankIsInt DEF Workload
<1>3. ASSUME w.at \in {"start", "unlink", "trial"}, WlMoves(r, Exited(w)), info' \in {info, NoFile}
      PROVE  IInv'
  <2>1. Exited(w) = [at |-> "gone", phase |-> 0, mapped |-> {}, touched |-> 0]
    BY <1>1, <1>3, ExitedIsWorkload
  <2>2. WlEffect(r, Exited(w))
    BY <1>1, <1>3, <2>1, ExitedIsWorkload DEF WlEffect, Gone, FilePlaces, GraphPlaces
  <2> QED BY <1>1, <2>2, ExitedIsWorkload, WlKeeps
<1>4. CASE Map(r)
  <2> DEFINE next == [w EXCEPT !.at = "open", !.mapped = @ \cup {"arena"}]
  <2>1. next \in Workload
    BY <1>1 DEF Workload, FilePlaces, Regions
  <2>2. ASSUME WlMoves(r, next), w.at = "start", Plan[r] # "gapbs", info' = info
        PROVE  WlEffect(r, next)
    <3>1. next.at = "open" /\ next.phase = w.phase
      BY <1>1 DEF Workload
    <3> HIDE DEF next
    <3> QED BY <1>1, <1>same, <2>1, <2>2, <3>1 DEF WlEffect, Gone, FilePlaces, GraphPlaces
  <2> QED BY <1>3, <1>4, <2>1, <2>2, WlKeeps DEF Map
<1>5. CASE OpenInfo(r)
  <2> DEFINE next == [w EXCEPT !.at = "write"]
  <2>1. next \in Workload
    BY <1>1 DEF Workload, FilePlaces
  <2>2. WlEffect(r, next)
    <3>1. next.at = "write" /\ next.phase = w.phase /\ next.mapped = w.mapped
      BY <1>1 DEF Workload
    <3>2. w.at = "open" /\ info' = Truncated /\ WlMoves(r, next)
      BY <1>5 DEF OpenInfo
    <3> HIDE DEF next
    <3> QED BY <1>1, <1>2, <1>same, <2>1, <3>1, <3>2 DEF WlEffect, Gone, FilePlaces, GraphPlaces
  <2> QED BY <2>1, <2>2, WlKeeps
<1>6. CASE WriteInfo(r)
  <2> DEFINE next == [w EXCEPT !.at = IF wl[r].phase = -1 THEN "unmap" ELSE "run"]
  <2>1. next \in Workload
    BY <1>1 DEF Workload, FilePlaces
  <2>2. WlEffect(r, next)
    <3>1. /\ next.at = IF w.phase = -1 THEN "unmap" ELSE "run"
          /\ next.phase = w.phase /\ next.mapped = w.mapped
      BY <1>1 DEF Workload
    <3>2. w.at = "write" /\ info' = [pid |-> r, phase |-> w.phase] /\ WlMoves(r, next)
      BY <1>6 DEF WriteInfo
    <3> HIDE DEF next
    <3> QED BY <1>1, <1>2, <1>same, <2>1, <3>1, <3>2 DEF WlEffect, Gone, FilePlaces, GraphPlaces
  <2> QED BY <2>1, <2>2, WlKeeps
<1>7. CASE RunPhase(r)
  <2> DEFINE following == IF w.phase = Phases THEN -1 ELSE w.phase + 1
             next(i) == [w EXCEPT !.at = "open", !.phase = following,
                                  !.touched = IF i < TotalPages THEN i ELSE @]
  <2>1. PICK i \in IF w.phase = 0 THEN {0} ELSE AccessLogic(w.phase) : WlMoves(r, next(i))
    BY <1>7 DEF RunPhase
  <2>2. w.at = "run" /\ info' = info
    BY <1>7 DEF RunPhase
  <2>3. i \in Nat
    BY SessionAssumption DEF AccessLogic, SampleZipf
  <2>4. following \in -1 .. Phases /\ Rank(w.phase) <= Rank(following)
    BY <1>1, <1>2, <2>2, PlanFacts DEF Workload, Rank
  <2>5. next(i) \in Workload
    <3>1. (IF i < TotalPages THEN i ELSE w.touched) \in 0 .. TotalPages - 1
      BY <1>1, <2>3, PlanFacts DEF Workload
    <3> HIDE DEF following
    <3> QED BY <1>1, <2>4, <3>1 DEF Workload, FilePlaces
  <2>6. next(i).at = "open" /\ next(i).phase = following /\ next(i).mapped = w.mapped
    BY <1>1 DEF Workload
  <2> HIDE DEF following, next
  <2>7. WlEffect(r, next(i))
    BY <1>1, <1>2, <2>1, <2>2, <2>4, <2>5, <2>6 DEF WlEffect, Gone, FilePlaces, GraphPlaces
  <2> QED BY <2>5, <2>7, WlKeeps
<1>8. CASE Unmap(r)
  <2> DEFINE next == [w EXCEPT !.at = "unlink", !.mapped = @ \ {"arena"}]
  <2>1. next \in Workload
    BY <1>1 DEF Workload, FilePlaces
  <2>2. WlEffect(r, next)
    BY <1>1, <1>2, <1>8, <2>1, PlanFacts DEF Unmap, WlEffect, Gone, FilePlaces, GraphPlaces, Rank, Workload
  <2> QED BY <2>1, <2>2, WlKeeps
<1>9. CASE Unlink(r)
  BY <1>3, <1>9 DEF Unlink
<1>10. CASE GapbsBuild(r)
  <2> DEFINE next == [w EXCEPT !.at = "built", !.mapped = @ \cup {"edges"}]
  <2>1. next \in Workload
    BY <1>1 DEF Workload, GraphPlaces, Regions
  <2>2. ASSUME WlMoves(r, next), w.at = "start", Plan[r] = "gapbs", info' = info
        PROVE  WlEffect(r, next)
    BY <1>1, <2>1, <2>2 DEF WlEffect, Gone, FilePlaces, GraphPlaces, Workload
  <2> QED BY <1>3, <1>10, <2>1, <2>2, WlKeeps DEF GapbsBuild
<1>11. CASE GapbsSquish(r)
  <2> DEFINE next(place) == [w EXCEPT !.at = "squished", !.mapped = {"heap", place}]
  <2>1. PICK place \in {"edges", "squished"} : WlMoves(r, next(place))
    BY <1>11 DEF GapbsSquish
  <2>2. next(place) \in Workload
    BY <1>1 DEF Workload, GraphPlaces, Regions
  <2>3. WlEffect(r, next(place))
    BY <1>1, <1>2, <1>11, <2>1, <2>2 DEF GapbsSquish, WlEffect, Gone, FilePlaces, GraphPlaces, Workload
  <2> QED BY <2>2, <2>3, WlKeeps
<1>12. CASE PrintStats(r)
  <2> DEFINE next == [w EXCEPT !.at = "trials"]
  <2>1. next \in Workload
    BY <1>1 DEF Workload, GraphPlaces
  <2>2. WlEffect(r, next)
    BY <1>1, <1>2, <1>12, <2>1 DEF PrintStats, WlEffect, Gone, FilePlaces, GraphPlaces, Workload
  <2> QED BY <2>1, <2>2, WlKeeps
<1>13. CASE GapbsTrial(r)
  <2> DEFINE next == [w EXCEPT !.at = "trial", !.mapped = @ \cup {"arrays"}]
  <2>1. next \in Workload
    BY <1>1 DEF Workload, GraphPlaces, Regions
  <2>2. WlEffect(r, next)
    BY <1>1, <1>2, <1>13, <2>1 DEF GapbsTrial, WlEffect, Gone, FilePlaces, GraphPlaces, Workload
  <2> QED BY <2>1, <2>2, WlKeeps
<1>14. CASE EndTrial(r)
  <2> DEFINE next == [w EXCEPT !.at = "trials", !.mapped = @ \ {"arrays"}]
  <2>1. next \in Workload
    BY <1>1 DEF Workload, GraphPlaces
  <2>2. ASSUME WlMoves(r, next), w.at = "trial", info' = info
        PROVE  WlEffect(r, next)
    BY <1>1, <1>2, <2>1, <2>2 DEF WlEffect, Gone, FilePlaces, GraphPlaces, Workload
  <2> QED BY <1>3, <1>14, <2>1, <2>2, WlKeeps DEF EndTrial
<1> QED BY <1>4, <1>5, <1>6, <1>7, <1>8, <1>9, <1>10, <1>11, <1>12, <1>13, <1>14 DEF WlStep

(* Each step of a daemon is one of its own.                                *)
LEMMA DmStepKeeps ==
  ASSUME IInv, NEW r \in Run, DmStep(r)
  PROVE  IInv'
<1> DEFINE d == dm[r]
<1>1. d \in Daemon /\ balancing \in 0 .. 1 /\ info \in {NoFile, Truncated} \cup Contents
  BY DEF IInv, Types
<1>2. Informed(r) =>
        /\ d.info \in Contents /\ d.info.pid = r
        /\ info.pid = r => Rank(d.info.phase) <= Rank(info.phase)
        /\ wl[r].at \in FilePlaces => Rank(d.info.phase) <= Rank(wl[r].phase)
        /\ wl[r].at \notin {"start", "built", "squished"}
  BY DEF IInv, FileOwned, InOrder, Settled
<1>3. d.at \in WatchPlaces => wl[r].mapped \ {"arrays"} \subseteq d.regions
  BY DEF IInv, Settled
<1>4. d.at \in {"loop", "read"} /\ d.running => balancing = 0
  BY DEF IInv, Switched, InLoop
<1>5. ASSUME Readable, Alive(r)
      PROVE  info \in Contents /\ info.pid = r
  BY <1>1, <1>5 DEF IInv, FileOwned, Own, Readable
<1>6. ASSUME DmMoves(r, Ended), Alive(r), balancing' \in 0 .. 1, hugePages' = hugePages
      PROVE  IInv'
  <2>1. Ended \in Daemon /\ Ended.at = "gone"
    BY DEF Ended, NewDaemon, Daemon
  <2>2. DmEffect(r, Ended)
    BY <1>6, <2>1 DEF DmEffect, InformedPlaces, WatchPlaces
  <2> QED BY <2>1, <2>2, DmKeeps
<1>7. CASE AwaitWorkload(r)
  <2> DEFINE next == [d EXCEPT !.at = "detected", !.info = info]
  <2>1. UNCHANGED kernelVars /\ d.at = "waiting"
    BY <1>7 DEF AwaitWorkload
  <2>2. Alive(r)
    BY <2>1 DEF Alive, Gone
  <2>3. ASSUME Readable, info.phase >= 0, DmMoves(r, next)
        PROVE  IInv'
    <3>1. info \in Contents /\ info.pid = r
      BY <1>5, <2>2, <2>3
    <3>2. next \in Daemon /\ next.at = "detected" /\ next.info = info
      BY <1>1, <3>1 DEF Daemon, InformedPlaces
    <3>3. wl[r].at \notin {"start", "built", "squished"}
      <4>1. r # 0
        BY PlanFacts
      <4>2. wl[r].at = "start" => Plan[r] = "gapbs"
        BY <3>1, <4>1 DEF IInv, OneAtATime, FileOwned, Kind, Gone, NoFile
      <4> QED BY <2>2, <4>2 DEF IInv, Settled, InOrder, GraphPlaces
    <3>4. wl[r].at \in FilePlaces => Rank(info.phase) <= Rank(wl[r].phase)
      BY <3>1 DEF IInv, InOrder
    <3>5. Rank(info.phase) <= Rank(info.phase)
      BY <3>1, RankIsInt DEF Contents
    <3>6. DmEffect(r, next)
      BY <1>1, <2>1, <2>2, <2>3, <3>1, <3>2, <3>3, <3>4, <3>5 DEF DmEffect, WatchPlaces, kernelVars
    <3> QED BY <3>2, <3>6, DmKeeps
  <2> QED BY <1>1, <1>6, <1>7, <2>1, <2>2, <2>3 DEF AwaitWorkload, kernelVars
<1>8. CASE DiscoverRegions(r)
  <2> DEFINE next == [d EXCEPT !.at = "attach", !.regions = wl[r].mapped]
  <2>1. UNCHANGED kernelVars /\ d.at = "detected"
    BY <1>8 DEF DiscoverRegions
  <2>2. Alive(r) /\ Informed(r)
    BY <2>1 DEF Alive, Gone, Informed, InformedPlaces
  <2>3. wl[r].mapped \subseteq Regions
    BY DEF IInv, Types, Workload
  <2>4. next \in Daemon /\ next.at = "attach" /\ next.info = d.info /\ next.regions = wl[r].mapped
    BY <1>1, <2>3 DEF Daemon, InformedPlaces, WatchPlaces
  <2>5. ASSUME DmMoves(r, next) PROVE DmEffect(r, next)
    BY <1>1, <1>2, <2>1, <2>2, <2>4, <2>5 DEF DmEffect, kernelVars
  <2> QED BY <1>1, <1>6, <1>8, <2>1, <2>2, <2>4, <2>5, DmKeeps DEF DiscoverRegions, kernelVars
<1>9. CASE StartRecording(r)
  <2> DEFINE next(cpus) == [d EXCEPT !.at = "balance", !.attached = cpus]
  <2>1. UNCHANGED kernelVars /\ d.at = "attach"
    BY <1>9 DEF StartRecording
  <2>2. Alive(r) /\ Informed(r) /\ d.at \in WatchPlaces
    BY <2>1 DEF Alive, Gone, Informed, InformedPlaces, WatchPlaces
  <2>3. PICK cpus \in SUBSET CPUs : DmMoves(r, IF cpus = {} THEN Ended ELSE next(cpus))
    BY <1>9 DEF StartRecording
  <2>4. /\ next(cpus) \in Daemon /\ next(cpus).at = "balance"
        /\ next(cpus).info = d.info /\ next(cpus).regions = d.regions
    BY <1>1 DEF Daemon, InformedPlaces, WatchPlaces
  <2>5. ASSUME DmMoves(r, next(cpus)) PROVE DmEffect(r, next(cpus))
    BY <1>1, <1>2, <1>3, <2>1, <2>2, <2>4, <2>5 DEF DmEffect, kernelVars
  <2> QED BY <1>1, <1>6, <2>1, <2>2, <2>3, <2>4, <2>5, DmKeeps DEF kernelVars
<1>10. CASE BalancingOff(r)
  <2> DEFINE next == [d EXCEPT !.at = "loop"]
  <2>1. d.at = "balance" /\ balancing' = 0 /\ hugePages' = hugePages /\ DmMoves(r, next)
    BY <1>10 DEF BalancingOff
  <2>2. Alive(r) /\ Informed(r) /\ d.at \in WatchPlaces
    BY <2>1 DEF Alive, Gone, Informed, InformedPlaces, WatchPlaces
  <2>3. next \in Daemon /\ next.at = "loop" /\ next.info = d.info /\ next.regions = d.regions
    BY <1>1 DEF Daemon, InformedPlaces, WatchPlaces
  <2>4. DmEffect(r, next)
    BY <1>1, <1>2, <1>3, <2>1, <2>2, <2>3 DEF DmEffect
  <2> QED BY <2>3, <2>4, DmKeeps
<1>11. CASE CheckAlive(r)
  <2> DEFINE next == [d EXCEPT !.at = IF d.running /\ ~Gone(wl[d.info.pid]) THEN "read" ELSE "restore"]
  <2>1. d.at = "loop" /\ UNCHANGED kernelVars /\ DmMoves(r, next)
    BY <1>11 DEF CheckAlive
  <2>2. Alive(r) /\ Informed(r) /\ d.at \in WatchPlaces
    BY <2>1 DEF Alive, Gone, Informed, InformedPlaces, WatchPlaces
  <2>3. /\ next \in Daemon /\ next.at \in {"read", "restore"} /\ next.info = d.info
        /\ next.regions = d.regions /\ next.running = d.running
    BY <1>1 DEF Daemon, InformedPlaces, WatchPlaces
  <2> HIDE DEF next
  <2>4. DmEffect(r, next)
    BY <1>1, <1>2, <1>3, <1>4, <2>1, <2>2, <2>3 DEF DmEffect, kernelVars
  <2> QED BY <2>3, <2>4, DmKeeps
<1>12. CASE ReadPhase(r)
  <2> DEFINE seen == ReadInfo(d.info)
             next == [d EXCEPT !.info = seen, !.at = IF seen.phase < 0 THEN "restore" ELSE "loop"]
  <2>1. d.at = "read" /\ UNCHANGED kernelVars /\ DmMoves(r, next)
    BY <1>12 DEF ReadPhase
  <2>2. Alive(r) /\ Informed(r) /\ d.at \in WatchPlaces
    BY <2>1 DEF Alive, Gone, Informed, InformedPlaces, WatchPlaces
  <2>3. seen \in Contents /\ seen.pid = r /\ seen \in {info, d.info}
    BY <1>2, <1>5, <2>2 DEF ReadInfo
  <2>4. /\ info.pid = r => Rank(seen.phase) <= Rank(info.phase)
        /\ wl[r].at \in FilePlaces => Rank(seen.phase) <= Rank(wl[r].phase)
    <3>1. CASE seen = d.info
      BY <1>2, <2>2, <3>1
    <3>2. CASE seen = info
      BY <2>3, <3>2, RankIsInt DEF IInv, InOrder, Contents
    <3> QED BY <2>3, <3>1, <3>2
  <2>5. /\ next \in Daemon /\ next.at \in {"loop", "restore"} /\ next.info = seen /\ next.regions = d.regions
        /\ next.running = d.running
    BY <1>1, <2>3 DEF Daemon, InformedPlaces, WatchPlaces
  <2> HIDE DEF next, seen
  <2>6. DmEffect(r, next)
    BY <1>1, <1>2, <1>3, <1>4, <2>1, <2>2, <2>3, <2>4, <2>5 DEF DmEffect, kernelVars
  <2> QED BY <2>5, <2>6, DmKeeps
<1>13. CASE BalancingOn(r)
  BY <1>6, <1>13 DEF BalancingOn, Alive, Gone
<1> QED BY <1>7, <1>8, <1>9, <1>10, <1>11, <1>12, <1>13 DEF DmStep

(* A daemon that is told to stop is otherwise as it was.                   *)
SameDaemons(next) ==
  \A r \in Run :
     /\ next[r] \in Daemon
     /\ next[r].at = dm[r].at /\ next[r].info = dm[r].info /\ next[r].regions = dm[r].regions
     /\ next[r].running => dm[r].running

(* The signal handler only clears keep_running.                            *)
LEMMA SignalledIsSame ==
  ASSUME NEW d \in Daemon
  PROVE  /\ Signalled(d) \in Daemon
         /\ Signalled(d).at = d.at /\ Signalled(d).info = d.info /\ Signalled(d).regions = d.regions
         /\ ~Signalled(d).running
  BY DEF Signalled, Daemon

(* The steps that stop processes: what the invariant says of a daemon or a *)
(* workload stays so, if the script is then where it says no more.         *)
LEMMA StopKeeps ==
  ASSUME IInv, run' \in Run, signals' \in 0 .. MaxSignals,
         script' \in {"begin", "cleaned", "stop", "waitDaemon", "restore", "end"},
         \A r \in Run : Alive(r) => r = run' \/ script' \in {"begin", "cleaned", "end"},
         \A r \in Run : wl'[r] = wl[r] \/ wl'[r] = Exited(wl[r]),
         \A r \in Run : Gone(wl'[r]),
         wl' \in [Run -> Workload], dm' \in [Run -> Daemon], SameDaemons(dm'),
         info' \in {info, NoFile}, script' = "cleaned" /\ Plan[run'] # "gapbs" => info' = NoFile,
         balancing' \in 0 .. 1, hugePages' \in {"always", "never"},
         (\A r \in Run : Alive(r) => ~dm'[r].running) \/ UNCHANGED kernelVars,
         script' \in {"waitDaemon", "restore"} => \A r \in Run : Alive(r) => ~dm'[r].running
  PROVE  IInv'
<1> USE DEF Alive, Informed, Gone, Kind, InLoop, Own, SameDaemons
<1>1. Types'
  BY DEF IInv, Types
<1>2. OneAtATime'
  BY DEF IInv, OneAtATime
<1>3. FileOwned'
  BY DEF IInv, FileOwned
<1>4. \A r \in Run : wl'[r].at \notin FilePlaces \cup GraphPlaces \cup {"start", "run"}
  BY DEF FilePlaces, GraphPlaces
<1>5. InOrder'
  <2>1. \A r \in Run : NoFile.pid # r
    BY PlanFacts DEF NoFile
  <2> QED BY <1>4, <2>1 DEF IInv, InOrder, Rank
<1>6. Settled'
  <2>1. \A r \in Run : wl'[r].mapped \subseteq wl[r].mapped
    BY ExitedIsWorkload DEF IInv, Types
  <2> QED BY <1>4, <2>1 DEF IInv, Settled
<1>7. Switched'
  BY DEF IInv, Switched, kernelVars, InformedPlaces, WatchPlaces
<1> QED BY <1>1, <1>2, <1>3, <1>5, <1>6, <1>7 DEF IInv

(* Signals sent to daemons keep them the same.                             *)
LEMMA SignalsKeepDaemons ==
  ASSUME dm \in [Run -> Daemon], NEW told \in SUBSET Run,
         dm' = [r \in Run |-> IF r \in told THEN Signalled(dm[r]) ELSE dm[r]]
  PROVE  dm' \in [Run -> Daemon] /\ SameDaemons(dm')
<1>1. ASSUME NEW r \in Run
      PROVE  /\ dm'[r] \in Daemon
             /\ dm'[r].at = dm[r].at /\ dm'[r].info = dm[r].info /\ dm'[r].regions = dm[r].regions
             /\ dm'[r].running => dm[r].running
  <2>1. dm[r] \in Daemon
    OBVIOUS
  <2> QED BY <2>1, SignalledIsSame
<1> QED BY <1>1 DEF SameDaemons

(* KillJobs ends the workload of the run and nothing else but a daemon's   *)
(* keep_running.                                                           *)
LEMMA KillJobsStops ==
  ASSUME IInv, KillJobs
  PROVE  /\ signals' \in 0 .. MaxSignals /\ UNCHANGED <<info, kernelVars>>
         /\ wl' \in [Run -> Workload] /\ dm' \in [Run -> Daemon] /\ SameDaemons(dm')
         /\ \A r \in Run : wl'[r] = wl[r] \/ wl'[r] = Exited(wl[r])
         /\ \A r \in Run : Gone(wl'[r])
<1>1. wl \in [Run -> Workload] /\ dm \in [Run -> Daemon] /\ run \in Run /\ signals \in 0 .. MaxSignals
  BY DEF IInv, Types
<1>2. wl' = [wl EXCEPT ![run] = Exited(wl[run])] /\ Exited(wl[run]) \in Workload /\ Gone(Exited(wl[run]))
  BY <1>1, ExitedIsWorkload DEF KillJobs
<1>3. dm' \in [Run -> Daemon] /\ SameDaemons(dm')
  <2>1. CASE UNCHANGED dm
    BY <1>1, <2>1 DEF SameDaemons
  <2>2. CASE dm' = [dm EXCEPT ![run] = IF Gone(dm[run]) THEN dm[run] ELSE Signalled(dm[run])]
    <3> DEFINE told == IF Gone(dm[run]) THEN {} ELSE {run}
    <3>1. dm' = [r \in Run |-> IF r \in told THEN Signalled(dm[r]) ELSE dm[r]]
      BY <1>1, <2>2
    <3>2. told \in SUBSET Run
      BY <1>1
    <3> HIDE DEF told
    <3> QED BY <1>1, <3>1, <3>2, SignalsKeepDaemons
  <2> QED BY <2>1, <2>2 DEF KillJobs
<1>4. \A r \in Run : Gone(wl'[r])
  BY <1>1, <1>2 DEF IInv, OneAtATime
<1>5. signals' \in 0 .. MaxSignals /\ UNCHANGED <<info, kernelVars>>
  BY <1>1, PlanFacts DEF KillJobs, kernelVars
<1>6. wl' \in [Run -> Workload] /\ \A r \in Run : wl'[r] = wl[r] \/ wl'[r] = Exited(wl[r])
  BY <1>1, <1>2
<1> QED BY <1>3, <1>4, <1>5, <1>6

(* Each step of the script keeps the invariant.                            *)
LEMMA ScriptStepKeeps ==
  ASSUME IInv, ScriptStep
  PROVE  IInv'
<1>1. /\ wl \in [Run -> Workload] /\ dm \in [Run -> Daemon] /\ run \in Run
      /\ signals \in 0 .. MaxSignals /\ balancing \in 0 .. 1 /\ hugePages \in {"always", "never"}
  BY DEF IInv, Types
<1>2. script \notin {"await", "wait"} \/ Gone(wl[run]) => \A r \in Run : Gone(wl[r])
  BY DEF IInv, OneAtATime
<1>3. UNCHANGED dm => SameDaemons(dm')
  BY <1>1 DEF SameDaemons
<1>4. script \in {"await", "wait", "stop", "waitDaemon", "restore"} => \A r \in Run : Alive(r) => r = run
  BY DEF IInv, OneAtATime
<1>5. CASE Cleanup
  <2>1. dm' \in [Run -> Daemon] /\ SameDaemons(dm')
    <3> DEFINE told == {r \in Run : ~Gone(dm[r])}
    <3>1. dm' = [r \in Run |-> IF r \in told THEN Signalled(dm[r]) ELSE dm[r]]
      BY <1>5 DEF Cleanup
    <3> QED BY <1>1, <3>1, SignalsKeepDaemons
  <2> QED BY <1>1, <1>2, <1>5, <2>1, StopKeeps DEF Cleanup, Goto, Kind, kernelVars
<1>6. CASE WaitWorkload
  BY <1>1, <1>2, <1>3, <1>4, <1>6, StopKeeps DEF WaitWorkload, Goto, kernelVars
<1>7. CASE StopDaemon
  <2>1. dm' \in [Run -> Daemon] /\ SameDaemons(dm')
    <3> DEFINE told == IF Gone(dm[run]) THEN {} ELSE {run}
    <3>1. dm' = [r \in Run |-> IF r \in told THEN Signalled(dm[r]) ELSE dm[r]]
      BY <1>1, <1>7 DEF StopDaemon
    <3>2. told \in SUBSET Run
      BY <1>1
    <3> HIDE DEF told
    <3> QED BY <1>1, <3>1, <3>2, SignalsKeepDaemons
  <2>2. \A r \in Run : Alive(r) => ~dm'[r].running
    BY <1>1, <1>4, <1>7, SignalledIsSame DEF StopDaemon, Alive
  <2> QED BY <1>1, <1>2, <1>4, <1>7, <2>1, <2>2, StopKeeps DEF StopDaemon, Goto, kernelVars
<1>8. CASE EndRun
  <2>1. run' \in Run /\ script' \in {"begin", "end"}
    BY <1>1, <1>8, PlanFacts DEF EndRun, NextRun, Run
  <2>2. balancing' \in 0 .. 1 /\ hugePages' \in {"always", "never"}
    BY <1>1, <1>8 DEF EndRun
  <2>3. \A r \in Run : Alive(r) => ~dm'[r].running
    BY <1>8 DEF EndRun, IInv, Switched
  <2> QED BY <1>1, <1>2, <1>3, <1>8, <2>1, <2>2, <2>3, StopKeeps DEF EndRun
<1>13. CASE WaitDaemon
  <2>1. \A r \in Run : Alive(r) => ~dm'[r].running
    BY <1>13 DEF WaitDaemon, IInv, Switched
  <2> QED BY <1>1, <1>2, <1>3, <1>4, <1>13, <2>1, StopKeeps DEF WaitDaemon, Goto, kernelVars
<1>14. CASE TasksetFails
  <2>1. run' \in Run /\ script' \in {"begin", "end"}
    BY <1>1, <1>14, PlanFacts DEF TasksetFails, NextRun, Run
  <2> QED BY <1>1, <1>2, <1>3, <1>14, <2>1, StopKeeps DEF TasksetFails, kernelVars
<1>9. CASE StartWorkload
  <2> USE DEF Alive, Informed, Gone, Kind, InLoop, Own
  <2>1. /\ script = "cleaned" /\ script' = "await" /\ UNCHANGED <<run, signals, info, dm>>
        /\ wl' = [wl EXCEPT ![run] = NewWorkload]
        /\ balancing' = IF Kind = "autonuma" THEN 1 ELSE 0
        /\ hugePages' = IF Kind = "autonuma" THEN "always" ELSE "never"
        /\ \A r \in Run : ~Alive(r)
    BY <1>9 DEF StartWorkload, Goto
  <2>2. NewWorkload \in Workload /\ NewWorkload.at = "start"
    BY PlanFacts DEF NewWorkload, Workload, Regions
  <2>3. /\ wl'[run] = NewWorkload
        /\ \A r \in Run : r # run => wl'[r] = wl[r] /\ Gone(wl[r])
    BY <1>1, <1>2, <2>1
  <2>4. Types'
    BY <1>1, <2>1, <2>2 DEF IInv, Types
  <2>5. OneAtATime'
    BY <1>1, <2>1, <2>3 DEF IInv, OneAtATime
  <2>6. \A r \in Run : ~Informed(r)
    BY <2>1 DEF InformedPlaces, WatchPlaces
  <2>7. FileOwned'
    BY <1>1, <2>1, <2>6 DEF IInv, FileOwned
  <2>8. InOrder'
    BY <1>1, <2>1, <2>2, <2>3, <2>6 DEF IInv, InOrder, FilePlaces, GraphPlaces
  <2>9. Settled'
    BY <1>1, <2>1, <2>6 DEF IInv, Settled, InformedPlaces
  <2>10. Switched'
    BY <1>1, <2>1 DEF IInv, Switched
  <2> QED BY <2>4, <2>5, <2>7, <2>8, <2>9, <2>10 DEF IInv
<1>10. ASSUME script = "await", script' = "wait", UNCHANGED <<run, signals, wl, balancing, hugePages>>,
              dm' = [dm EXCEPT ![run] = NewDaemon], Kind # "autonuma",
              info' \in {NoFile, Truncated} \cup Contents,
              info' \in {NoFile, Truncated} \/ info'.pid = run,
              IF Kind = "gapbs" THEN wl[run].at \notin {"start", "built", "squished"} ELSE info' = info
       PROVE  IInv'
  <2> USE DEF Alive, Informed, Gone, Kind, InLoop, Own
  <2>1. NewDaemon \in Daemon /\ NewDaemon.at = "waiting"
    BY DEF NewDaemon, Daemon
  <2>2. /\ dm'[run] = NewDaemon
        /\ \A r \in Run : r # run => dm'[r] = dm[r] /\ ~Alive(r)
        /\ ~Alive(run)
    BY <1>1, <1>4, <1>10 DEF IInv, OneAtATime
  <2>3. \A r \in Run : dm'[r].at \notin InformedPlaces
    BY <2>1, <2>2 DEF InformedPlaces, WatchPlaces
  <2>4. Types'
    BY <1>1, <1>10, <2>1 DEF IInv, Types
  <2>5. OneAtATime'
    BY <1>1, <1>10, <2>2 DEF IInv, OneAtATime
  <2>6. FileOwned'
    BY <1>1, <1>10, <2>2, <2>3 DEF IInv, FileOwned
  <2>7. InOrder'
    <3>1. \A r \in Run : wl[r].at \in FilePlaces => r = run /\ Plan[r] # "gapbs"
      BY DEF IInv, InOrder, OneAtATime, FilePlaces
    <3> QED BY <1>10, <2>3, <3>1 DEF IInv, InOrder, Rank
  <2>8. Settled'
    BY <1>10, <2>2, <2>3 DEF IInv, Settled, InformedPlaces
  <2>9. Switched'
    BY <1>1, <1>10, <2>2, <2>3 DEF IInv, Switched, InformedPlaces, WatchPlaces
  <2> QED BY <2>4, <2>5, <2>6, <2>7, <2>8, <2>9 DEF IInv
<1>11. CASE AwaitInfo
  <2>1. /\ script = "await" /\ script' = "wait" /\ Kind # "gapbs"
        /\ UNCHANGED <<run, signals, info, wl, balancing, hugePages>>
        /\ IF Kind = "autonuma" THEN UNCHANGED dm ELSE dm' = [dm EXCEPT ![run] = NewDaemon]
    BY <1>11 DEF AwaitInfo, Goto, kernelVars
  <2>2. CASE Kind = "autonuma"
    BY <1>1, <2>1, <2>2 DEF IInv, Types, OneAtATime, FileOwned, InOrder, Settled, Switched,
                            Alive, Informed, Gone, Kind, InLoop, Own, Rank
  <2>3. CASE Kind # "autonuma"
    <3>1. info \in {NoFile, Truncated} \cup Contents /\ (info \in {NoFile, Truncated} \/ info.pid = run)
      BY <2>1 DEF IInv, Types, FileOwned, Own
    <3> QED BY <1>10, <2>1, <2>3, <3>1
  <2> QED BY <2>2, <2>3
<1>12. CASE AwaitBuild
  <2>1. /\ script = "await" /\ script' = "wait" /\ Kind = "gapbs"
        /\ UNCHANGED <<run, signals, wl, balancing, hugePages>>
        /\ dm' = [dm EXCEPT ![run] = NewDaemon] /\ info' = [pid |-> run, phase |-> 1]
        /\ Logged(wl[run]) \/ Gone(wl[run])
    BY <1>12 DEF AwaitBuild, Goto, kernelVars
  <2>2. info' \in Contents /\ info'.pid = run
    BY <1>1, <2>1, PlanFacts DEF Contents
  <2>3. wl[run].at \notin {"start", "built", "squished"}
    BY <2>1 DEF Logged, Gone
  <2> QED BY <1>10, <2>1, <2>2, <2>3
<1> QED BY <1>5, <1>6, <1>7, <1>8, <1>9, <1>11, <1>12, <1>13, <1>14 DEF ScriptStep

(* A signal keeps it too, in a wait, in a sleep and where it ends the       *)
(* script.                                                                 *)
LEMMA SignalKeeps ==
  ASSUME IInv, InterruptWait \/ InterruptSleep \/ Abort
  PROVE  IInv'
<1>1. run \in Run /\ balancing \in 0 .. 1 /\ hugePages \in {"always", "never"}
  BY DEF IInv, Types
<1>2. CASE InterruptWait
  <2>1. /\ KillJobs /\ script \in {"wait", "waitDaemon"} /\ run' = run
        /\ script' = IF script = "wait" THEN "stop" ELSE "restore"
    BY <1>2 DEF InterruptWait
  <2>2. \A r \in Run : Alive(r) => r = run'
    BY <2>1 DEF IInv, OneAtATime
  <2>3. script' = "restore" => \A r \in Run : Alive(r) => ~dm'[r].running
    BY <2>1, KillJobsStops DEF IInv, Switched, SameDaemons
  <2> QED BY <1>1, <2>1, <2>2, <2>3, KillJobsStops, StopKeeps DEF kernelVars
<1>3. CASE Abort
  <2>1. KillJobs /\ run' \in Run /\ script' \in {"begin", "end"}
    BY <1>1, <1>3, PlanFacts DEF Abort, NextRun, Run
  <2> QED BY <1>1, <2>1, KillJobsStops, StopKeeps DEF kernelVars
<1>4. CASE InterruptSleep
  <2> USE DEF Alive, Informed, Gone, Kind, InLoop, Own, SameDaemons
  <2>1. KillJobs /\ script \in {"begin", "cleaned", "await", "stop"} /\ UNCHANGED <<run, script>>
    BY <1>4 DEF InterruptSleep
  <2>2. /\ signals' \in 0 .. MaxSignals /\ UNCHANGED <<info, balancing, hugePages>>
        /\ wl' \in [Run -> Workload] /\ dm' \in [Run -> Daemon] /\ SameDaemons(dm')
        /\ \A r \in Run : wl'[r] = wl[r] \/ wl'[r] = Exited(wl[r])
        /\ \A r \in Run : Gone(wl'[r])
    BY <2>1, KillJobsStops DEF kernelVars
  <2>3. \A r \in Run : /\ wl'[r].at \notin FilePlaces \cup GraphPlaces \cup {"start", "run"}
                        /\ wl'[r].mapped \subseteq wl[r].mapped
    BY <2>2, ExitedIsWorkload DEF FilePlaces, GraphPlaces, IInv, Types
  <2> HIDE DEF Kind
  <2>4. Kind' = Kind
    BY <2>1 DEF Kind
  <2>5. Types'
    BY <2>1, <2>2 DEF IInv, Types
  <2>6. OneAtATime'
    <3>1. \A r \in Run : (Alive(r))' <=> Alive(r)
      BY <2>2
    <3> QED BY <1>1, <2>1, <2>2, <3>1 DEF IInv, OneAtATime
  <2>7. FileOwned'
    <3>1. \A r \in Run : ((Alive(r))' <=> Alive(r)) /\ ((Informed(r))' <=> Informed(r))
      BY <2>2
    <3>2. wl'[run].at # "start"
      BY <1>1, <2>3
    <3> QED BY <1>1, <2>1, <2>2, <2>4, <3>1, <3>2 DEF IInv, FileOwned
  <2>8. InOrder'
    BY <2>1, <2>2, <2>3 DEF IInv, InOrder, Rank
  <2>9. Settled'
    BY <2>1, <2>2, <2>3 DEF IInv, Settled
  <2>10. Switched'
    BY <2>1, <2>2, <2>4 DEF IInv, Switched
  <2> QED BY <2>5, <2>6, <2>7, <2>8, <2>9, <2>10 DEF IInv
<1> QED BY <1>2, <1>3, <1>4

-----------------------------------------------------------------------------
(* IInv is inductive.                                                      *)
THEOREM IInvHolds == Spec => []IInv
<1> USE DEF Alive, Informed, Gone, Kind, InLoop, Own
<1>1. Init => IInv
  <2> SUFFICES ASSUME Init PROVE IInv
    OBVIOUS
  <2> DEFINE noWorkload == [NewWorkload EXCEPT !.at = "none", !.mapped = {}]
             noDaemon == [NewDaemon EXCEPT !.at = "none"]
  <2>1. /\ run = 1 /\ script = "begin" /\ signals = 0 /\ info = NoFile
        /\ wl = [r \in Run |-> noWorkload] /\ dm = [r \in Run |-> noDaemon]
        /\ balancing = 1 /\ hugePages = "always"
    BY DEF Init
  <2>2. /\ noWorkload \in Workload /\ noWorkload.at = "none"
        /\ noDaemon \in Daemon /\ noDaemon.at = "none"
    <3>1. NewWorkload \in Workload /\ NewDaemon \in Daemon
      BY PlanFacts DEF NewWorkload, NewDaemon, Workload, Daemon, Regions
    <3> QED BY <3>1 DEF Workload, Daemon
  <2>3. \A r \in Run : wl[r].at = "none" /\ dm[r].at = "none"
    BY <2>1, <2>2
  <2> HIDE DEF noWorkload, noDaemon
  <2>4. Types
    BY <2>1, <2>2, PlanFacts DEF Types
  <2>5. OneAtATime
    BY <2>1, <2>3 DEF OneAtATime
  <2>6. FileOwned
    BY <2>1, <2>3 DEF FileOwned, InformedPlaces, WatchPlaces
  <2>7. InOrder
    BY <2>3 DEF InOrder, FilePlaces, GraphPlaces, InformedPlaces, WatchPlaces
  <2>8. Settled
    BY <2>3 DEF Settled, InformedPlaces, WatchPlaces
  <2>9. Switched
    BY <2>1, <2>3 DEF Switched
  <2> QED BY <2>4, <2>5, <2>6, <2>7, <2>8, <2>9 DEF IInv
<1>2. IInv /\ [Next]_vars => IInv'
  <2>1. ASSUME IInv, UNCHANGED vars PROVE IInv'
    BY <2>1 DEF IInv, Types, OneAtATime, FileOwned, InOrder, Settled, Switched, vars, kernelVars, Rank
  <2> QED BY <2>1, WlStepKeeps, DmStepKeeps, ScriptStepKeeps, SignalKeeps DEF Next
<1> QED BY <1>1, <1>2, PTL DEF Spec

(* The variables keep their types and the last page touched is one of the  *)
(* arena, for any plan.                                                    *)
THEOREM SessionTypeCorrect == Spec => []TypeOK
<1>1. IInv => TypeOK
  <2> SUFFICES ASSUME IInv PROVE TypeOK
    OBVIOUS
  <2>1. \A r \in Run : wl[r] \in Workload /\ dm[r] \in Daemon
    BY DEF IInv, Types
  <2> QED BY <2>1 DEF IInv, Types, TypeOK, Workload, Daemon, Contents, FilePlaces, GraphPlaces,
                      InformedPlaces, WatchPlaces, Regions
<1> QED BY <1>1, IInvHolds, PTL

(* A daemon in its loop watches the workload it was started for, whatever  *)
(* files interrupted runs leave behind.                                    *)
THEOREM DaemonWatchesItsOwn == Spec => []WatchesItsOwn
<1>1. IInv => WatchesItsOwn
  BY DEF IInv, FileOwned, Informed, WatchesItsOwn, InLoop, InformedPlaces, WatchPlaces
<1> QED BY <1>1, IInvHolds, PTL

(* Its regions, read once, are all the workload works on but the arrays of *)
(* trials.                                                                 *)
THEOREM AllRegionsDiscovered == Spec => []RegionsDiscovered
<1>1. IInv => RegionsDiscovered
  BY DEF IInv, Settled, RegionsDiscovered, InLoop, WatchPlaces
<1> QED BY <1>1, IInvHolds, PTL

(* The kernel's own tiering is off under a daemon at work, until it is told *)
(* to stop, and on in the runs that measure it, wherever signals cut the    *)
(* series short.                                                           *)
THEOREM SwitchesAreRight == Spec => []SwitchesAsNeeded
<1>1. IInv => SwitchesAsNeeded
  BY DEF IInv, Switched, SwitchesAsNeeded, Alive, Gone, InLoop
<1> QED BY <1>1, IInvHolds, PTL

(* The phases a daemon records only go forward, however its reads and the  *)
(* rewriting of the file interleave.                                       *)
THEOREM PhasesOnlyForward == Spec => PhasesGoForward
<1> DEFINE Forward(r) == InLoop(r) /\ dm'[r].info # dm[r].info =>
                           dm'[r].info.phase = -1 \/ dm'[r].info.phase > dm[r].info.phase
<1>1. ASSUME IInv, Next, NEW r \in Run PROVE Forward(r)
  <2>1. wl \in [Run -> Workload] /\ dm \in [Run -> Daemon] /\ run \in Run
    BY <1>1 DEF IInv, Types
  <2>2. InLoop(r) => Alive(r)
    BY DEF InLoop, Alive, Gone
  <2>3. CASE \E q \in Run : WlStep(q)
    BY <2>3 DEF WlStep, Map, OpenInfo, WriteInfo, RunPhase, Unmap, Unlink, GapbsBuild, GapbsSquish,
                PrintStats, GapbsTrial, EndTrial, WlMoves
  <2>4. ASSUME NEW q \in Run, DmStep(q) PROVE Forward(r)
    <3>1. CASE q # r
      <4>1. \A next : DmMoves(q, next) => dm'[r] = dm[r]
        BY <2>1, <3>1 DEF DmMoves
      <4>2. dm'[r] = dm[r]
        BY <2>4, <4>1 DEF DmStep, AwaitWorkload, DiscoverRegions, StartRecording, BalancingOff,
                          CheckAlive, ReadPhase, BalancingOn
      <4> QED BY <4>2
    <3>2. CASE q = r /\ dm[r].at = "loop"
      <4>1. CheckAlive(r)
        BY <2>4, <3>2 DEF DmStep, AwaitWorkload, DiscoverRegions, StartRecording, BalancingOff,
                          ReadPhase, BalancingOn
      <4>2. dm'[r].info = dm[r].info
        BY <2>1, <4>1 DEF CheckAlive, DmMoves, Daemon
      <4> QED BY <4>2
    <3>3. CASE q = r /\ dm[r].at = "read"
      <4>1. ReadPhase(r)
        BY <2>4, <3>3 DEF DmStep, AwaitWorkload, DiscoverRegions, StartRecording, BalancingOff,
                          CheckAlive, BalancingOn
      <4>2. dm'[r].info = ReadInfo(dm[r].info)
        BY <2>1, <4>1 DEF ReadPhase, DmMoves, Daemon
      <4>3. CASE Readable
        <5>1. dm'[r].info = info /\ info \in Contents /\ info.pid = r
          BY <1>1, <2>2, <3>3, <4>2, <4>3 DEF ReadInfo, Readable, IInv, Types, FileOwned, Own, InLoop
        <5>2. /\ dm[r].info \in Contents /\ dm[r].info.pid = r
              /\ Rank(dm[r].info.phase) <= Rank(info.phase)
          BY <1>1, <3>3, <5>1 DEF IInv, FileOwned, InOrder, Informed, InformedPlaces, WatchPlaces
        <5>3. info # dm[r].info => info.phase # dm[r].info.phase
          BY <5>1, <5>2 DEF Contents
        <5> QED BY <5>1, <5>2, <5>3, PlanFacts DEF Rank, Contents
      <4>4. CASE ~Readable
        BY <4>2, <4>4 DEF ReadInfo
      <4> QED BY <4>3, <4>4
    <3> QED BY <3>1, <3>2, <3>3 DEF InLoop
  <2>5. CASE ScriptStep
    <3>1. ASSUME NEW q \in Run, dm' = [dm EXCEPT ![q] = NewDaemon], ~Alive(q) PROVE Forward(r)
      BY <2>1, <2>2, <3>1
    <3>2. CASE AwaitInfo
      BY <1>1, <2>1, <3>1, <3>2 DEF AwaitInfo, IInv, OneAtATime
    <3>3. CASE AwaitBuild
      BY <1>1, <2>1, <3>1, <3>3 DEF AwaitBuild, IInv, OneAtATime
    <3>4. CASE Cleanup
      <4>1. dm'[r] = dm[r] \/ dm'[r] = Signalled(dm[r])
        BY <3>4 DEF Cleanup
      <4> QED BY <2>1, <4>1, SignalledIsSame
    <3>5. CASE StopDaemon
      <4>1. dm'[r] = dm[r] \/ dm'[r] = Signalled(dm[r])
        BY <2>1, <3>5 DEF StopDaemon
      <4> QED BY <2>1, <4>1, SignalledIsSame
    <3>6. CASE StartWorkload \/ WaitWorkload \/ EndRun \/ WaitDaemon \/ TasksetFails
      BY <3>6 DEF StartWorkload, WaitWorkload, EndRun, WaitDaemon, TasksetFails
    <3> QED BY <2>5, <3>2, <3>3, <3>4, <3>5, <3>6 DEF ScriptStep
  <2>6. CASE InterruptWait \/ InterruptSleep \/ Abort
    BY <1>1, <2>6, KillJobsStops DEF InterruptWait, InterruptSleep, Abort, SameDaemons
  <2> QED BY <1>1, <2>3, <2>4, <2>5, <2>6 DEF Next
<1>2. IInv /\ [Next]_vars => [\A r \in Run : Forward(r)]_vars
  BY <1>1
<1> QED BY <1>2, IInvHolds, PTL DEF Spec, PhasesGoForward
=============================================================================
