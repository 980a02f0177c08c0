----------------------------- MODULE DeltaStep ------------------------------
(***************************************************************************)
(* Single-source shortest paths by delta-stepping (sssp.cc). Each thread   *)
(* keeps bins of its own for the vertices whose distance it improved; in   *)
(* every round the threads relax the edges of the shared frontier, go on   *)
(* with what falls into the same bin (bucket fusion), vote for the next    *)
(* bin, and copy their part of it into the frontier.                       *)
(***************************************************************************)
EXTENDS GapKernel

CONSTANTS Weight,   \* weight of the edge between two vertices
          Deltas,   \* values of delta
          FuseLimit \* kBinSizeThreshold

ASSUME DeltaStepAssumption ==
  /\ Weight \in [Node \X Node -> Nat \ {0}]
  /\ Deltas \subseteq Nat \ {0} /\ FuseLimit \in Nat

VARIABLES origin, delta,
          dist,
          frontier, tails,  \* frontier and frontier_tails
          indexes,          \* shared_indexes
          iter,             \* iter & 1, the same for all threads at a barrier
          bins              \* local_bins of each thread

ssspVars == <<teamVars, origin, delta, dist, frontier, tails, indexes, iter, bins>>

(* The longest path there can be, so that larger numbers stand for         *)
(* kDistInf and kMaxBin.                                                   *)
MaxWeight == CHOOSE w \in {Weight[e] : e \in Node \X Node} : \A e \in Node \X Node : Weight[e] <= w
DistInf == N * MaxWeight
MaxBin == DistInf

Curr == indexes[iter]
Next1 == 1 - iter

-----------------------------------------------------------------------------
(* RelaxEdges, for the vertices of a list one after another: rest are the  *)
(* neighbours of the first one left.                                       *)
Relaxing(at, us, rest, fused, old, new) ==
  [at |-> at, us |-> us, rest |-> rest, fused |-> fused, old |-> old, new |-> new]

(* The next of the list that has an edge, or the while loop again.         *)
BeginList(us, fused) ==
  LET busy == {i \in DOMAIN us : graph.out[us[i]] # <<>>}
      first == CHOOSE i \in busy : \A j \in busy : i <= j
  IN  IF busy # {}
      THEN Relaxing("readOld", SubSeq(us, first, Len(us)), graph.out[us[first]], fused, 0, 0)
      ELSE IF fused THEN [at |-> "fuse"] ELSE Idle

Onward(us, rest, fused) ==
  IF rest # <<>> THEN Relaxing("readOld", us, rest, fused, 0, 0) ELSE BeginList(Tail(us), fused)

TakeFrontier(t, i) ==
  LET u == frontier[i]
  IN  /\ step = "relax"
      /\ Take(t, i, IF dist[u] >= delta * Curr THEN BeginList(<<u>>, FALSE) ELSE Idle)
      /\ UNCHANGED <<kernel, graph, step, origin, delta, dist, frontier, tails, indexes, iter, bins>>

ReadOld(t) ==
  LET th == thread[t]
  IN  /\ th.at = "readOld"
      /\ Goes(t, Relaxing("readNew", th.us, th.rest, th.fused, dist[Head(th.rest)], 0))
      /\ UNCHANGED <<origin, delta, dist, frontier, tails, indexes, iter, bins>>

(* while (new_dist < old_dist).                                            *)
Attempt(th, old, new) ==
  IF new < old THEN Relaxing("improve", th.us, th.rest, th.fused, old, new)
  ELSE Onward(th.us, Tail(th.rest), th.fused)

ReadNew(t) ==
  LET th == thread[t]
      u == Head(th.us)
  IN  /\ th.at = "readNew"
      /\ Goes(t, Attempt(th, th.old, dist[u] + Weight[<<u, Head(th.rest)>>]))
      /\ UNCHANGED <<origin, delta, dist, frontier, tails, indexes, iter, bins>>

(* Mutated form: the distance is stored without comparing.                 *)
ImproveStoring(t) ==
  LET th == thread[t]
      v == Head(th.rest)
  IN  /\ th.at = "improve"
      /\ dist' = [dist EXCEPT ![v] = th.new]
      /\ bins' = [bins EXCEPT ![t][th.new \div delta] = Append(@, v)]
      /\ Goes(t, Onward(th.us, Tail(th.rest), th.fused))
      /\ UNCHANGED <<origin, delta, frontier, tails, indexes, iter>>

Improve(t) ==
  LET th == thread[t]
      v == Head(th.rest)
  IN  /\ th.at = "improve"
      /\ IF dist[v] = th.old
         THEN /\ dist' = [dist EXCEPT ![v] = th.new]
              /\ bins' = [bins EXCEPT ![t][th.new \div delta] = Append(@, v)]
              /\ Goes(t, Onward(th.us, Tail(th.rest), th.fused))
         ELSE /\ Goes(t, Relaxing("recheck", th.us, th.rest, th.fused, 0, th.new))
              /\ UNCHANGED <<dist, bins>>
      /\ UNCHANGED <<origin, delta, frontier, tails, indexes, iter>>

Recheck(t) ==
  LET th == thread[t]
  IN  /\ th.at = "recheck"
      /\ Goes(t, Attempt(th, dist[Head(th.rest)], th.new))
      /\ UNCHANGED <<origin, delta, dist, frontier, tails, indexes, iter, bins>>

RelaxEdges(t) == ReadOld(t) \/ ReadNew(t) \/ Improve(t) \/ Recheck(t)

-----------------------------------------------------------------------------
(* nowait: a thread that finds the loop used up goes on to its own bins.   *)
LeaveLoop(t) ==
  /\ step = "relax" /\ todo = {} /\ thread[t] = Idle
  /\ Goes(t, [at |-> "fuse"])
  /\ UNCHANGED <<origin, delta, dist, frontier, tails, indexes, iter, bins>>

Fuse(t) ==
  LET mine == bins[t][Curr]
      fusing == mine # <<>> /\ Len(mine) < FuseLimit
  IN  /\ thread[t].at = "fuse"
      /\ IF fusing
         THEN /\ bins' = [bins EXCEPT ![t][Curr] = <<>>]
              /\ Goes(t, BeginList(mine, TRUE))
         ELSE Goes(t, [at |-> "vote"]) /\ UNCHANGED bins
      /\ UNCHANGED <<origin, delta, dist, frontier, tails, indexes, iter>>

(* Mutated form: the last vote counts.                                     *)
VoteLast(t) ==
  LET filled == {b \in Curr .. MaxBin - 1 : bins[t][b] # <<>>}
  IN  /\ thread[t].at = "vote"
      /\ indexes' = IF filled = {} THEN indexes
                    ELSE [indexes EXCEPT ![Next1] = CHOOSE b \in filled : \A c \in filled : b <= c]
      /\ Goes(t, [at |-> "joined"])
      /\ UNCHANGED <<origin, delta, dist, frontier, tails, iter, bins>>

(* The first bin that is not empty, under the critical section.            *)
Vote(t) ==
  LET filled == {b \in Curr .. MaxBin - 1 : bins[t][b] # <<>>}
      least == CHOOSE b \in filled : \A c \in filled : b <= c
  IN  /\ thread[t].at = "vote"
      /\ indexes' = IF filled = {} THEN indexes
                    ELSE [indexes EXCEPT ![Next1] = Smaller(@, least)]
      /\ Goes(t, [at |-> "joined"])
      /\ UNCHANGED <<origin, delta, dist, frontier, tails, iter, bins>>

Joined1 == \A t \in Threads : thread[t].at = "joined"

(* The barrier; the one iteration of the next region is the single.        *)
Barrier1 ==
  /\ step = "relax" /\ Joined1
  /\ BeginLoop("fill", {0})
  /\ UNCHANGED <<kernel, graph, origin, delta, dist, frontier, tails, indexes, iter, bins>>

(* single nowait: the first thread to come does it, the others go on.      *)
EnterSingle(t) ==
  /\ step = "fill"
  /\ Take(t, 0, [at |-> "single"])
  /\ UNCHANGED <<kernel, graph, step, origin, delta, dist, frontier, tails, indexes, iter, bins>>

ResetCurr(t) ==
  /\ thread[t].at = "single"
  /\ indexes' = [indexes EXCEPT ![iter] = MaxBin]
  /\ tails' = [tails EXCEPT ![iter] = 0]
  /\ Goes(t, [at |-> "claim"])
  /\ UNCHANGED <<origin, delta, dist, frontier, iter, bins>>

PassSingle(t) ==
  /\ step = "fill" /\ todo = {} /\ thread[t] = Idle
  /\ Goes(t, [at |-> "claim"])
  /\ UNCHANGED <<origin, delta, dist, frontier, tails, indexes, iter, bins>>

ClaimPlaces(t) ==
  LET b == indexes[Next1]
  IN  /\ thread[t].at = "claim"
      /\ IF b < MaxBin
         THEN /\ tails' = [tails EXCEPT ![Next1] = @ + Len(bins[t][b])]
              /\ Goes(t, [at |-> "copy", base |-> tails[Next1]])
         ELSE Goes(t, [at |-> "joined"]) /\ UNCHANGED tails
      /\ UNCHANGED <<origin, delta, dist, frontier, indexes, iter, bins>>

(* frontier has a place for each edge.                                     *)
Fits(t) == thread[t].base + Len(bins[t][indexes[Next1]]) <= NumEdgesDirected(graph)

CopyBin(t) ==
  LET b == indexes[Next1]
      base == thread[t].base
      mine == base .. base + Len(bins[t][b]) - 1
  IN  /\ thread[t].at = "copy" /\ Fits(t)
      /\ frontier' = [i \in DOMAIN frontier \cup mine |->
                        IF i \in mine THEN bins[t][b][i - base + 1] ELSE frontier[i]]
      /\ bins' = [bins EXCEPT ![t][b] = <<>>]
      /\ Goes(t, [at |-> "joined"])
      /\ UNCHANGED <<origin, delta, dist, tails, indexes, iter>>

(* A copy past the end of frontier, which nothing checks: it may overwrite *)
(* anything, and nothing is said of the program from there on.             *)
Overrun(t) ==
  /\ thread[t].at = "copy" /\ ~Fits(t)
  /\ BeginLoop("overrun", {})
  /\ UNCHANGED <<kernel, graph, origin, delta, dist, frontier, tails, indexes, iter, bins>>

(* iter++, the barrier, and the test of the while loop.                    *)
Barrier2 ==
  /\ step = "fill" /\ Joined1
  /\ iter' = Next1
  /\ IF indexes[Next1] # MaxBin THEN BeginLoop("relax", 0 .. tails[Next1] - 1)
                                ELSE BeginLoop("done", {})
  /\ UNCHANGED <<kernel, graph, origin, delta, dist, frontier, tails, indexes, bins>>

SsspInit ==
  /\ kernel = "sssp"
  /\ graph \in Graphs
  /\ origin \in {n \in Node : graph.out[n] # <<>>}  \* SourcePicker
  /\ delta \in Deltas
  /\ dist = [n \in Node |-> IF n = origin THEN 0 ELSE DistInf]
  /\ frontier = [i \in {0} |-> origin]
  /\ tails = [i \in 0 .. 1 |-> IF i = 0 THEN 1 ELSE 0]
  /\ indexes = [i \in 0 .. 1 |-> IF i = 0 THEN 0 ELSE MaxBin]
  /\ iter = 0
  /\ bins = [t \in Threads |-> [b \in 0 .. MaxBin - 1 |-> <<>>]]
  /\ step = "relax" /\ todo = {0}
  /\ thread = [t \in Threads |-> Idle]

SsspNext ==
  /\ kernel = "sssp"
  /\ \/ \E t \in Threads :
          \/ \E i \in todo : TakeFrontier(t, i)
          \/ RelaxEdges(t) \/ LeaveLoop(t) \/ Fuse(t) \/ Vote(t)
          \/ EnterSingle(t) \/ ResetCurr(t) \/ PassSingle(t) \/ ClaimPlaces(t)
          \/ CopyBin(t) \/ Overrun(t)
     \/ Barrier1 \/ Barrier2

SsspSpec == SsspInit /\ [][SsspNext]_ssspVars

SsspFairSpec == SsspSpec /\ WF_ssspVars(SsspNext)

-----------------------------------------------------------------------------
(* SSSPVerifier: the distances of a serial search, here by relaxing every  *)
(* edge N times, and the comparison.                                       *)
Nearest(s) ==
  LET R[k \in 0 .. N] ==
        IF k = 0 THEN [n \in Node |-> IF n = s THEN 0 ELSE DistInf]
        ELSE [n \in Node |->
                LET ways == {R[k - 1][n]} \cup {R[k - 1][u] + Weight[<<u, n>>] : u \in Elems(graph.in[n])}
                IN  CHOOSE d \in ways : \A e \in ways : d <= e]
  IN  R[N]

-----------------------------------------------------------------------------
(* Types of the variables of the kernel.                                   *)
SsspTypeOK ==
  kernel = "sssp" =>
    /\ graph \in Graphs /\ origin \in Node /\ delta \in Deltas
    /\ step \in {"relax", "fill", "done", "overrun"}
    /\ dist \in [Node -> 0 .. DistInf]
    /\ DOMAIN frontier \subseteq Nat /\ \A i \in DOMAIN frontier : frontier[i] \in Node
    /\ tails \in [0 .. 1 -> Nat] /\ indexes \in [0 .. 1 -> 0 .. MaxBin] /\ iter \in 0 .. 1
    /\ bins \in [Threads -> [0 .. MaxBin - 1 -> Seq(Node)]]

(* A round takes its bin only when nothing below it can still improve:     *)
(* at the start of a round every vertex nearer than the bin has its true   *)
(* distance, and every vertex that has a distance it was not expanded with *)
(* waits in a bin or in the frontier, the voted bin being the least        *)
(* (sssp.cc:121-128). Bucket fusion (sssp.cc:113-120) must not break it,   *)
(* nor the votes and tails of two rounds, which share two cells by parity. *)
BinsInOrder ==
  kernel = "sssp" /\ step = "relax" /\ todo = 0 .. tails[iter] - 1 /\
  (\A t \in Threads : thread[t] = Idle) =>
    LET true == Nearest(origin)
    IN  /\ \A v \in Node : true[v] < delta * Curr => dist[v] = true[v]
        /\ \A v \in Node :
             \/ \A w \in Elems(graph.out[v]) : dist[w] <= dist[v] + Weight[<<v, w>>]
             \/ dist[v] \div delta >= Curr
                /\ \/ \E i \in todo : frontier[i] = v
                   \/ \E t \in Threads : v \in Elems(bins[t][dist[v] \div delta])

SSSPVerifier == \A n \in Node : dist[n] = Nearest(origin)[n]

(* The distances returned are those of the serial algorithm (SSSPVerifier, *)
(* sssp.cc:164-194), whatever improvements crossed on their way.           *)
DistancesExact == kernel = "sssp" /\ step = "done" => SSSPVerifier

(* With bins one unit wide a vertex is in a bin once at the most, whatever *)
(* the threads find to improve at the same time, so that the places of     *)
(* frontier (sssp.cc:92) suffice for the claims of each round, the cell of *)
(* the tail being the one the round before the last used. With a larger    *)
(* delta, which -d sets, a vertex that improves several times within a bin *)
(* is in it as often.                                                      *)
FrontierSuffices ==
  kernel = "sssp" /\ delta = 1 =>
    /\ step # "overrun"
    /\ \A t1, t2 \in Threads, b \in 0 .. MaxBin - 1 :
         \A i \in DOMAIN bins[t1][b], j \in DOMAIN bins[t2][b] :
           bins[t1][b][i] = bins[t2][b][j] => t1 = t2 /\ i = j

(* The rounds end, unless a copy ran past the frontier.                    *)
SsspTerminates == kernel = "sssp" ~> step \in {"done", "overrun"}
=============================================================================
