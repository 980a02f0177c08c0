------------------------------ MODULE Brandes -------------------------------
(***************************************************************************)
(* Betweenness centrality (bc.cc): from each picked source a parallel      *)
(* breadth-first search counts the shortest paths and records in the       *)
(* bitmap succ which edges lie on one (PBFS); the levels are then walked   *)
(* back to accumulate dependencies into the scores.                        *)
(***************************************************************************)
EXTENDS Frontier

CONSTANTS NumIters,  \* num_iters
          Scale      \* a score of 1, in the units deltas are counted in: the
                     \* floats of the code, taken as exact

ASSUME BrandesAssumption == NumIters \in Nat \ {0} /\ Scale \in Nat \ {0}

VARIABLES sources,             \* those picked, the last one being worked on
          depths, level,       \* depths[] and depth
          pathCounts, succ,
          depthIndex, back,    \* depth_index, and d of the walk back
          deltas, scores

pathVars == <<depths, level, pathCounts, succ, depthIndex>>
scoreVars == <<sources, back, deltas, scores>>
bcVars == <<teamVars, queueVars, pathVars, scoreVars>>

(* &v - g_out_start for the i-th neighbour of u.                           *)
EdgesBefore == LET S[n \in 0 .. N] == IF n = 0 THEN 0 ELSE S[n - 1] + Len(graph.out[n - 1])
               IN  S
EdgeNumber(u, i) == EdgesBefore[u] + i - 1

-----------------------------------------------------------------------------
(* The body of PBFS's loop, for the i-th neighbour v of u.                 *)
OnEdge(at, u, i, word) == [at |-> at, u |-> u, i |-> i, word |-> word]
NextEdge(u, i) == IF i > Len(graph.out[u]) THEN Idle ELSE OnEdge("readDepth", u, i, {})

TakePathVertex(t, i) ==
  /\ step = "paths"
  /\ Take(t, i, NextEdge(queue.shared[i], 1))
  /\ UNCHANGED <<kernel, graph, step, queueVars, pathVars, scoreVars>>

ReadDepth(t) ==
  LET th == thread[t]
      v == graph.out[th.u][th.i]
  IN  /\ th.at = "readDepth"
      /\ Goes(t, OnEdge(IF depths[v] = -1 THEN "claimDepth" ELSE "testDepth", th.u, th.i, {}))
      /\ UNCHANGED <<queueVars, pathVars, scoreVars>>

ClaimDepth(t) ==
  LET th == thread[t]
      v == graph.out[th.u][th.i]
      next == OnEdge("testDepth", th.u, th.i, {})
  IN  /\ th.at = "claimDepth"
      /\ IF depths[v] = -1
         THEN depths' = [depths EXCEPT ![v] = level] /\ BufferPush(t, v, next)
         ELSE Goes(t, next) /\ UNCHANGED <<depths, buffer>>
      /\ UNCHANGED <<queue, level, pathCounts, succ, depthIndex, scoreVars>>

TestDepth(t) ==
  LET th == thread[t]
  IN  /\ th.at = "testDepth"
      /\ Goes(t, IF depths[graph.out[th.u][th.i]] = level THEN OnEdge("readBits", th.u, th.i, {})
                 ELSE NextEdge(th.u, th.i + 1))
      /\ UNCHANGED <<queueVars, pathVars, scoreVars>>

(* succ.set_bit_atomic.                                                    *)
ReadBits(t) ==
  LET th == thread[t]
  IN  /\ th.at = "readBits"
      /\ Goes(t, OnEdge("swapBits", th.u, th.i, succ \cap Word(EdgeNumber(th.u, th.i))))
      /\ UNCHANGED <<queueVars, pathVars, scoreVars>>

(* Mutated form: set_bit in place of set_bit_atomic.                       *)
StoreBits(t) ==
  LET th == thread[t]
      e == EdgeNumber(th.u, th.i)
  IN  /\ th.at = "swapBits"
      /\ succ' = (succ \ Word(e)) \cup th.word \cup {e}
      /\ Goes(t, OnEdge("addPaths", th.u, th.i, {}))
      /\ UNCHANGED <<queueVars, depths, level, pathCounts, depthIndex, scoreVars>>

SwapBits(t) ==
  LET th == thread[t]
      e == EdgeNumber(th.u, th.i)
  IN  /\ th.at = "swapBits"
      /\ IF succ \cap Word(e) = th.word
         THEN succ' = succ \cup {e} /\ Goes(t, OnEdge("addPaths", th.u, th.i, {}))
         ELSE UNCHANGED succ /\ Goes(t, OnEdge("readBits", th.u, th.i, {}))
      /\ UNCHANGED <<queueVars, depths, level, pathCounts, depthIndex, scoreVars>>

(* The atomic update. path_counts[u] is settled: u is of the last level.   *)
AddPaths(t) ==
  LET th == thread[t]
  IN  /\ th.at = "addPaths"
      /\ pathCounts' = [pathCounts EXCEPT ![graph.out[th.u][th.i]] = @ + pathCounts[th.u]]
      /\ Goes(t, NextEdge(th.u, th.i + 1))
      /\ UNCHANGED <<queueVars, depths, level, succ, depthIndex, scoreVars>>

PBFS(t) ==
  \/ \E i \in todo : TakePathVertex(t, i)
  \/ ReadDepth(t) \/ ClaimDepth(t) \/ TestDepth(t) \/ ReadBits(t) \/ SwapBits(t) \/ AddPaths(t)
  \/ step = "paths" /\ Flush(t) /\ UNCHANGED <<pathVars, scoreVars>>

-----------------------------------------------------------------------------
(* The walk back: u belongs to one iteration, and what it reads of deeper  *)
(* vertices is settled.                                                    *)
Level(d) == depthIndex[d + 1] .. depthIndex[d + 2] - 1

Dependency(u) ==
  LET D[i \in 0 .. Len(graph.out[u])] ==
        IF i = 0 THEN 0
        ELSE LET v == graph.out[u][i]
             IN  D[i - 1] + IF EdgeNumber(u, i) \in succ
                            THEN (pathCounts[u] * (Scale + deltas[v])) \div pathCounts[v]
                            ELSE 0
  IN  D[Len(graph.out[u])]

(* Mutated form: = for +=, so that the last source counts only.            *)
AccumulateLast(i) ==
  LET u == queue.shared[i]
  IN  /\ step = "back" /\ i \in todo
      /\ todo' = todo \ {i}
      /\ deltas' = [deltas EXCEPT ![u] = Dependency(u)]
      /\ scores' = [scores EXCEPT ![u] = Dependency(u)]
      /\ UNCHANGED <<kernel, graph, step, thread, queueVars, pathVars, sources, back>>

Accumulate(i) ==
  LET u == queue.shared[i]
  IN  /\ step = "back" /\ i \in todo
      /\ todo' = todo \ {i}
      /\ deltas' = [deltas EXCEPT ![u] = Dependency(u)]
      /\ scores' = [scores EXCEPT ![u] = @ + Dependency(u)]
      /\ UNCHANGED <<kernel, graph, step, thread, queueVars, pathVars, sources, back>>

-----------------------------------------------------------------------------
(* Brandes: one iteration per source.                                      *)
PickSource(s) ==
  LET first == PushBack(EmptyQueue, s)
      slid == Slide(first)
  IN  /\ step = "pick" /\ Len(sources) < NumIters
      /\ graph.out[s] # <<>>   \* SourcePicker
      /\ sources' = Append(sources, s)
      /\ depths' = [n \in Node |-> IF n = s THEN 0 ELSE -1]
      /\ pathCounts' = [n \in Node |-> IF n = s THEN 1 ELSE 0]
      /\ succ' = {}
      /\ depthIndex' = <<first.start>>
      /\ level' = 1
      /\ queue' = slid
      /\ deltas' = [n \in Node |-> 0]
      /\ BeginLoop("paths", Window(slid))
      /\ UNCHANGED <<kernel, graph, buffer, back, scores>>

(* The single after the barrier; when no vertex was found, the last entry  *)
(* of depth_index and the start of the walk back.                          *)
EndLevel ==
  LET slid == Slide(queue)
      index == Append(depthIndex, queue.start)
  IN  /\ step = "paths" /\ AllJoined
      /\ queue' = slid
      /\ IF QueueEmpty(slid)
         THEN /\ depthIndex' = Append(index, slid.start)
              /\ back' = Len(index) - 1
              /\ BeginLoop("back", queue.start .. slid.start - 1)
              /\ UNCHANGED level
         ELSE /\ depthIndex' = index
              /\ level' = level + 1
              /\ BeginLoop("paths", Window(slid))
              /\ UNCHANGED back
      /\ UNCHANGED <<kernel, graph, buffer, depths, pathCounts, succ, sources, deltas, scores>>

EndBack ==
  /\ step = "back" /\ TeamDone
  /\ IF back = 0
     THEN BeginLoop("pick", {}) /\ UNCHANGED back
     ELSE back' = back - 1 /\ BeginLoop("back", Level(back - 1))
  /\ UNCHANGED <<kernel, graph, queueVars, pathVars, sources, deltas, scores>>

(* What is returned is scores divided by the largest of them.              *)
ReturnScores ==
  /\ step = "pick" /\ Len(sources) = NumIters
  /\ BeginLoop("done", {})
  /\ UNCHANGED <<kernel, graph, queueVars, pathVars, scoreVars>>

BcInit ==
  /\ kernel = "bc"
  /\ graph \in Graphs
  /\ \E n \in Node : graph.out[n] # <<>>
  /\ step = "pick" /\ todo = {}
  /\ thread = [t \in Threads |-> Idle]
  /\ queue = EmptyQueue /\ buffer = [t \in Threads |-> <<>>]
  /\ sources = <<>> /\ depths = [n \in Node |-> -1] /\ level = 0
  /\ pathCounts = [n \in Node |-> 0] /\ succ = {}
  /\ depthIndex = <<>> /\ back = 0
  /\ deltas = [n \in Node |-> 0] /\ scores = [n \in Node |-> 0]

BcNext ==
  /\ kernel = "bc"
  /\ \/ \E t \in Threads : PBFS(t)
     \/ \E i \in todo : Accumulate(i)
     \/ \E s \in Node : PickSource(s)
     \/ EndLevel \/ EndBack \/ ReturnScores

BcSpec == BcInit /\ [][BcNext]_bcVars

BcFairSpec == BcSpec /\ WF_bcVars(BcNext)

-----------------------------------------------------------------------------
(* Reference definitions.                                                  *)
(* The number of shortest paths from s to each vertex s reaches.           *)
ShortestPaths(s) ==
  LET depth == Depth(s)
      Preds(v) == {u \in DOMAIN depth : depth[u] + 1 = depth[v] /\ Edge(graph, u, v)}
      C[k \in 0 .. N] ==  \* the counts of the vertices at depth at most k
        [v \in {x \in DOMAIN depth : depth[x] <= k} |->
           IF v = s THEN 1
           ELSE IF depth[v] < k THEN C[k - 1][v] ELSE SumFunctionOnSet(C[k - 1], Preds(v))]
  IN  C[N]

(* What u is worth to s: for every other vertex t, the share of the        *)
(* shortest paths from s to t that pass u.                                 *)
Worth(s, u) ==
  LET from == ShortestPaths(s)
      onward == ShortestPaths(u)
      far == Depth(s)
      Share(t) == IF t # u /\ t \in DOMAIN onward /\ far[u] + Depth(u)[t] = far[t]
                  THEN (Scale * from[u] * onward[t]) \div from[t] ELSE 0
      S[n \in 0 .. N] == IF n = 0 THEN 0
                         ELSE S[n - 1] + IF n - 1 \in DOMAIN from THEN Share(n - 1) ELSE 0
  IN  IF u \in DOMAIN from THEN S[N] ELSE 0

Expected(u) ==
  LET S[i \in 0 .. Len(sources)] == IF i = 0 THEN 0 ELSE S[i - 1] + Worth(sources[i], u)
  IN  S[Len(sources)]

-----------------------------------------------------------------------------
(* Types of the variables of the kernel.                                   *)
BcTypeOK ==
  kernel = "bc" =>
    /\ graph \in Graphs
    /\ step \in {"pick", "paths", "back", "done"}
    /\ todo \subseteq 0 .. N - 1
    /\ queue.shared \in [0 .. N - 1 -> 0 .. N]
    /\ buffer \in [Threads -> Seq(Node)]
    /\ sources \in Seq(Node) /\ Len(sources) <= NumIters
    /\ depths \in [Node -> -1 .. N] /\ level \in 0 .. N
    /\ pathCounts \in [Node -> Nat] /\ succ \subseteq Nat
    /\ depthIndex \in Seq(0 .. N) /\ back \in Nat
    /\ deltas \in [Node -> Nat] /\ scores \in [Node -> Nat]

(* When the walk back starts, every vertex has its true depth and number   *)
(* of shortest paths, succ holds exactly the edges on one, though threads  *)
(* set bits of a word together (bc.cc:70-80), and every reached vertex is  *)
(* in the queue, in exactly one of the ranges of depth_index (bc.cc:58,    *)
(* 86, 91), with the vertices of its depth.                                *)
PathsCounted ==
  kernel = "bc" /\ step = "back" =>
    LET s == sources[Len(sources)]
        depth == Depth(s)
    IN  /\ \A v \in Node :
             IF v \in DOMAIN depth
             THEN depths[v] = depth[v] /\ pathCounts[v] = ShortestPaths(s)[v]
             ELSE depths[v] = -1
        /\ \A u \in DOMAIN depth : \A i \in DOMAIN graph.out[u] :
             EdgeNumber(u, i) \in succ <=> depth[graph.out[u][i]] = depth[u] + 1
        /\ \A v \in DOMAIN depth :
             \E d \in 0 .. Len(depthIndex) - 2 :
               /\ {queue.shared[i] : i \in Level(d)} = {w \in DOMAIN depth : depth[w] = depth[v]}
               /\ Cardinality(Level(d)) = Cardinality({w \in DOMAIN depth : depth[w] = depth[v]})

(* The scores are the sums over the sources of every vertex's share of the *)
(* shortest paths, computed by BCVerifier (bc.cc:169-230) from the depths  *)
(* alone: nothing of one source leaks into the next although path counts,  *)
(* queue, succ and depth_index are reused (bc.cc:113-116). The largest is  *)
(* positive, so that the division by it (bc.cc:148) is defined.            *)
ScoresExact ==
  kernel = "bc" /\ step = "done" =>
    /\ \A u \in Node : scores[u] = Expected(u)
    /\ \E u \in Node : scores[u] > 0

(* All iterations are done at some time.                                   *)
BcTerminates == kernel = "bc" ~> step = "done"
=============================================================================
