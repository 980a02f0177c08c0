------------------------------ MODULE PageRank ------------------------------
(***************************************************************************)
(* PageRank: pr.cc, where a new contribution is visible at once to the     *)
(* threads that read it in the same iteration, and pr_spmv.cc, which       *)
(* computes all contributions before. Scores are counted in small units,   *)
(* and what a float rounds off is rounded down.                            *)
(***************************************************************************)
EXTENDS GapKernel, Integers

CONSTANTS One,               \* a score of 1
          DampNum, DampDen,  \* kDamp
          MaxIters, Epsilon, \* the tolerance, in units
          PullChunk          \* of schedule(dynamic, 16384)

ASSUME PageRankAssumption ==
  /\ One \in Nat \ {0} /\ DampDen \in Nat \ {0} /\ DampNum \in 0 .. DampDen - 1
  /\ MaxIters \in Nat \ {0} /\ Epsilon \in Nat /\ PullChunk \in Nat \ {0}

VARIABLES ranks,    \* scores
          contrib,  \* outgoing_contrib
          error,
          turn      \* iter

prVars == <<teamVars, ranks, contrib, error, turn>>

Infinite == -1  \* a score divided by an out-degree of zero

Outgoing(n, score) == IF graph.out[n] = <<>> THEN Infinite ELSE score \div Len(graph.out[n])

Base == (One * (DampDen - DampNum)) \div (DampDen * N)
Damped(total) == Base + (DampNum * total) \div DampDen
Apart(a, b) == IF a > b THEN a - b ELSE b - a

-----------------------------------------------------------------------------
(* The loop over the vertices. A thread takes a chunk of them, and goes    *)
(* through it in order.                                                    *)
Pulling(at, u, rest, total) == [at |-> at, u |-> u, rest |-> rest, total |-> total]
NextIn(u, rest, total) == Pulling(IF rest = <<>> THEN "store" ELSE "pull", u, rest, total)

FirstOfChunks == {u \in Node : u % PullChunk = 0}

(* Mutated form: the first vertex of a chunk pulls along its outgoing edges. *)
TakePullOutgoing(t, u) ==
  /\ step = "pull"
  /\ Take(t, u, NextIn(u, graph.out[u], 0))
  /\ UNCHANGED <<kernel, graph, step, ranks, contrib, error, turn>>

TakePull(t, u) ==
  /\ step = "pull"
  /\ Take(t, u, NextIn(u, graph.in[u], 0))
  /\ UNCHANGED <<kernel, graph, step, ranks, contrib, error, turn>>

Pull(t) ==
  LET th == thread[t]
  IN  /\ th.at = "pull"
      /\ Goes(t, NextIn(th.u, Tail(th.rest), th.total + contrib[Head(th.rest)]))
      /\ UNCHANGED <<ranks, contrib, error, turn>>

(* Nobody else reads scores[u] in the loop; outgoing_contrib[u] changes in *)
(* pr.cc only.                                                             *)
StoreRank(t) ==
  LET u == thread[t].u
      score == Damped(thread[t].total)
      more == u + 1 \in Node \ FirstOfChunks
  IN  /\ thread[t].at = "store"
      /\ ranks' = [ranks EXCEPT ![u] = score]
      /\ error' = error + Apart(score, ranks[u])
      /\ contrib' = IF kernel = "pr" THEN [contrib EXCEPT ![u] = Outgoing(u, score)] ELSE contrib
      /\ Goes(t, IF more THEN NextIn(u + 1, graph.in[u + 1], 0) ELSE Idle)
      /\ UNCHANGED turn

(* The loop of pr_spmv.cc that computes the contributions.                 *)
Contribute(n) ==
  /\ step = "contribute" /\ n \in todo
  /\ todo' = todo \ {n}
  /\ contrib' = [contrib EXCEPT ![n] = Outgoing(n, ranks[n])]
  /\ UNCHANGED <<kernel, graph, step, thread, ranks, error, turn>>

EndContribute ==
  /\ step = "contribute" /\ TeamDone
  /\ BeginLoop("pull", FirstOfChunks)
  /\ UNCHANGED <<kernel, graph, ranks, contrib, error, turn>>

FirstLoop == IF kernel = "pr" THEN "pull" ELSE "contribute"
FirstTodo == IF kernel = "pr" THEN FirstOfChunks ELSE Node

EndIteration ==
  /\ step = "pull" /\ TeamDone
  /\ IF error < Epsilon \/ turn + 1 = MaxIters
     THEN BeginLoop("done", {}) /\ UNCHANGED <<error, turn>>
     ELSE BeginLoop(FirstLoop, FirstTodo) /\ error' = 0 /\ turn' = turn + 1
  /\ UNCHANGED <<kernel, graph, ranks, contrib>>

PrInit ==
  /\ kernel \in {"pr", "pr_spmv"}
  /\ graph \in Graphs
  /\ ranks = [n \in Node |-> One \div N]
  /\ contrib = [n \in Node |-> IF kernel = "pr" THEN Outgoing(n, One \div N) ELSE 0]
  /\ error = 0 /\ turn = 0
  /\ step = FirstLoop /\ todo = FirstTodo
  /\ thread = [t \in Threads |-> Idle]

PrNext ==
  /\ kernel \in {"pr", "pr_spmv"}
  /\ \/ \E t \in Threads : (\E u \in todo : TakePull(t, u)) \/ Pull(t) \/ StoreRank(t)
     \/ \E n \in todo : Contribute(n)
     \/ EndContribute \/ EndIteration

PrSpec == PrInit /\ [][PrNext]_prVars

PrFairSpec == PrSpec /\ WF_prVars(PrNext)

-----------------------------------------------------------------------------
(* PRVerifier: the error of one more iteration, all of it from the scores  *)
(* returned.                                                               *)
VerifierError ==
  LET Incoming(n) ==
        SumFunctionOnSet([u \in Node |-> IF Edge(graph, u, n) THEN Outgoing(u, ranks[u]) ELSE 0], Node)
  IN  SumFunctionOnSet([n \in Node |-> Apart(Damped(Incoming(n)), ranks[n])], Node)

(* num_edges_directed: each contribution is rounded by less than a unit.   *)
Rounding == NumEdgesDirected(graph)

(* Types of the variables of the kernels; in particular no total takes in  *)
(* the infinite contribution of a vertex without outgoing edges.           *)
PrTypeOK ==
  kernel \in {"pr", "pr_spmv"} =>
    /\ graph \in Graphs /\ step \in {"contribute", "pull", "done"} /\ todo \subseteq Node
    /\ ranks \in [Node -> Nat] /\ contrib \in [Node -> Nat \cup {Infinite}]
    /\ \A t \in Threads :
         thread[t].at = "pull" => /\ thread[t].total \in Nat
                                  /\ contrib[Head(thread[t].rest)] # Infinite
    /\ error \in Nat /\ turn \in 0 .. MaxIters - 1

(* Scores that were returned because the change fell below the tolerance   *)
(* pass the verifier with the same tolerance (pr.cc:98-107), up to what is *)
(* rounded off, although a vertex of pr.cc sums contributions of this      *)
(* iteration and of the last, as the other threads happen to have got on   *)
(* (pr.cc:48-53): each of them is at most damped by kDamp.                 *)
ToleranceVerifies ==
  kernel \in {"pr", "pr_spmv"} /\ step = "done" /\ error < Epsilon =>
    VerifierError < Epsilon + Rounding

(* The iterations end, at max_iters at the latest.                         *)
PrTerminates == kernel \in {"pr", "pr_spmv"} ~> step = "done"
=============================================================================
