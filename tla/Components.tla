----------------------------- MODULE Components -----------------------------
(***************************************************************************)
(* The two connected-components kernels: Afforest (cc.cc) and              *)
(* Shiloach-Vishkin (cc_sv.cc). Both keep in comp a forest of pointers to  *)
(* lower vertices that all threads read and write; Afforest hooks with a   *)
(* compare-and-swap, Shiloach-Vishkin with a plain store and another       *)
(* iteration. Every access to a shared element of comp is a step.          *)
(***************************************************************************)
EXTENDS GapKernel

CONSTANT NeighborRounds  \* neighbor_rounds of Afforest

ASSUME RoundsAssumption == NeighborRounds \in Nat

VARIABLES comp,    \* the pointer of each vertex
          round,   \* r of Afforest's sampling loop
          skipped, \* c: the component Afforest leaves out at the end
          change   \* Shiloach-Vishkin: was anything hooked?

ccVars == <<teamVars, comp, round, skipped, change>>

AfforestSteps == {"sample", "compress", "pick", "finish", "final", "done"}
SVSteps == {"hook", "shortcut", "done"}

-----------------------------------------------------------------------------
(* Link(u, v, comp): at is the next access; hi and lo, the higher and the  *)
(* lower of p1 and p2, are recomputed rather than kept.                    *)
Linking(at, u, rest, p1, p2) ==
  [at |-> at, u |-> u, rest |-> rest, p1 |-> p1, p2 |-> p2]

(* The next neighbour is linked; when none is left the iteration is over.  *)
NextLink(u, rest) == IF rest = <<>> THEN Idle ELSE Linking("readU", u, rest, u, u)

Hi(th) == Larger(th.p1, th.p2)
Lo(th) == Smaller(th.p1, th.p2)

(* The loop test of Link: go on only while the two roots differ.           *)
Tested(th) == IF th.p1 = th.p2 THEN NextLink(th.u, Tail(th.rest))
              ELSE [th EXCEPT !.at = "readHigh"]

ReadU(t) ==
  /\ thread[t].at = "readU"
  /\ Goes(t, [thread[t] EXCEPT !.at = "readV", !.p1 = comp[thread[t].u]])
  /\ UNCHANGED <<comp, round, skipped, change>>

ReadV(t) ==
  /\ thread[t].at = "readV"
  /\ Goes(t, Tested([thread[t] EXCEPT !.p2 = comp[Head(thread[t].rest)]]))
  /\ UNCHANGED <<comp, round, skipped, change>>

ReadHigh(t) ==
  LET th == thread[t]
      p_high == comp[Hi(th)]
  IN  /\ th.at = "readHigh"
      /\ Goes(t, CASE p_high = Lo(th) -> NextLink(th.u, Tail(th.rest))
                   [] p_high # Lo(th) /\ p_high = Hi(th) -> [th EXCEPT !.at = "cas"]
                   [] OTHER -> [th EXCEPT !.at = "climb"])
      /\ UNCHANGED <<comp, round, skipped, change>>

(* Mutated form: a plain store.                                            *)
StoreRoot(t) ==
  LET th == thread[t]
  IN  /\ th.at = "cas"
      /\ comp' = [comp EXCEPT ![Hi(th)] = Lo(th)]
      /\ Goes(t, NextLink(th.u, Tail(th.rest)))
      /\ UNCHANGED <<round, skipped, change>>

CompareAndSwap(t) ==
  LET th == thread[t]
      won == comp[Hi(th)] = Hi(th)
  IN  /\ th.at = "cas"
      /\ comp' = IF won THEN [comp EXCEPT ![Hi(th)] = Lo(th)] ELSE comp
      /\ Goes(t, IF won THEN NextLink(th.u, Tail(th.rest))
                 ELSE [th EXCEPT !.at = "climb"])
      /\ UNCHANGED <<round, skipped, change>>

(* p1 = comp[comp[high]]; p2 = comp[low]: three reads, of which the first  *)
(* replaces the higher root and the second the value read.                 *)
Climb(t) ==
  LET th == thread[t]
  IN  /\ th.at = "climb"
      /\ Goes(t, [th EXCEPT !.at = "climbOn", !.p1 = comp[Hi(th)], !.p2 = Lo(th)])
      /\ UNCHANGED <<comp, round, skipped, change>>

ClimbOn(t) ==
  /\ thread[t].at = "climbOn"
  /\ Goes(t, [thread[t] EXCEPT !.at = "climbLow", !.p1 = comp[thread[t].p1]])
  /\ UNCHANGED <<comp, round, skipped, change>>

ClimbLow(t) ==
  /\ thread[t].at = "climbLow"
  /\ Goes(t, Tested([thread[t] EXCEPT !.p2 = comp[thread[t].p2]]))
  /\ UNCHANGED <<comp, round, skipped, change>>

Link(t) == \/ ReadU(t) \/ ReadV(t) \/ ReadHigh(t) \/ CompareAndSwap(t)
           \/ Climb(t) \/ ClimbOn(t) \/ ClimbLow(t)

-----------------------------------------------------------------------------
(* Compress, and the second loop of ShiloachVishkin, which is the same:    *)
(* while (comp[n] != comp[comp[n]]) comp[n] = comp[comp[n]]. Only this     *)
(* iteration writes comp[n]; what it points to may move between the reads. *)
Shortening(at, n, up) == [at |-> at, n |-> n, up |-> up]

TakeShort(t, n) ==
  /\ step \in {"compress", "final", "shortcut"}
  /\ Take(t, n, Shortening("test", n, n))
  /\ UNCHANGED <<kernel, graph, step, comp, round, skipped, change>>

Test(t) ==
  LET n == thread[t].n
  IN  /\ thread[t].at = "test"
      /\ Goes(t, IF comp[n] = comp[comp[n]] THEN Idle ELSE Shortening("reread", n, n))
      /\ UNCHANGED <<comp, round, skipped, change>>

Reread(t) ==
  LET n == thread[t].n
  IN  /\ thread[t].at = "reread"
      /\ Goes(t, Shortening("write", n, comp[comp[n]]))
      /\ UNCHANGED <<comp, round, skipped, change>>

Write(t) ==
  LET th == thread[t]
  IN  /\ th.at = "write"
      /\ comp' = [comp EXCEPT ![th.n] = th.up]
      /\ Goes(t, Shortening("test", th.n, th.n))
      /\ UNCHANGED <<round, skipped, change>>

Compress(t) == (\E n \in todo : TakeShort(t, n)) \/ Test(t) \/ Reread(t) \/ Write(t)

-----------------------------------------------------------------------------
(* Afforest.                                                               *)

(* The neighbour at offset r, if there is one.                             *)
Sampled(u) == LET s == graph.out[u]
              IN  IF round < Len(s) THEN <<s[round + 1]>> ELSE <<>>

(* Mutated form: incoming neighbours of a directed graph are forgotten.    *)
RemainingOutgoing(u) == SubSeq(graph.out[u], NeighborRounds + 1, Len(graph.out[u]))

(* What the sampling rounds left: the rest of the out-neighbours, and in a *)
(* directed graph all in-neighbours.                                       *)
Remaining(u) ==
  LET s == graph.out[u]
  IN  SubSeq(s, NeighborRounds + 1, Len(s)) \o
        (IF graph.directed THEN graph.in[u] ELSE <<>>)

TakeSample(t, u) ==
  /\ step = "sample"
  /\ Take(t, u, NextLink(u, Sampled(u)))
  /\ UNCHANGED <<kernel, graph, step, comp, round, skipped, change>>

TakeFinish(t, u) ==
  /\ step = "finish"
  /\ Take(t, u, NextLink(u, IF comp[u] = skipped THEN <<>> ELSE Remaining(u)))
  /\ UNCHANGED <<kernel, graph, step, comp, round, skipped, change>>

EndSample ==
  /\ step = "sample" /\ TeamDone
  /\ BeginLoop("compress", Node)
  /\ UNCHANGED <<kernel, graph, comp, round, skipped, change>>

EndCompress ==
  /\ step = "compress" /\ TeamDone
  /\ round' = round + 1
  /\ IF round + 1 < NeighborRounds THEN BeginLoop("sample", Node)
     ELSE BeginLoop("pick", {})
  /\ UNCHANGED <<kernel, graph, comp, skipped, change>>

(* SampleFrequentElement draws at random, so it may return the label of    *)
(* any vertex.                                                             *)
Pick ==
  /\ step = "pick"
  /\ \E n \in Node : skipped' = comp[n]
  /\ BeginLoop("finish", Node)
  /\ UNCHANGED <<kernel, graph, comp, round, change>>

EndFinish ==
  /\ step = "finish" /\ TeamDone
  /\ BeginLoop("final", Node)
  /\ UNCHANGED <<kernel, graph, comp, round, skipped, change>>

EndFinal ==
  /\ step = "final" /\ TeamDone
  /\ BeginLoop("done", {})
  /\ UNCHANGED <<kernel, graph, comp, round, skipped, change>>

Afforest ==
  /\ kernel = "cc"
  /\ \/ \E t \in Threads : \/ \E u \in todo : TakeSample(t, u) \/ TakeFinish(t, u)
                           \/ Link(t) \/ Compress(t)
     \/ EndSample \/ EndCompress \/ Pick \/ EndFinish \/ EndFinal

-----------------------------------------------------------------------------
(* Shiloach-Vishkin: one pass over the edges, each with three reads and a  *)
(* store that nothing protects, then the shortcut loop, until a pass       *)
(* hooked nothing.                                                         *)
Hooking(at, u, rest, p1, p2) == Linking(at, u, rest, p1, p2)
NextHook(u, rest) == IF rest = <<>> THEN Idle ELSE Hooking("hookU", u, rest, u, u)

TakeHook(t, u) ==
  /\ step = "hook"
  /\ Take(t, u, NextHook(u, graph.out[u]))
  /\ UNCHANGED <<kernel, graph, step, comp, round, skipped, change>>

HookU(t) ==
  /\ thread[t].at = "hookU"
  /\ Goes(t, [thread[t] EXCEPT !.at = "hookV", !.p1 = comp[thread[t].u]])
  /\ UNCHANGED <<comp, round, skipped, change>>

HookV(t) ==
  LET th == thread[t]
      p2 == comp[Head(th.rest)]
  IN  /\ th.at = "hookV"
      /\ Goes(t, IF th.p1 = p2 THEN NextHook(th.u, Tail(th.rest))
                 ELSE [th EXCEPT !.at = "hookTest", !.p2 = p2])
      /\ UNCHANGED <<comp, round, skipped, change>>

HookTest(t) ==
  LET th == thread[t]
  IN  /\ th.at = "hookTest"
      /\ Goes(t, IF comp[Hi(th)] = Hi(th) THEN [th EXCEPT !.at = "hookWrite"]
                 ELSE NextHook(th.u, Tail(th.rest)))
      /\ UNCHANGED <<comp, round, skipped, change>>

(* Mutated form: the lower root is hooked to the higher one.               *)
HookWriteUp(t) ==
  LET th == thread[t]
  IN  /\ th.at = "hookWrite"
      /\ change' = TRUE
      /\ comp' = [comp EXCEPT ![Lo(th)] = Hi(th)]
      /\ Goes(t, NextHook(th.u, Tail(th.rest)))
      /\ UNCHANGED <<round, skipped>>

HookWrite(t) ==
  LET th == thread[t]
  IN  /\ th.at = "hookWrite"
      /\ change' = TRUE
      /\ comp' = [comp EXCEPT ![Hi(th)] = Lo(th)]
      /\ Goes(t, NextHook(th.u, Tail(th.rest)))
      /\ UNCHANGED <<round, skipped>>

EndHook ==
  /\ step = "hook" /\ TeamDone
  /\ BeginLoop("shortcut", Node)
  /\ UNCHANGED <<kernel, graph, comp, round, skipped, change>>

(* Mutated form: change is not reset.                                      *)
EndShortcutChanged ==
  /\ step = "shortcut" /\ TeamDone
  /\ IF change THEN BeginLoop("hook", Node) ELSE BeginLoop("done", {})
  /\ UNCHANGED <<kernel, graph, comp, round, skipped, change>>

EndShortcut ==
  /\ step = "shortcut" /\ TeamDone
  /\ IF change THEN BeginLoop("hook", Node) ELSE BeginLoop("done", {})
  /\ change' = FALSE
  /\ UNCHANGED <<kernel, graph, comp, round, skipped>>

ShiloachVishkin ==
  /\ kernel = "cc_sv"
  /\ \/ \E t \in Threads : \/ \E u \in todo : TakeHook(t, u)
                           \/ HookU(t) \/ HookV(t) \/ HookTest(t) \/ HookWrite(t)
                           \/ Compress(t)
     \/ EndHook \/ EndShortcut

-----------------------------------------------------------------------------
CcInit ==
  /\ kernel \in {"cc", "cc_sv"}
  /\ graph \in Graphs
  /\ step = IF kernel = "cc_sv" THEN "hook"
            ELSE IF NeighborRounds = 0 THEN "pick" ELSE "sample"
  /\ todo = IF step = "pick" THEN {} ELSE Node
  /\ thread = [t \in Threads |-> Idle]
  /\ comp = [n \in Node |-> n]
  /\ round = 0 /\ skipped = 0 /\ change = FALSE

CcNext == Afforest \/ ShiloachVishkin

CcSpec == CcInit /\ [][CcNext]_ccVars

(* A thread that is not stopped gets on, and the barrier opens once all    *)
(* have arrived.                                                           *)
CcFairSpec == CcSpec /\ WF_ccVars(CcNext)

-----------------------------------------------------------------------------
(* What connected means: no set closed under the edges, in either          *)
(* direction, separates the two.                                           *)
Closed(S) ==
  \A u \in S : Elems(graph.out[u]) \subseteq S /\ Elems(graph.in[u]) \subseteq S

Connected(u, v) == \A S \in SUBSET Node : u \in S /\ Closed(S) => v \in S

LinkPlaces == {"readU", "readV", "readHigh", "cas", "climb", "climbOn", "climbLow",
               "hookU", "hookV", "hookTest", "hookWrite"}

ThreadStates ==
  {Idle}
    \cup [at : LinkPlaces, u : Node, rest : Seq(Node), p1 : Node, p2 : Node]
    \cup [at : {"test", "reread", "write"}, n : Node, up : Node]

(* Types of the variables of the components kernels.                       *)
CcTypeOK ==
  kernel \in {"cc", "cc_sv"} =>
    /\ graph \in Graphs
    /\ step \in AfforestSteps \cup SVSteps
    /\ todo \subseteq Node
    /\ thread \in [Threads -> ThreadStates]
    /\ comp \in [Node -> Node]
    /\ round \in Nat /\ skipped \in Node /\ change \in BOOLEAN

(* Whatever the threads interleave, a vertex points to a vertex of its own *)
(* component, and never to a higher one: the pointers are a forest. Hooks  *)
(* decided on roots read earlier (cc.cc:44-54, cc_sv.cc:61-71) and pointers *)
(* shortened while they move (cc.cc:61-65) keep this.                      *)
PointsWithin ==
  kernel \in {"cc", "cc_sv"} =>
    \A n \in Node : comp[n] <= n /\ Connected(n, comp[n])

(* CCVerifier: a search from one vertex of each label, the last, meets no  *)
(* other label, and together the searches visit every vertex.              *)
Adjacent(u) == Elems(graph.out[u]) \cup IF graph.directed THEN Elems(graph.in[u]) ELSE {}

SearchedFrom(source) ==
  LET V[k \in 0 .. N] == IF k = 0 THEN {source} ELSE V[k - 1] \cup UNION {Adjacent(u) : u \in V[k - 1]}
  IN  V[N]

CCVerifier ==
  LET sources == {n \in Node : \A m \in Node : comp[m] = comp[n] => m <= n}
  IN  /\ \A s \in sources : \A v \in SearchedFrom(s) : comp[v] = comp[s]
      /\ UNION {SearchedFrom(s) : s \in sources} = Node

(* Pointers stay within; after a compression, during which other threads'  *)
(* trees were being shortened, every tree has depth 1, as the comments of  *)
(* cc.cc:58 and cc.cc:118-119 say; and the answer passes CCVerifier        *)
(* (cc.cc:177-217), whatever the schedule was: one label for each          *)
(* component and no two components with one label, although Afforest never *)
(* looks at the edges of the component it skips and Shiloach-Vishkin       *)
(* overwrites hooks of other threads.                                      *)
LabelsComponents ==
  kernel \in {"cc", "cc_sv"} =>
    /\ PointsWithin
    /\ step \in {"pick", "done"} \/ (step \in {"sample", "hook"} /\ todo = Node) =>
         \A n \in Node : comp[comp[n]] = comp[n]
    /\ step = "done" => CCVerifier

(* The trees of the forest.                                                *)
RootOf(pointers) ==
  LET R[n \in Node] == IF pointers[n] < n THEN R[pointers[n]] ELSE n
  IN  R

Root == RootOf(comp)
Trees == {{m \in Node : Root[m] = r} : r \in {Root[n] : n \in Node}}

Merged == INSTANCE Merging WITH
  Vertices <- Node,
  adjacent <- {e \in Node \X Node : Edge(graph, e[1], e[2])},
  classes <- IF kernel = "cc" THEN Trees ELSE {{n} : n \in Node},
  done <- kernel = "cc" /\ step = "done"

(* Afforest implements Merging, with the trees for the classes: a hook     *)
(* joins exactly two trees along an edge (cc.cc:44-54), compression, which *)
(* runs in parallel with itself, changes no tree (cc.cc:61-65), and the    *)
(* kernel returns with one tree per component. Shiloach-Vishkin does not   *)
(* implement it: its plain stores take trees apart again.                  *)
UnitesTrees == Merged!Spec

(* Both kernels return: Link's retries and the outer loop of               *)
(* Shiloach-Vishkin end, as every failed attempt moved on to lower roots.  *)
CcTerminates == kernel \in {"cc", "cc_sv"} ~> step = "done"

-----------------------------------------------------------------------------
(* The invariant behind UnitesTrees, for Afforest.                         *)
SameTree(u, v) == Root[u] = Root[v]

LinkAt == {"readU", "readV", "readHigh", "cas", "climb", "climbOn", "climbLow"}
ShortAt == {"test", "reread", "write"}

(* The neighbours the present loop, or the one just ended, has to link u   *)
(* to.                                                                     *)
Owed(u) == Elems(IF step \in {"sample", "compress"} THEN Sampled(u) ELSE Remaining(u))

(* One of two pointers is in the tree of each end of the edge from u to v. *)
AtEnds(p1, p2, u, v) == \/ SameTree(p1, u) /\ SameTree(p2, v)
                        \/ SameTree(p2, u) /\ SameTree(p1, v)

(* What a linking thread knows of its edge; and the neighbours it owes are *)
(* linked or still to come.                                                *)
LinksEnds(th) ==
  /\ Elems(th.rest) \subseteq Elems(graph.out[th.u]) \cup Elems(graph.in[th.u])
  /\ \A w \in Owed(th.u) : SameTree(th.u, w) \/ w \in Elems(th.rest)
  /\ th.at = "readV" => SameTree(th.p1, th.u)
  /\ th.at \in LinkAt \ {"readU", "readV"} => AtEnds(th.p1, th.p2, th.u, Head(th.rest))
  /\ th.at \in {"readHigh", "cas"} => th.p1 # th.p2

(* A pointer that is shortened is no root's, and stays in its tree.        *)
ShortensWithin(th) ==
  /\ th.at = "reread" => comp[th.n] < th.n
  /\ th.at = "write" => th.up < th.n /\ SameTree(th.up, th.n)

Working(u) ==
  step \in {"sample", "finish"} /\
  (u \in todo \/ \E t \in Threads : thread[t] # Idle /\ thread[t].u = u)

Settled(u) == \/ \A w \in Owed(u) : SameTree(u, w)
              \/ step \in {"finish", "final"} /\ SameTree(u, skipped)

TreeInv ==
  kernel = "cc" =>
    /\ step \in AfforestSteps
    /\ IF step \in {"sample", "compress"} THEN round < NeighborRounds ELSE round = NeighborRounds
    /\ \A t \in Threads :
         \/ thread[t] = Idle
         \/ /\ step \in {"sample", "finish"}
            /\ thread[t].at \in LinkAt
            /\ LinksEnds(thread[t])
         \/ /\ step \in {"compress", "final"}
            /\ thread[t].at \in ShortAt
            /\ ShortensWithin(thread[t])
    /\ \A u \in Node : \A i \in DOMAIN graph.out[u] :
         i <= round => SameTree(u, graph.out[u][i])
    /\ step \notin {"pick", "done"} => \A u \in Node : Working(u) \/ Settled(u)
=============================================================================
