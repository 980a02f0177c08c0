------------------------------ MODULE GapKernel ------------------------------
(***************************************************************************)
(* What the graph kernels the benchmarks run (workload/gapbs) have in      *)
(* common: a graph in CSR form that no kernel changes, and a team of       *)
(* OpenMP threads that share out the iterations of one parallel loop after *)
(* another, with a barrier at the end of each.                             *)
(***************************************************************************)
EXTENDS Naturals, Sequences, FiniteSets, Functions

CONSTANTS N,        \* number of vertices
          Threads,  \* the OpenMP team
          Graphs    \* the graphs a kernel may be given

Node == 0 .. N - 1

(* A graph: out_neigh and in_neigh of each vertex, in the order of the     *)
(* index. An undirected one has one index for both.                        *)
Graph == [out : [Node -> Seq(Node)], in : [Node -> Seq(Node)], directed : BOOLEAN]

Elems(s) == {s[i] : i \in DOMAIN s}

Edge(g, u, v) == v \in Elems(g.out[u])

Inverted(g) == \A u, v \in Node : u \in Elems(g.in[v]) <=> Edge(g, u, v)

(* The builder leaves no neighbour twice in a list (SquishCSR).            *)
NoRepetition(g) == \A n \in Node : IsInjective(g.out[n]) /\ IsInjective(g.in[n])

ASSUME KernelAssumption ==
  /\ N \in Nat \ {0}
  /\ IsFiniteSet(Threads) /\ Threads # {}
  /\ \A g \in Graphs : /\ g \in Graph
                       /\ Inverted(g) /\ NoRepetition(g)
                       /\ ~g.directed => g.in = g.out

NumEdgesDirected(g) == SumFunctionOnSet([n \in Node |-> Len(g.out[n])], Node)

VARIABLES kernel,  \* which of the binaries runs
          graph,   \* the graph it was given
          step,    \* the parallel loop, or the place between two, it is at
          todo,    \* iterations of that loop no thread has taken yet
          thread   \* what each thread knows

teamVars == <<kernel, graph, step, todo, thread>>

Idle == [at |-> "idle"]

(* The implicit barrier at the end of a parallel loop.                     *)
TeamDone == todo = {} /\ \A t \in Threads : thread[t] = Idle

BeginLoop(name, iterations) ==
  /\ step' = name
  /\ todo' = iterations
  /\ thread' = [t \in Threads |-> Idle]

(* Thread t takes iteration i. Whatever the schedule clause, it hands an   *)
(* iteration to one thread only; which, and in what order, is left open.   *)
Take(t, i, begun) ==
  /\ thread[t] = Idle
  /\ i \in todo
  /\ todo' = todo \ {i}
  /\ thread' = [thread EXCEPT ![t] = begun]

(* Thread t goes on inside its iteration.                                  *)
Goes(t, next) ==
  /\ thread' = [thread EXCEPT ![t] = next]
  /\ UNCHANGED <<kernel, graph, step, todo>>

Larger(a, b) == IF a > b THEN a ELSE b
Smaller(a, b) == IF a > b THEN b ELSE a
=============================================================================
