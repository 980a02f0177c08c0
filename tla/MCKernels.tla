------------------------------ MODULE MCKernels -----------------------------
(***************************************************************************)
(* All graph kernels in one run, each on the graphs that are hard for it.  *)
(***************************************************************************)
EXTENDS Kernels, SequencesExt

Ascending(S) == SetToSortSeq(S, <)

Undirected(E) ==
  LET ends == [u \in Node |-> Ascending({v \in Node : <<u, v>> \in E \/ <<v, u>> \in E})]
  IN  [out |-> ends, in |-> ends, directed |-> FALSE]
Directed(E) ==
  [out |-> [u \in Node |-> Ascending({v \in Node : <<u, v>> \in E})],
   in |-> [u \in Node |-> Ascending({v \in Node : <<v, u>> \in E})], directed |-> TRUE]

(* For the components: hooks that meet at a vertex, a component apart, a   *)
(* chain that makes a deep tree, and edges that only the incoming lists    *)
(* show to the lower end.                                                  *)
Meeting == Undirected({<<0, 2>>, <<1, 2>>, <<1, 3>>})
Separate == Undirected({<<0, 3>>, <<1, 3>>})
Chain == Undirected({<<0, 1>>, <<1, 2>>, <<2, 3>>})
Inward == Directed({<<2, 0>>, <<3, 1>>, <<3, 2>>})

(* For the searches: two ways to each vertex of the second level, a chain, *)
(* and a vertex that cannot be reached.                                    *)
Diamond == Undirected({<<0, 1>>, <<0, 2>>, <<1, 3>>, <<2, 3>>, <<3, 4>>})
Fan == Undirected({<<0, 2>>, <<0, 3>>, <<2, 4>>, <<3, 4>>, <<1, 4>>})
OneWay == Directed({<<0, 1>>, <<0, 2>>, <<1, 3>>, <<2, 3>>, <<3, 4>>, <<1, 2>>})
Cyclic == Directed({<<0, 1>>, <<0, 2>>, <<0, 3>>, <<1, 4>>, <<2, 4>>, <<3, 4>>, <<1, 2>>, <<2, 3>>, <<4, 0>>})

(* Bins that outgrow the frontier: 9 edges, and each of the vertices 4 and *)
(* 5 can improve five times before the bin they are in is taken.           *)
Pile == Directed({<<0, 1>>, <<0, 2>>, <<0, 3>>, <<1, 2>>, <<2, 3>>, <<2, 4>>, <<2, 5>>,
                  <<3, 4>>, <<3, 5>>})

(* Two ways of the same length to the vertex 4, from the same bin.         *)
Tied == Directed({<<0, 1>>, <<0, 2>>, <<1, 2>>, <<1, 3>>, <<2, 3>>, <<3, 4>>, <<1, 4>>,
                  <<2, 4>>, <<5, 1>>, <<5, 2>>})

MCGraphs == {Meeting, Separate, Chain, Inward, Diamond, Fan, OneWay, Cyclic, Pile, Tied}

GraphsOf(k) == CASE k \in {"cc", "cc_sv"} -> {Meeting, Separate, Chain, Inward}
                 [] k = "bfs" -> {Chain, Diamond, Fan, OneWay}
                 [] k \in {"pr", "pr_spmv"} -> {Fan, OneWay, Cyclic}
                 [] k = "bc" -> {Diamond, OneWay, Cyclic}
                 [] OTHER -> {Diamond, Cyclic, Pile, Tied}

(* Direct edges that are longer than the ways round them.                  *)
MCWeight ==
  [e \in Node \X Node |-> LET ends == {e[1], e[2]}
                          IN  CASE ends \in {{0, 1}, {1, 2}, {2, 3}} -> 1
                                [] ends = {1, 3} -> 3
                                [] ends = {0, 2} -> 4
                                [] ends \in {{3, 4}, {3, 5}} -> 5
                                [] OTHER -> 7]

(* Each program gets the graphs, and delta, that are hard for it.          *)
MCInit == /\ Init /\ graph \in GraphsOf(kernel)
          /\ kernel = "sssp" => (delta = 8 <=> graph = Pile)

MCSpec == MCInit /\ [][Next]_vars /\ WF_vars(Next)
=============================================================================
