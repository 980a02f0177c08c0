---------------------------- MODULE GraphBuilder ----------------------------
(***************************************************************************)
(* From a list of edges to a graph in CSR form (builder.h): the two-pass   *)
(* builder, whose threads share the offsets, with the squish that follows  *)
(* it; the in-place builder (-m), which writes the neighbours over the     *)
(* list; and what the triangle counter (tc.cc) does with the result.       *)
(***************************************************************************)
EXTENDS Integers, Sequences, FiniteSets, Functions

CONSTANTS Threads,
          Inputs,    \* edge lists with the options -s and -m
          BlockSize  \* block_size of ParallelPrefixSum

(* An edge (u, v) of weight w; unweighted ones have weight 1, as           *)
(* NodeWeight(v) does, and only they can be built in place.                *)
InputEdge == [u : Nat, v : Nat, w : Nat \ {0}]

ASSUME BuilderAssumption ==
  /\ IsFiniteSet(Threads) /\ Threads # {}
  /\ BlockSize \in Nat \ {0}
  /\ \A i \in Inputs : /\ i \in [el : Seq(InputEdge), symmetrize : BOOLEAN, inPlace : BOOLEAN]
                       /\ i.el # <<>>
                       /\ i.inPlace => \A k \in DOMAIN i.el : i.el[k].w = 1

VARIABLES input, numNodes,
          stage,      \* where MakeGraph, and then tc, is
          todo, thread,
          side,       \* "out", or "in" where transpose holds
          offsets, neighs, needed,  \* those of the pass, invs_needed
          csr,        \* the index and neighbours finished for each side
          triangles   \* what OrderedCount returned

builderVars == <<input, numNodes, stage, todo, thread, side, offsets, neighs, needed, csr, triangles>>

Vertex == 0 .. numNodes - 1
Idle == [at |-> "idle"]
Empty == [index |-> <<>>, neighs |-> <<>>]

Least(S) == CHOOSE x \in S : \A y \in S : x <= y

(* What the library sorts and drops, without SortSeq and SelectSeq, which  *)
(* the prover cannot look into. Sorted: less has the pairs of places of s  *)
(* at which the first element goes before the second. Kept: the elements   *)
(* at the places in S, in their order.                                     *)
Sorted(s, less) ==
  LET Ahead(k) == {j \in DOMAIN s : <<j, k>> \in less \/ (<<k, j>> \notin less /\ j < k)}
      rank == [k \in DOMAIN s |-> Cardinality(Ahead(k))]
  IN  [i \in DOMAIN s |-> s[CHOOSE k \in DOMAIN s : rank[k] = i - 1]]

Nth(S, i) == CHOOSE x \in S : Cardinality({y \in S : y < x}) = i - 1
Kept(s, S) == [i \in 1 .. Cardinality(S) |-> s[Nth(S, i)]]

-----------------------------------------------------------------------------
(* CSRGraph. A neighbour is its vertex and weight; the operators of        *)
(* NodeWeight order by both and compare by the vertex alone.               *)
Dest(v, w) == [v |-> v, w |-> w]
Before(a, b) == IF a.v = b.v THEN a.w < b.w ELSE a.v < b.v

Span(g, n) == g.index[n] .. g.index[n + 1] - 1
Neigh(g, n) == [i \in 1 .. g.index[n + 1] - g.index[n] |-> g.neighs[g.index[n] + i - 1]]

(* ParallelPrefixSum: sums of blocks, their prefix sums, and the sums      *)
(* within each block.                                                      *)
ParallelPrefixSum(degrees) ==
  LET size == numNodes
      Block(b) == {i \in 0 .. size - 1 : i \div BlockSize = b}
      blocks == {i \div BlockSize : i \in 0 .. size - 1}
      local == [b \in blocks |-> SumFunctionOnSet(degrees, Block(b))]
      bulk == [b \in blocks \cup {Cardinality(blocks)} |-> SumFunctionOnSet(local, {c \in blocks : c < b})]
  IN  [i \in 0 .. size |->
         IF i = size THEN bulk[Cardinality(blocks)]
         ELSE bulk[i \div BlockSize] + SumFunctionOnSet(degrees, {j \in Block(i \div BlockSize) : j < i})]

(* Offsets, GenIndex and the copy of given lists, one per vertex.          *)
Layout(lists) ==
  LET index == ParallelPrefixSum([n \in Vertex |-> Len(lists[n])])
      Owner(p) == CHOOSE n \in Vertex : p \in index[n] .. index[n + 1] - 1
  IN  [index |-> index,
       neighs |-> [p \in 0 .. index[numNodes] - 1 |-> lists[Owner(p)][p - index[Owner(p)] + 1]]]

-----------------------------------------------------------------------------
(* SquishCSR: sort, keep the first of equal neighbours, drop self loops.   *)
SortedList(s) ==
  Sorted(s, {p \in (DOMAIN s) \X (DOMAIN s) : Before(s[p[1]], s[p[2]])})

Squished(g, n) ==
  LET s == SortedList(Neigh(g, n))
  IN  Kept(s, {i \in DOMAIN s : (i > 1 => s[i - 1].v # s[i].v) /\ s[i].v # n})

SquishCSR(g) == Layout([n \in Vertex |-> Squished(g, n)])

-----------------------------------------------------------------------------
(* CountDegrees: atomic increments, so that their order does not matter.   *)
CountDegrees(el, transpose) ==
  LET fwd == input.symmetrize \/ ~transpose
      bwd == (input.symmetrize /\ ~input.inPlace) \/ (~input.symmetrize /\ transpose)
  IN  [n \in Vertex |-> Cardinality({k \in DOMAIN el : fwd /\ el[k].u = n})
                        + Cardinality({k \in DOMAIN el : bwd /\ el[k].v = n})]

(* What MakeCSR stores for an edge, and at whose offsets.                  *)
Entries(e) ==
  LET fwd == [of |-> e.u, dest |-> Dest(e.v, e.w)]
      bwd == [of |-> e.v, dest |-> Dest(e.u, e.w)]
  IN  IF input.symmetrize THEN <<fwd, bwd>> ELSE IF side = "out" THEN <<fwd>> ELSE <<bwd>>

(* Before the copy loop: degrees, offsets and, from them, the index, while *)
(* the offsets go on to be moved. g is what is finished so far.            *)
BeginCSR(s, g) ==
  LET start == ParallelPrefixSum(CountDegrees(input.el, s = "in"))
  IN  /\ side' = s
      /\ offsets' = start
      /\ neighs' = [p \in 0 .. start[numNodes] - 1 |-> Dest(-1, 0)]
      /\ csr' = [g EXCEPT ![s].index = start]
      /\ stage' = "copy" /\ todo' = DOMAIN input.el

MakeCSR ==
  /\ stage = "begin" /\ ~input.inPlace
  /\ BeginCSR("out", csr)
  /\ UNCHANGED <<input, numNodes, thread, needed, triangles>>

TakeEdge(t, k) ==
  /\ stage = "copy" /\ thread[t] = Idle /\ k \in todo
  /\ todo' = todo \ {k}
  /\ thread' = [thread EXCEPT ![t] = [at |-> "claim", left |-> Entries(input.el[k])]]
  /\ UNCHANGED <<input, numNodes, stage, side, offsets, neighs, needed, csr, triangles>>

(* Mutated form: the place is the offset after the increment.              *)
ClaimNextPlace(t) ==
  LET of == Head(thread[t].left).of
  IN  /\ thread[t].at = "claim"
      /\ offsets' = [offsets EXCEPT ![of] = @ + 1]
      /\ thread' = [thread EXCEPT ![t] = [at |-> "store", left |-> @.left, place |-> offsets[of] + 1]]
      /\ UNCHANGED <<input, numNodes, stage, todo, side, neighs, needed, csr, triangles>>

(* fetch_and_add(offsets[...], 1).                                         *)
ClaimPlace(t) ==
  LET of == Head(thread[t].left).of
  IN  /\ thread[t].at = "claim"
      /\ offsets' = [offsets EXCEPT ![of] = @ + 1]
      /\ thread' = [thread EXCEPT ![t] = [at |-> "store", left |-> @.left, place |-> offsets[of]]]
      /\ UNCHANGED <<input, numNodes, stage, todo, side, neighs, needed, csr, triangles>>

Store(t) ==
  LET left == thread[t].left
  IN  /\ thread[t].at = "store"
      /\ neighs' = [neighs EXCEPT ![thread[t].place] = Head(left).dest]
      /\ thread' = [thread EXCEPT ![t] = IF Tail(left) = <<>> THEN Idle
                                         ELSE [at |-> "claim", left |-> Tail(left)]]
      /\ UNCHANGED <<input, numNodes, stage, todo, side, offsets, needed, csr, triangles>>

(* After one side: the other of a directed graph, or the squish.           *)
EndCopy ==
  LET filled == [csr EXCEPT ![side].neighs = neighs]
  IN  /\ stage = "copy" /\ todo = {} /\ \A t \in Threads : thread[t] = Idle
      /\ IF ~input.symmetrize /\ side = "out" THEN BeginCSR("in", filled)
         ELSE csr' = filled /\ stage' = "squish" /\ UNCHANGED <<side, offsets, neighs, todo>>
      /\ UNCHANGED <<input, numNodes, thread, needed, triangles>>

(* SquishGraph. An undirected graph has one CSR, for both directions.      *)
SquishGraph ==
  LET out == SquishCSR(csr["out"])
  IN  /\ stage = "squish"
      /\ csr' = [csr EXCEPT !["out"] = out,
                            !["in"] = IF input.symmetrize THEN out ELSE SquishCSR(csr["in"])]
      /\ stage' = "built"
      /\ UNCHANGED <<input, numNodes, todo, thread, side, offsets, neighs, needed, triangles>>

-----------------------------------------------------------------------------
(* MakeCSRInPlace. Its loops are sequential, and each is a function of the *)
(* number of rounds done.                                                  *)

(* Mutated form: the search takes in the cell after the list.              *)
BinarySearchBeyond(a, lo, hi, x) == \E p \in lo .. hi : p \in DOMAIN a /\ a[p] = x

(* std::binary_search for x among the cells lo .. hi - 1 of a: the len     *)
(* cells from first on are halved until none is left.                      *)
BinarySearch(a, lo, hi, x) ==
  LET Halve(m) == LET half == m.len \div 2
                  IN  IF a[m.first + half] < x
                      THEN [first |-> m.first + half + 1, len |-> m.len - half - 1]
                      ELSE [first |-> m.first, len |-> half]
      Run[k \in 0 .. hi - lo] ==
        IF k = 0 THEN [first |-> lo, len |-> hi - lo]
        ELSE IF Run[k - 1].len = 0 THEN Run[k - 1] ELSE Halve(Run[k - 1])
      found == Run[hi - lo].first
  IN  found < hi /\ a[found] = x

(* The sorted list, without repetitions and self loops, lies in memory as  *)
(* pairs of cells; each edge is read from its two cells and its target     *)
(* written to the next cell of its source.                                 *)
SquishedList(el) ==
  LET Precedes(d, e) == IF d.u = e.u THEN d.v < e.v ELSE d.u < e.u
      Same(d, e) == d.u = e.u /\ d.v = e.v
      s == Sorted(el, {p \in (DOMAIN el) \X (DOMAIN el) : Precedes(el[p[1]], el[p[2]])})
  IN  Kept(s, {i \in DOMAIN s : (i > 1 => ~Same(s[i - 1], s[i])) /\ s[i].u # s[i].v})

Overwritten(el) ==
  LET cell == [c \in 0 .. 2 * Len(el) - 1 |->
                 IF c % 2 = 0 THEN el[c \div 2 + 1].u ELSE el[c \div 2 + 1].v]
      start == ParallelPrefixSum(CountDegrees(el, FALSE))
      Put(m, c) == [cell |-> [m.cell EXCEPT ![m.at[m.cell[c]]] = m.cell[c + 1]],
                    at |-> [m.at EXCEPT ![m.cell[c]] = @ + 1]]
      Run[k \in 0 .. Len(el)] ==
        IF k = 0 THEN [cell |-> cell, at |-> start] ELSE Put(Run[k - 1], 2 * (k - 1))
  IN  Run[Len(el)]

(* The offsets end one vertex too far, and are shifted back.               *)
OverwriteEdges ==
  LET el == SquishedList(input.el)
      after == Overwritten(el)
  IN  /\ stage = "begin" /\ input.inPlace
      /\ offsets' = [n \in 0 .. numNodes |-> IF n = 0 THEN 0 ELSE after.at[n - 1]]
      /\ neighs' = after.cell
      /\ needed' = CountDegrees(el, TRUE)  \* indegrees
      /\ stage' = IF input.symmetrize THEN "count" ELSE "invert"
      /\ UNCHANGED <<input, numNodes, todo, thread, side, csr, triangles>>

(* The vertex whose list a cell is in: the lists lie one after another.    *)
ListOf(p) == CHOOSE n \in Vertex : p \in offsets[n] .. offsets[n + 1] - 1

(* Both indices of a graph that is not symmetrized.                        *)
Finished(index, cell) ==
  [index |-> index, neighs |-> [p \in 0 .. index[numNodes] - 1 |-> Dest(cell[p], 1)]]

Inverted ==
  LET start == ParallelPrefixSum(needed)
      Put(m, p) == [cell |-> [m.cell EXCEPT ![m.at[neighs[p]]] = ListOf(p)],
                    at |-> [m.at EXCEPT ![neighs[p]] = @ + 1]]
      Run[k \in 0 .. offsets[numNodes]] ==
        IF k = 0 THEN [cell |-> [p \in 0 .. start[numNodes] - 1 |-> -1], at |-> start]
        ELSE Put(Run[k - 1], k - 1)
  IN  Finished(start, Run[offsets[numNodes]].cell)

InvertInPlace ==
  /\ stage = "invert"
  /\ csr' = [csr EXCEPT !["out"] = Finished(offsets, neighs), !["in"] = Inverted]
  /\ stage' = "built"
  /\ UNCHANGED <<input, numNodes, todo, thread, side, offsets, neighs, needed, triangles>>

(* Step 1: how many inverses each vertex lacks, and room for them. realloc *)
(* succeeds only if there is something to allocate: for size 0, that is a  *)
(* list of nothing but self loops, glibc's returns nullptr.                *)
CountInverses ==
  LET Lacks(u, v) == ~BinarySearch(neighs, offsets[v], offsets[v + 1], u)
      invs == [v \in Vertex |->
                 Cardinality({u \in Vertex : /\ v \in {neighs[p] : p \in offsets[u] .. offsets[u + 1] - 1}
                                             /\ Lacks(u, v)})]
      wider == [n \in 0 .. numNodes |-> offsets[n] + SumFunctionOnSet(invs, {m \in Vertex : m < n})]
  IN  /\ stage = "count" /\ wider[numNodes] # 0
      /\ needed' = invs
      /\ offsets' = wider
      /\ neighs' = [p \in 0 .. wider[numNodes] - 1 |-> neighs[p]]
      /\ stage' = "spread"
      /\ UNCHANGED <<input, numNodes, todo, thread, side, csr, triangles>>

(* A realloc that returns nullptr, for that reason or for lack of memory,  *)
(* ends the program: exit(-33).                                            *)
ReallocFails ==
  /\ stage = "count"
  /\ stage' = "exited"
  /\ UNCHANGED <<input, numNodes, todo, thread, side, offsets, neighs, needed, csr, triangles>>

(* Step 2: from the last cell down, each neighbour moves up by the room    *)
(* made for its vertex and those before it.                                *)
Spreading ==
  LET Room(n) == SumFunctionOnSet(needed, 0 .. n)
      Move(a, p) == LET n == ListOf(p)
                    IN  IF p < offsets[n] + needed[n] THEN a ELSE [a EXCEPT ![p] = a[p - Room(n)]]
      Run[k \in 0 .. offsets[numNodes]] ==
        IF k = 0 THEN neighs ELSE Move(Run[k - 1], offsets[numNodes] - k)
  IN  Run[offsets[numNodes]]

Spread ==
  /\ stage = "spread"
  /\ neighs' = Spreading
  /\ stage' = "add"
  /\ UNCHANGED <<input, numNodes, todo, thread, side, offsets, needed, csr, triangles>>

(* Step 3: an inverse goes in front of those of v already there, so that   *)
(* the searches go through lists whose head is not sorted. The loop over   *)
(* the list of u begins after the room left there.                         *)
Adding ==
  LET Add(m, p) ==
        LET u == ListOf(p)
            v == m.cell[p]
            first == offsets[v] + m.room[v]
        IN  IF p < offsets[u] + m.room[u] \/ BinarySearch(m.cell, first, offsets[v + 1], u) THEN m
            ELSE [cell |-> [m.cell EXCEPT ![first - 1] = u], room |-> [m.room EXCEPT ![v] = @ - 1]]
      Run[k \in 0 .. offsets[numNodes]] ==
        IF k = 0 THEN [cell |-> neighs, room |-> needed] ELSE Add(Run[k - 1], k - 1)
  IN  Run[offsets[numNodes]].cell

(* In the end all lists are sorted.                                        *)
AddInverses ==
  LET g == Finished(offsets, Adding)
      sorted == [g EXCEPT !.neighs = Layout([n \in Vertex |-> SortedList(Neigh(g, n))]).neighs]
  IN  /\ stage = "add"
      /\ csr' = [csr EXCEPT !["out"] = sorted, !["in"] = sorted]
      /\ stage' = "built"
      /\ UNCHANGED <<input, numNodes, todo, thread, side, offsets, neighs, needed, triangles>>

-----------------------------------------------------------------------------
(* RelabelByDegree: new ids by descending degree, the larger old id first  *)
(* among equals.                                                           *)
RelabelByDegree(g) ==
  LET Degree(n) == g.index[n + 1] - g.index[n]
      Ahead(m, n) == IF Degree(m) = Degree(n) THEN m > n ELSE Degree(m) > Degree(n)
      new == [n \in Vertex |-> Cardinality({m \in Vertex : Ahead(m, n)})]
      old == [i \in Vertex |-> CHOOSE n \in Vertex : new[n] = i]
      Renamed(n) == [i \in 1 .. Degree(n) |-> Dest(new[Neigh(g, n)[i].v], 1)]
  IN  Layout([i \in Vertex |-> SortedList(Renamed(old[i]))])

(* OrderedCount, of which g.neighs is read from the start of v's list on:  *)
(* the test *it < w stops at no end.                                       *)
Leading(g, u, x) ==
  {p \in Span(g, u) : \A q \in Span(g, u) : q <= p => g.neighs[q].v <= x}

(* Mutated form: the search stops at a larger vertex only.                 *)
PlacePast(g, v, w) ==
  Least({p \in g.index[v] .. g.index[numNodes] - 1 : g.neighs[p].v > w} \cup {g.index[numNodes]})

PlaceOf(g, v, w) ==
  Least({p \in g.index[v] .. g.index[numNodes] - 1 : g.neighs[p].v >= w} \cup {g.index[numNodes]})

TripleCount(g, u, v) ==
  LET ws == {g.neighs[p].v : p \in Leading(g, u, v)}
      It(w) == PlaceOf(g, v, w)
  IN  [count |-> Cardinality({w \in ws : It(w) < g.index[numNodes] /\ g.neighs[It(w)].v = w}),
       strays |-> \E w \in ws : It(w) \notin Span(g, v)]

OrderedCount(g) ==
  LET pairs == UNION {{<<u, g.neighs[p].v>> : p \in Leading(g, u, u)} : u \in Vertex}
      each == [e \in pairs |-> TripleCount(g, e[1], e[2])]
  IN  [count |-> SumFunctionOnSet([e \in pairs |-> each[e].count], pairs),
       strays |-> \E e \in pairs : each[e].strays]

(* Hybrid; which way WorthRelabelling decides is left open.                *)
Hybrid ==
  /\ stage = "built" /\ input.symmetrize
  /\ \E g \in {csr["out"], RelabelByDegree(csr["out"])} : triangles' = OrderedCount(g)
  /\ stage' = "counted"
  /\ UNCHANGED <<input, numNodes, todo, thread, side, offsets, neighs, needed, csr>>

(* The program has ended: what stops anywhere else is a deadlock.           *)
Terminated ==
  /\ \/ stage = IF input.symmetrize THEN "counted" ELSE "built"
     \/ stage = "exited"
  /\ UNCHANGED builderVars

-----------------------------------------------------------------------------
FindMaxNodeID(el) ==
  LET ids == {el[k].u : k \in DOMAIN el} \cup {el[k].v : k \in DOMAIN el}
  IN  CHOOSE n \in ids : \A m \in ids : m <= n

Init ==
  /\ input \in Inputs
  /\ numNodes = FindMaxNodeID(input.el) + 1
  /\ stage = "begin" /\ todo = {} /\ thread = [t \in Threads |-> Idle]
  /\ side = "out" /\ offsets = <<>> /\ neighs = <<>> /\ needed = <<>>
  /\ csr = [s \in {"out", "in"} |-> Empty]
  /\ triangles = [count |-> -1, strays |-> FALSE]

Next ==
  \/ MakeCSR
  \/ \E t \in Threads : (\E k \in todo : TakeEdge(t, k)) \/ ClaimPlace(t) \/ Store(t)
  \/ EndCopy \/ SquishGraph
  \/ OverwriteEdges \/ InvertInPlace \/ CountInverses \/ ReallocFails \/ Spread \/ AddInverses
  \/ Hybrid \/ Terminated

Spec == Init /\ [][Next]_builderVars

-----------------------------------------------------------------------------
(* Reference: the weights the list gives an edge from m to n.              *)
Given(m, n) ==
  {input.el[k].w : k \in {j \in DOMAIN input.el :
                            \/ input.el[j].u = m /\ input.el[j].v = n
                            \/ input.symmetrize /\ input.el[j].u = n /\ input.el[j].v = m}}

Holds(g, n, Weights(_)) ==
  LET s == Neigh(g, n)
  IN  /\ \A i \in DOMAIN s : i > 1 => s[i - 1].v < s[i].v
      /\ {s[i].v : i \in DOMAIN s} = {m \in Vertex \ {n} : Weights(m) # {}}
      /\ \A i \in DOMAIN s : s[i].w = Least(Weights(s[i].v))

Graphed == stage \in {"built", "counted"}

(* Types of the variables; the place a thread has claimed lies within      *)
(* neighs (builder.h:310-313), which is as long as the degrees say.        *)
TypeOK ==
  /\ numNodes \in Nat \ {0}
  /\ stage \in {"begin", "copy", "squish", "count", "invert", "spread", "add", "built", "counted",
                 "exited"}
  /\ todo \subseteq DOMAIN input.el
  /\ DOMAIN thread = Threads /\ side \in {"out", "in"}
  /\ \A t \in Threads : thread[t].at = "store" => thread[t].place \in DOMAIN neighs
  /\ \A n \in DOMAIN offsets : offsets[n] \in Nat
  /\ DOMAIN csr = {"out", "in"}

(* Both ways of building, when they end with a graph, end with the same:   *)
(* every list sorted, without repetitions and self loops, each edge once   *)
(* per direction with the least of its weights (builder.h:141-170,         *)
(* 293-299), and the incoming lists exactly the inverse of the outgoing    *)
(* ones, on which the bottom-up and afforest kernels rely. In place, no    *)
(* edge is overwritten before it is read (builder.h:211-212), nor lost     *)
(* when room is made (261-272), and every inverse is found or added,       *)
(* though the lists searched are not sorted at that time (274-286). And    *)
(* num_edges_directed, for an undirected graph twice the halved number of  *)
(* entries (graph.h:142, 201-203), is that number: the bitmap of bc and    *)
(* the frontier of sssp are as long as it.                                 *)
GraphAsGiven ==
  Graphed => /\ \A n \in Vertex : /\ Holds(csr["out"], n, LAMBDA m : Given(n, m))
                                  /\ Holds(csr["in"], n, LAMBDA m : Given(m, n))
             /\ LET entries == csr["out"].index[numNodes]
                IN  IF input.symmetrize THEN 2 * (entries \div 2) = entries
                    ELSE csr["in"].index[numNodes] = entries

(* TCVerifier: the vertices two neighbours have in common, over all pairs  *)
(* of neighbours.                                                          *)
TCVerifier ==
  LET g == csr["out"]
      Ends(n) == {g.neighs[p].v : p \in Span(g, n)}
      pairs == UNION {{<<u, v>> : v \in Ends(u)} : u \in Vertex}
  IN  triangles.count = SumFunctionOnSet([e \in pairs |-> Cardinality(Ends(e[1]) \cap Ends(e[2]))], pairs) \div 6

(* Every triangle is counted once, relabelled or not, and the unguarded    *)
(* search through a neighbour's list stays inside it (tc.cc:59-66): it     *)
(* ends at u at the latest, as the graph is symmetric.                     *)
TrianglesExact ==
  stage = "counted" =>
    /\ TCVerifier
    /\ ~triangles.strays
=============================================================================
