-------------------------- MODULE TraversalProofs ---------------------------
(***************************************************************************)
(* Proofs about the two kernels that traverse the graph level by level,    *)
(* for any graph, team, buffer size and width of a word. Breadth-first     *)
(* search, for any values of alpha and beta: types, that every parent is   *)
(* one level up, that between two levels the queue holds one level, and    *)
(* that the answer passes BFSVerifier. Betweenness centrality, for any     *)
(* number of sources: types, and that the search from each counts the      *)
(* shortest paths and marks the edges on them.                             *)
(***************************************************************************)
EXTENDS Bfs, Brandes, FiniteSums

(* W has the vertices within k steps of the source, and AtDepth those at k.*)
Succ(S) == UNION {Elems(graph.out[u]) : u \in S}

IsWithin(s, W) ==
  /\ W \in [0 .. N -> SUBSET Node]
  /\ W[0] = {s}
  /\ \A k \in 1 .. N : W[k] = W[k - 1] \cup Succ(W[k - 1])

AtDepth(W, k) == IF k = 0 THEN W[0] ELSE W[k] \ W[k - 1]
Deeper(k) == IF k < N THEN k + 1 ELSE N

(* The parents, for the vertices that are visited.                         *)
ParentsOK(W) ==
  /\ parent \in [Node -> Int]
  /\ parent[source] = source
  /\ \A v \in Visited \ {source} :
       \E j \in 1 .. N : /\ v \in AtDepth(W, j)
                         /\ parent[v] \in AtDepth(W, j - 1)
                         /\ v \in Elems(graph.out[parent[v]])

-----------------------------------------------------------------------------
(* The queue and the buffers. f[i] is what is, or will be, in place i: a   *)
(* thread that has reserved places and not yet copied its buffer out still *)
(* owes them.                                                              *)
Flushing(th) == th.at \in {"reserve", "copy"}
Owes(th, b, i) == th.at = "copy" /\ i \in th.base .. th.base + Len(b) - 1

(* What a thread holds that has no place yet.                              *)
Loose(th, b) == CASE th.at = "copy" -> Elems(th.held)
                  [] th.at = "reserve" -> Elems(b) \cup Elems(th.held)
                  [] OTHER -> Elems(b)

QueueType(q) ==
  /\ q \in [shared : [0 .. N - 1 -> 0 .. N], in : Nat, start : Nat, end : Nat]
  /\ q.start <= q.end /\ q.end <= q.in

(* The buffer of one thread, and what it has reserved.                     *)
BufferOK(th, b, q, f) ==
  /\ b \in Seq(Node)
  /\ Flushing(th) => th.held = <<>> \/ \E v \in Node : th.held = <<v>>
  /\ th.at # "copy" => IsInjective(b)
  /\ th.at = "reserve" => Elems(b) \cap Elems(th.held) = {}
  /\ th.at = "joined" => b = <<>>
  /\ Flushing(th) /\ th.next = Joined => th.held = <<>>
  /\ th.at = "copy" =>
       /\ th.base \in Nat /\ th.base >= q.end /\ th.base + Len(b) <= q.in
       /\ \A j \in 1 .. Len(b) : f[th.base + j - 1] = b[j]

Old(f) == {f[i] : i \in 0 .. queue.end - 1}
Placed(f) == {f[i] : i \in 0 .. queue.in - 1}
Ahead(f) == {f[i] : i \in queue.end .. queue.in - 1}

(* New is what was pushed since the window last slid.                      *)
QueueOK(f, New) ==
  /\ QueueType(queue)
  /\ f \in [0 .. queue.in - 1 -> Node]
  /\ IsInjective(f)
  /\ DOMAIN buffer = Threads
  /\ \A t \in Threads : BufferOK(thread[t], buffer[t], queue, f)
  /\ \A i \in 0 .. queue.in - 1 :
       i < N => f[i] = queue.shared[i] \/ \E t \in Threads : Owes(thread[t], buffer[t], i)
  /\ \A t \in Threads : Loose(thread[t], buffer[t]) \cap Placed(f) = {}
  /\ \A t1, t2 \in Threads : t1 # t2 => 
       Loose(thread[t1], buffer[t1]) \cap Loose(thread[t2], buffer[t2]) = {}
  /\ New = Ahead(f) \cup UNION {Loose(thread[t], buffer[t]) : t \in Threads}

InPlace(f, L) == {f[i] : i \in queue.start .. queue.end - 1} = L

AllIdle == \A t \in Threads : thread[t] = Idle

-----------------------------------------------------------------------------
(* The invariant at each step of the search. A is what was visited before  *)
(* this level, L the level itself, B what is visited when it is done.      *)
LoopInv(A, L, f) ==
  /\ step = "loop" /\ todo = {} /\ AllIdle
  /\ QueueOK(f, {}) /\ InPlace(f, L) /\ Placed(f) \subseteq A
  /\ Visited = A /\ front \subseteq A

Work(th) == IF Flushing(th) THEN th.next ELSE th
IsExpanding(w) == w.at \in {"readParent", "claim"}

Expansion(w, L) ==
  /\ w.u \in L /\ w.rest \in Seq(Node) /\ w.rest # <<>>
  /\ Elems(w.rest) \subseteq Elems(graph.out[w.u])

ExpandThread(th, L) ==
  /\ th.at \in {"idle", "joined", "readParent", "claim", "reserve", "copy"}
  /\ th.at = "idle" => th = Idle
  /\ th.at = "joined" => th = Joined
  /\ Flushing(th) => \/ th.next \in {Idle, Joined}
                     \/ th.next.at = "readParent"
  /\ IsExpanding(Work(th)) => Expansion(Work(th), L)
  /\ th.at = "claim" => /\ th.val \in Int /\ th.val < 0
                        /\ parent[Head(th.rest)] = th.val \/ parent[Head(th.rest)] >= 0

(* Work of the level that is left, in progress or done for vertex u, when  *)
(* V is visited.                                                           *)
Covers(w, u, V) == /\ IsExpanding(w) /\ w.u = u
                   /\ Elems(graph.out[u]) \subseteq V \cup Elems(w.rest)
Covered(f, u) == \/ \E i \in todo : f[i] = u
                 \/ \E t \in Threads : Covers(Work(thread[t]), u, Visited)
                 \/ Elems(graph.out[u]) \subseteq Visited

DownInv(A, L, B, f) ==
  /\ step = "td"
  /\ QueueOK(f, Visited \ A) /\ InPlace(f, L) /\ Old(f) \subseteq A
  /\ A \subseteq Visited /\ Visited \subseteq B /\ front \subseteq A
  /\ todo \subseteq Window(queue)
  /\ DOMAIN thread = Threads
  /\ \A t \in Threads : ExpandThread(thread[t], L)
  /\ \A t \in Threads : Work(thread[t]) = Joined => todo = {}
  /\ \A u \in L : Covered(f, u)

BitThread(th, L) ==
  /\ th.at \in {"idle", "readWord", "swapWord"}
  /\ th.at = "idle" => th = Idle
  /\ th.at # "idle" => th.u \in L

ToBitmapInv(A, L, f) ==
  /\ step = "toBitmap"
  /\ QueueOK(f, {}) /\ InPlace(f, L) /\ Placed(f) \subseteq A
  /\ Visited = A /\ front \subseteq A
  /\ todo \subseteq Window(queue)
  /\ DOMAIN thread = Threads
  /\ \A t \in Threads : BitThread(thread[t], L)
  /\ \A u \in L : \/ u \in front
                  \/ \E i \in todo : f[i] = u
                  \/ \E t \in Threads : thread[t].at # "idle" /\ thread[t].u = u

LookThread(th) ==
  /\ th.at \in {"idle", "look", "readNext", "writeNext"}
  /\ th.at = "idle" => th = Idle
  /\ th.at # "idle" => th.left \subseteq Node /\ th.left # {}
  /\ th.at = "writeNext" => th.word = curr \cap Word(FirstOf(th.left))

Left(th) == IF th.at = "idle" THEN {} ELSE th.left
Marking(th) == th.at \in {"readNext", "writeNext"}

UpInv(A, L, B, f) ==
  /\ step = "bu"
  /\ QueueOK(f, {}) /\ Placed(f) \subseteq A
  /\ L \subseteq front /\ front \subseteq A
  /\ A \subseteq Visited /\ Visited \subseteq B
  /\ curr \subseteq Visited \ A
  /\ todo \subseteq Chunks
  /\ DOMAIN thread = Threads
  /\ \A t \in Threads : LookThread(thread[t])
  /\ \A t \in Threads : \A x \in Left(thread[t]) : x \div ChunkSize \notin todo
  /\ \A t1, t2 \in Threads : t1 # t2 =>
       \A x \in Left(thread[t1]), y \in Left(thread[t2]) : x \div ChunkSize # y \div ChunkSize
  /\ \A t \in Threads : Marking(thread[t]) => FirstOf(thread[t].left) \in Visited \ A
  /\ \A v \in Visited \ A :
       v \in curr \/ \E t \in Threads : Marking(thread[t]) /\ v = FirstOf(thread[t].left)
  /\ \A v \in B \ Visited :
       v \div ChunkSize \in todo \/ \E t \in Threads : v \in Left(thread[t])

PushThread(th, L) ==
  /\ th.at \in {"idle", "joined", "push", "reserve", "copy"}
  /\ th.at = "idle" => th = Idle
  /\ th.at = "joined" => th = Joined
  /\ th.at = "push" => th.u \in L /\ th.u \notin todo
  /\ Flushing(th) => th.next \in {Idle, Joined}

Pushing == {thread[t].u : t \in {s \in Threads : thread[s].at = "push"}}

ToQueueInv(A, L, f) ==
  /\ step = "toQueue"
  /\ QueueOK(f, (front \ todo) \ Pushing) /\ Old(f) \subseteq A \ L
  /\ Visited = A /\ front = L
  /\ todo \subseteq Node
  /\ DOMAIN thread = Threads
  /\ \A t \in Threads : PushThread(thread[t], L)
  /\ \A t1, t2 \in Threads :
       thread[t1].at = "push" /\ thread[t2].at = "push" /\ thread[t1].u = thread[t2].u => t1 = t2
  /\ \A t \in Threads : Work(thread[t]) = Joined => todo = {}

DoneInv(W) ==
  /\ step = "done" /\ todo = {} /\ AllIdle
  /\ Visited = W[N]
  /\ \A v \in Node \ Visited : parent[v] = -1

(* The inductive invariant.                                                *)
LevelInv(W, k, f) ==
  LET A == W[k]
      L == AtDepth(W, k)
      B == W[Deeper(k)]
  IN  \/ LoopInv(A, L, f)
      \/ DownInv(A, L, B, f)
      \/ ToBitmapInv(A, L, f)
      \/ UpInv(A, L, B, f)
      \/ ToQueueInv(A, L, f)

BfsInv ==
  /\ kernel = "bfs" /\ graph \in Graphs /\ source \in Node
  /\ LET W == Within(source)
     IN  /\ ParentsOK(W)
         /\ \/ \E k \in 0 .. N : \E f : LevelInv(W, k, f)
            \/ DoneInv(W)

-----------------------------------------------------------------------------
(* Levels                                                                  *)

\* Facts about the given graph, in the form the provers need them.
LEMMA GraphFacts ==
  ASSUME graph \in Graphs
  PROVE  /\ graph.out \in [Node -> Seq(Node)] /\ graph.in \in [Node -> Seq(Node)]
         /\ \A u \in Node : graph.out[u] \in Seq(Node) /\ graph.in[u] \in Seq(Node)
         /\ \A u \in Node : Elems(graph.out[u]) \subseteq Node /\ Elems(graph.in[u]) \subseteq Node
         /\ \A u, v \in Node : u \in Elems(graph.in[v]) <=> v \in Elems(graph.out[u])
<1>1. /\ graph.out \in [Node -> Seq(Node)] /\ graph.in \in [Node -> Seq(Node)]
      /\ Inverted(graph)
  BY KernelAssumption DEF Graph
<1>2. \A u \in Node : graph.out[u] \in Seq(Node) /\ graph.in[u] \in Seq(Node)
  BY <1>1
<1>3. \A s \in Seq(Node) : Elems(s) \subseteq Node
  BY DEF Elems
<1> QED
  BY <1>1, <1>2, <1>3 DEF Inverted, Edge

LEMMA NodeFacts == /\ Node \subseteq Nat /\ 0 \in Node /\ N \in Nat /\ N > 0
                   /\ IsFiniteSet(Node) /\ Cardinality(Node) = N
<1>1. N \in Nat /\ N > 0
  BY KernelAssumption
<1>2. IsFiniteSet(0 .. N - 1) /\ Cardinality(0 .. N - 1) = N
  BY <1>1, FS_Interval
<1> QED
  BY <1>1, <1>2 DEF Node

LEMMA SuccType ==
  ASSUME graph \in Graphs, NEW S \in SUBSET Node
  PROVE  Succ(S) \subseteq Node
BY GraphFacts DEF Succ

\* The recursion of Within has a solution.
LEMMA WithinLevels ==
  ASSUME graph \in Graphs, NEW s \in Node
  PROVE  IsWithin(s, Within(s))
<1> DEFINE Solves(F, n) == F = [k \in 0 .. n |-> IF k = 0 THEN {s}
                            ELSE F[k - 1] \cup UNION {Elems(graph.out[u]) : u \in F[k - 1]}]
           P == {n \in Nat : \E F \in [0 .. n -> SUBSET Node] : Solves(F, n)}
<1>1. 0 \in P
  <2> DEFINE F == [k \in 0 .. 0 |-> {s}]
  <2>1. F \in [0 .. 0 -> SUBSET Node] /\ Solves(F, 0)
    OBVIOUS
  <2> QED
    BY <2>1
<1>2. ASSUME NEW n \in Nat, n \in P PROVE n + 1 \in P
  <2>1. PICK F \in [0 .. n -> SUBSET Node] : Solves(F, n)
    BY <1>2
  <2> DEFINE G == [k \in 0 .. n + 1 |-> IF k <= n THEN F[k] ELSE F[n] \cup Succ(F[n])]
  <2>2. F[n] \in SUBSET Node /\ Succ(F[n]) \subseteq Node
    BY <2>1, SuccType
  <2>3. G \in [0 .. n + 1 -> SUBSET Node]
    <3>1. PICK X : X = F[n] \cup Succ(F[n])
      OBVIOUS
    <3>2. X \in SUBSET Node
      BY <2>2, <3>1
    <3>3. \A k \in 0 .. n + 1 : (IF k <= n THEN F[k] ELSE X) \in SUBSET Node
      BY <3>2
    <3> QED
      BY <3>1, <3>3
  <2>4. \A k \in 0 .. n + 1 : G[k] = IF k = 0 THEN {s}
                            ELSE G[k - 1] \cup UNION {Elems(graph.out[u]) : u \in G[k - 1]}
    <3>1. \A k \in 0 .. n : F[k] = IF k = 0 THEN {s}
                            ELSE F[k - 1] \cup UNION {Elems(graph.out[u]) : u \in F[k - 1]}
      BY <2>1
    <3>2. SUFFICES ASSUME NEW k \in 0 .. n + 1
                   PROVE G[k] = IF k = 0 THEN {s}
                            ELSE G[k - 1] \cup UNION {Elems(graph.out[u]) : u \in G[k - 1]}
      OBVIOUS
    <3>3. CASE k <= n
      <4>1. k # 0 => k - 1 \in 0 .. n /\ k - 1 \in 0 .. n + 1 /\ k - 1 <= n
        BY <3>3
      <4>2. G[k] = F[k] /\ (k # 0 => G[k - 1] = F[k - 1]) /\ k \in 0 .. n
        BY <3>3, <4>1
      <4> QED
        BY <3>1, <4>2
    <3>4. CASE ~(k <= n)
      <4>1. k = n + 1 /\ k # 0 /\ k - 1 = n /\ n \in 0 .. n + 1
        BY <3>4
      <4>2. G[k] = F[n] \cup Succ(F[n]) /\ G[k - 1] = F[n]
        BY <4>1
      <4> QED
        BY <4>1, <4>2 DEF Succ
    <3> QED
      BY <3>3, <3>4
  <2>5. Solves(G, n + 1)
    BY <2>3, <2>4
  <2> HIDE DEF G
  <2> QED
    BY <2>3, <2>5
<1>3. N \in P
  <2> HIDE DEF P
  <2>1. Nat \subseteq P
    BY <1>1, <1>2, NatSetInduction
  <2> QED
    BY <2>1, NodeFacts
<1>4. PICK F \in [0 .. N -> SUBSET Node] : Solves(F, N)
  BY <1>3
<1>5. PICK W : W = Within(s)
  OBVIOUS
<1>6. W = CHOOSE G : Solves(G, N)
  BY <1>5 DEF Within
<1>7. Solves(W, N)
  BY <1>4, <1>6
<1>8. /\ DOMAIN W = 0 .. N /\ W = [k \in 0 .. N |-> W[k]]
      /\ \A k \in 0 .. N : W[k] = IF k = 0 THEN {s}
                                  ELSE W[k - 1] \cup UNION {Elems(graph.out[u]) : u \in W[k - 1]}
  BY <1>7
<1>9. W \in [0 .. N -> SUBSET Node]
  <2> DEFINE Q == {n \in Nat : n \in 0 .. N => W[n] \in SUBSET Node}
  <2>1. 0 \in Q
    BY <1>8
  <2>2. ASSUME NEW n \in Nat, n \in Q PROVE n + 1 \in Q
    <3>1. SUFFICES ASSUME n + 1 \in 0 .. N PROVE W[n + 1] \in SUBSET Node
      OBVIOUS
    <3>2. n \in 0 .. N /\ (n + 1) - 1 = n /\ n + 1 # 0
      BY <3>1, NodeFacts
    <3>3. W[n] \in SUBSET Node /\ W[n + 1] = W[n] \cup Succ(W[n])
      BY <1>8, <2>2, <3>1, <3>2 DEF Succ
    <3> QED
      BY <3>3, SuccType
  <2> HIDE DEF Q
  <2>3. Nat \subseteq Q
    BY <2>1, <2>2, NatSetInduction
  <2>4. \A k \in 0 .. N : W[k] \in SUBSET Node
    BY <2>3, NodeFacts DEF Q
  <2> QED
    BY <1>8, <2>4
<1>10. W[0] = {s}
  BY <1>8, NodeFacts
<1>11. \A k \in 1 .. N : W[k] = W[k - 1] \cup Succ(W[k - 1])
  <2> SUFFICES ASSUME NEW k \in 1 .. N PROVE W[k] = W[k - 1] \cup Succ(W[k - 1])
    OBVIOUS
  <2>1. k \in 0 .. N /\ k # 0
    BY NodeFacts
  <2> HIDE DEF Solves, P
  <2> QED
    BY <1>8, <2>1 DEF Succ
<1> QED
  BY <1>5, <1>9, <1>10, <1>11 DEF IsWithin

\* The sets grow.
LEMMA WithinGrows ==
  ASSUME NEW s, NEW W, IsWithin(s, W), NEW i \in 0 .. N, NEW j \in 0 .. N, i <= j
  PROVE  W[i] \subseteq W[j]
<1> DEFINE P == {n \in Nat : i + n <= N => W[i] \subseteq W[i + n]}
<1>1. 0 \in P
  OBVIOUS
<1>2. ASSUME NEW n \in Nat, n \in P PROVE n + 1 \in P
  <2>1. SUFFICES ASSUME i + (n + 1) <= N PROVE W[i] \subseteq W[i + (n + 1)]
    OBVIOUS
  <2>2. i + n <= N /\ i + (n + 1) \in 1 .. N /\ (i + (n + 1)) - 1 = i + n
    BY <2>1, NodeFacts
  <2>3. W[i + (n + 1)] = W[i + n] \cup Succ(W[i + n])
    BY <2>2 DEF IsWithin
  <2> QED
    BY <1>2, <2>2, <2>3
<1> HIDE DEF P
<1>3. Nat \subseteq P
  BY <1>1, <1>2, NatSetInduction
<1>4. j - i \in P /\ i + (j - i) = j /\ j <= N
  BY <1>3, NodeFacts
<1> QED
  BY <1>4 DEF P

\* Once no edge leads out they stay as they are.
LEMMA WithinStays ==
  ASSUME NEW s, NEW W, IsWithin(s, W), NEW i \in 0 .. N, NEW j \in 0 .. N, i <= j, Succ(W[i]) \subseteq W[i]
  PROVE  W[j] = W[i]
<1> DEFINE P == {n \in Nat : i + n <= N => W[i + n] = W[i]}
<1>1. 0 \in P
  OBVIOUS
<1>2. ASSUME NEW n \in Nat, n \in P PROVE n + 1 \in P
  <2>1. SUFFICES ASSUME i + (n + 1) <= N PROVE W[i + (n + 1)] = W[i]
    OBVIOUS
  <2>2. i + n <= N /\ i + (n + 1) \in 1 .. N /\ (i + (n + 1)) - 1 = i + n
    BY <2>1, NodeFacts
  <2>3. W[i + (n + 1)] = W[i + n] \cup Succ(W[i + n])
    BY <2>2 DEF IsWithin
  <2> QED
    BY <1>2, <2>2, <2>3
<1> HIDE DEF P
<1>3. Nat \subseteq P
  BY <1>1, <1>2, NatSetInduction
<1>4. j - i \in P /\ i + (j - i) = j /\ j <= N
  BY <1>3, NodeFacts
<1> QED
  BY <1>4 DEF P

\* After N steps nothing can be new: each step that adds something adds one
\* of N vertices.
LEMMA WithinEnds ==
  ASSUME graph \in Graphs, NEW s \in Node, NEW W, IsWithin(s, W)
  PROVE  Succ(W[N]) \subseteq W[N] /\ W[N] = W[N - 1]
<1>0. N \in Nat /\ N > 0 /\ N - 1 \in 0 .. N /\ N \in 0 .. N
  BY NodeFacts
<1>1. \A k \in 0 .. N : W[k] \in SUBSET Node /\ IsFiniteSet(W[k]) /\ Cardinality(W[k]) \in Nat
  BY NodeFacts, FS_Subset, FS_CardinalityType DEF IsWithin
<1>2. \E i \in 0 .. N - 1 : Succ(W[i]) \subseteq W[i]
  <2>1. /\ W[0] # {} /\ \A k \in 0 .. N : W[k] \subseteq Node
        /\ \A k \in 1 .. N : W[k - 1] \subseteq W[k]
    BY DEF IsWithin
  <2>2. IsFiniteSet(Node) /\ Cardinality(Node) <= N
    BY <1>0, NodeFacts
  <2>3. PICK k \in 1 .. N : W[k] = W[k - 1]
    BY <1>0, <2>1, <2>2, ChainStops
  <2>4. k - 1 \in 0 .. N - 1 /\ W[k] = W[k - 1] \cup Succ(W[k - 1])
    BY <1>0 DEF IsWithin
  <2> QED
    BY <2>3, <2>4
<1>3. PICK i \in 0 .. N - 1 : Succ(W[i]) \subseteq W[i]
  BY <1>2
<1>4. i \in 0 .. N /\ i <= N - 1 /\ i <= N
  BY <1>0
<1>5. W[N] = W[i] /\ W[N - 1] = W[i]
  BY <1>0, <1>3, <1>4, WithinStays
<1> QED
  BY <1>3, <1>5

(* A level L between the vertices A found before it is expanded and B.     *)
Ring(s, A, L, B) ==
  /\ L \subseteq A /\ A \subseteq B /\ B \subseteq Node /\ s \in A
  /\ \A u \in L : Elems(graph.out[u]) \subseteq B
  /\ \A v \in B \ A : \E u \in L : v \in Elems(graph.out[u])
  /\ \A u \in A : \A v \in Elems(graph.out[u]) : v \in A \/ u \in L

\* What lies within k steps and what within one more, with the last level
\* standing for the next one when there is none.
LEMMA RingFacts ==
  ASSUME graph \in Graphs, NEW s \in Node, NEW W, IsWithin(s, W), NEW k \in 0 .. N
  PROVE  /\ Ring(s, W[k], AtDepth(W, k), W[Deeper(k)])
         /\ Deeper(k) \in 0 .. N
         /\ AtDepth(W, Deeper(k)) = W[Deeper(k)] \ W[k]
         /\ W[Deeper(k)] # W[k] => k < N /\ Deeper(k) = k + 1
         /\ AtDepth(W, k) = {} => W[k] = W[N]
<1> DEFINE A == W[k]
           L == AtDepth(W, k)
           B == W[Deeper(k)]
<1>0. N \in Nat /\ N > 0 /\ k \in Nat /\ k <= N /\ 0 \in 0 .. N /\ N \in 0 .. N
  BY NodeFacts
<1>1. Deeper(k) \in 0 .. N
  BY <1>0 DEF Deeper
<1>2. \A j \in 0 .. N : W[j] \in SUBSET Node
  BY DEF IsWithin
<1>3. B = A \cup Succ(A)
  <2>1. CASE k < N
    <3>1. k + 1 \in 1 .. N /\ (k + 1) - 1 = k
      BY <1>0, <2>1
    <3> QED
      BY <2>1, <3>1 DEF IsWithin, Deeper
  <2>2. CASE ~(k < N)
    <3>1. k = N
      BY <1>0, <2>2
    <3> QED
      BY <2>2, <3>1, WithinEnds DEF Deeper
  <2> QED
    BY <2>1, <2>2
<1>4. L \subseteq A
  BY DEF AtDepth
<1>5. A \subseteq B /\ B \subseteq Node
  BY <1>1, <1>2, <1>3
<1>6. s \in A
  <2>1. W[0] \subseteq W[k]
    BY <1>0, WithinGrows
  <2> QED
    BY <2>1 DEF IsWithin
<1>7. \A u \in A : \A v \in Elems(graph.out[u]) : v \in A \/ u \in L
  <2>1. SUFFICES ASSUME NEW u \in A, u \notin L, NEW v \in Elems(graph.out[u]) PROVE v \in A
    OBVIOUS
  <2>2. k # 0
    BY <2>1 DEF AtDepth
  <2>3. k \in 1 .. N
    BY <1>0, <2>2
  <2>4. u \in W[k - 1]
    BY <2>1, <2>2 DEF AtDepth
  <2>5. W[k] = W[k - 1] \cup Succ(W[k - 1])
    BY <2>3 DEF IsWithin
  <2> QED
    BY <2>4, <2>5 DEF Succ
<1>8. \A v \in B \ A : \E u \in L : v \in Elems(graph.out[u])
  BY <1>3, <1>7 DEF Succ
<1>9. \A u \in L : Elems(graph.out[u]) \subseteq B
  BY <1>3, <1>4 DEF Succ
<1>10. AtDepth(W, Deeper(k)) = B \ A
  <2>1. CASE k < N
    BY <1>0, <2>1 DEF AtDepth, Deeper
  <2>2. CASE ~(k < N)
    <3>1. k = N
      BY <1>0, <2>2
    <3>2. W[N] = W[N - 1]
      BY WithinEnds
    <3> QED
      BY <1>0, <3>1, <3>2 DEF AtDepth, Deeper
  <2> QED
    BY <2>1, <2>2
<1>11. B # A => k < N /\ Deeper(k) = k + 1
  BY <1>0 DEF Deeper
<1>12. L = {} => A = W[N]
  <2>1. SUFFICES ASSUME L = {} PROVE A = W[N]
    OBVIOUS
  <2>2. Succ(A) \subseteq A
    BY <1>7, <2>1 DEF Succ
  <2> QED
    BY <1>0, <2>2, WithinStays
<1> QED
  BY <1>1, <1>4, <1>5, <1>6, <1>7, <1>8, <1>9, <1>10, <1>11, <1>12 DEF Ring

\* A vertex is at one depth only, the one that Depth gives it.
LEMMA DepthFacts ==
  ASSUME graph \in Graphs, NEW s \in Node, NEW W, W = Within(s),
         NEW j \in 0 .. N, NEW v \in AtDepth(W, j)
  PROVE  v \in DOMAIN Depth(s) /\ Depth(s)[v] = j
<1>0. IsWithin(s, W) /\ N \in Nat /\ N \in 0 .. N
  BY WithinLevels, NodeFacts
<1>1. v \in W[j] /\ (j > 0 => v \notin W[j - 1])
  BY DEF AtDepth
<1>2. v \in W[N]
  BY <1>0, <1>1, WithinGrows
<1>3. ASSUME NEW k \in 0 .. N, v \in W[k] /\ (k > 0 => v \notin W[k - 1])
      PROVE  k = j
  <2>1. CASE k < j
    <3>1. k <= j - 1 /\ j - 1 \in 0 .. N /\ j > 0
      BY <1>0, <2>1
    <3>2. W[k] \subseteq W[j - 1]
      BY <1>0, <3>1, WithinGrows
    <3> QED
      BY <1>1, <1>3, <3>1, <3>2
  <2>2. CASE j < k
    <3>1. j <= k - 1 /\ k - 1 \in 0 .. N /\ k > 0
      BY <1>0, <2>2
    <3>2. W[j] \subseteq W[k - 1]
      BY <1>0, <3>1, WithinGrows
    <3> QED
      BY <1>1, <1>3, <3>1, <3>2
  <2> QED
    BY <2>1, <2>2
<1>4. j = CHOOSE k \in 0 .. N : v \in W[k] /\ (k > 0 => v \notin W[k - 1])
  BY <1>1, <1>3
<1>5. Depth(s) = [x \in W[N] |-> CHOOSE k \in 0 .. N : x \in W[k] /\ (k > 0 => x \notin W[k - 1])]
  BY DEF Depth
<1> QED
  BY <1>2, <1>4, <1>5

\* What the search relies on about the vertices: each visited one has been
\* found from the level before.
LEMMA ParentsAreVertices ==
  ASSUME graph \in Graphs, source \in Node, NEW W, IsWithin(source, W), ParentsOK(W)
  PROVE  /\ parent \in [Node -> Int] /\ Visited \subseteq Node /\ source \in Visited
         /\ \A v \in Node : v \in Visited <=> parent[v] >= 0
<1>1. source >= 0
  BY NodeFacts
<1> QED
  BY <1>1 DEF ParentsOK, Visited

\* A vertex found from level k gets a parent that is one level up.
LEMMA NewParent ==
  ASSUME graph \in Graphs, source \in Node, NEW W, IsWithin(source, W), NEW k \in 0 .. N, ParentsOK(W),
         NEW u \in AtDepth(W, k), NEW v \in Elems(graph.out[u]), v \notin W[k],
         parent' = [parent EXCEPT ![v] = u], source' = source, graph' = graph
  PROVE  v \in Node /\ ParentsOK(W)' /\ Visited' = Visited \cup {v}
<1>1. Ring(source, W[k], AtDepth(W, k), W[Deeper(k)])
  BY RingFacts
<1>2. u \in Node /\ v \in W[Deeper(k)] /\ v \in Node /\ v # source
  BY <1>1 DEF Ring
<1>3. k < N /\ Deeper(k) = k + 1 /\ v \in AtDepth(W, k + 1)
  <2>1. W[Deeper(k)] # W[k]
    BY <1>2
  <2> QED
    BY <1>2, <2>1, RingFacts
<1>4. u \in Int /\ u >= 0
  BY <1>2, NodeFacts
<1>5. /\ parent \in [Node -> Int] /\ parent' \in [Node -> Int]
      /\ parent'[v] = u /\ \A x \in Node : x # v => parent'[x] = parent[x]
  BY <1>2, <1>4 DEF ParentsOK
<1>6. Visited' = Visited \cup {v}
  BY <1>2, <1>4, <1>5 DEF Visited
<1>7. parent'[source] = source
  BY <1>2, <1>5 DEF ParentsOK
<1>8. ASSUME NEW x \in Visited' \ {source}
      PROVE  \E j \in 1 .. N : /\ x \in AtDepth(W, j)
                               /\ parent'[x] \in AtDepth(W, j - 1)
                               /\ x \in Elems(graph.out[parent'[x]])
  <2>1. CASE x = v
    <3>1. k + 1 \in 1 .. N /\ (k + 1) - 1 = k
      BY <1>3, NodeFacts
    <3> QED
      BY <1>3, <1>5, <2>1, <3>1
  <2>2. CASE x # v
    <3>1. x \in Visited \ {source} /\ parent'[x] = parent[x]
      BY <1>5, <1>6, <2>2 DEF Visited
    <3> QED
      BY <3>1 DEF ParentsOK
  <2> QED
    BY <2>1, <2>2
<1>9. ParentsOK(W)'
  BY <1>5, <1>7, <1>8 DEF ParentsOK, Visited
<1> QED
  BY <1>2, <1>6, <1>9

-----------------------------------------------------------------------------
(* The queue                                                               *)

LEMMA SeqFacts ==
  /\ Elems(<<>>) = {}
  /\ \A v : Elems(<<v>>) = {v}
  /\ \A s \in Seq(Node) : Elems(s) = {} => s = <<>>
  /\ \A s \in Seq(Node) : \A v \in Node :
       /\ Append(s, v) \in Seq(Node)
       /\ Elems(Append(s, v)) = Elems(s) \cup {v}
       /\ IsInjective(s) /\ v \notin Elems(s) => IsInjective(Append(s, v))
<1>1. Elems(<<>>) = {}
  BY DEF Elems
<1>2. \A v : Elems(<<v>>) = {v}
  BY DEF Elems
<1>3. \A s \in Seq(Node) : Elems(s) = {} => s = <<>>
  BY DEF Elems
<1>4. ASSUME NEW s \in Seq(Node), NEW v \in Node
      PROVE  /\ Append(s, v) \in Seq(Node)
             /\ Elems(Append(s, v)) = Elems(s) \cup {v}
             /\ IsInjective(s) /\ v \notin Elems(s) => IsInjective(Append(s, v))
  <2> DEFINE a == Append(s, v)
  <2>1. /\ a \in Seq(Node) /\ DOMAIN a = 1 .. Len(s) + 1 /\ DOMAIN s = 1 .. Len(s)
        /\ Len(s) \in Nat
        /\ \A i \in 1 .. Len(s) : a[i] = s[i]
        /\ a[Len(s) + 1] = v
    OBVIOUS
  <2> HIDE DEF a
  <2>2. Elems(a) \subseteq Elems(s) \cup {v}
    <3>1. SUFFICES ASSUME NEW i \in DOMAIN a PROVE a[i] \in Elems(s) \cup {v}
      BY DEF Elems
    <3>2. CASE i = Len(s) + 1
      BY <2>1, <3>2
    <3>3. CASE i # Len(s) + 1
      <4>1. i \in 1 .. Len(s)
        BY <2>1, <3>3
      <4> QED
        BY <2>1, <4>1 DEF Elems
    <3> QED
      BY <3>2, <3>3
  <2>3. Elems(s) \cup {v} \subseteq Elems(a)
    <3>1. v \in Elems(a)
      <4>1. Len(s) + 1 \in DOMAIN a
        BY <2>1
      <4> QED
        BY <2>1, <4>1 DEF Elems
    <3>2. ASSUME NEW i \in DOMAIN s PROVE s[i] \in Elems(a)
      <4>1. i \in DOMAIN a /\ a[i] = s[i]
        BY <2>1
      <4> QED
        BY <4>1 DEF Elems
    <3> QED
      BY <3>1, <3>2 DEF Elems
  <2>4. IsInjective(s) /\ v \notin Elems(s) => IsInjective(a)
    <3>1. SUFFICES ASSUME IsInjective(s), v \notin Elems(s), NEW i \in DOMAIN a, NEW j \in DOMAIN a,
                          a[i] = a[j]
                   PROVE  i = j
      BY DEF IsInjective
    <3>2. \A n \in 1 .. Len(s) : a[n] = s[n] /\ s[n] # v
      BY <2>1, <3>1 DEF Elems
    <3>3. i \in 1 .. Len(s) \/ i = Len(s) + 1
      BY <2>1
    <3>4. j \in 1 .. Len(s) \/ j = Len(s) + 1
      BY <2>1
    <3> QED
      BY <2>1, <3>1, <3>2, <3>3, <3>4 DEF IsInjective
  <2> QED
    BY <2>1, <2>2, <2>3, <2>4 DEF a
<1> QED
  BY <1>1, <1>2, <1>3, <1>4

\* No two places hold the same vertex, so there are enough of them.
LEMMA QueueFits ==
  ASSUME NEW f, NEW New, QueueOK(f, New)
  PROVE  queue.in \in Nat /\ queue.in <= N
<1>1. queue.in \in Nat /\ f \in [0 .. queue.in - 1 -> Node] /\ IsInjective(f)
  BY DEF QueueOK, QueueType
<1>2. f \in Injection(0 .. queue.in - 1, Node)
  BY <1>1 DEF IsInjective, Injection, IsInjective
<1>3. IsFiniteSet(0 .. queue.in - 1) /\ Cardinality(0 .. queue.in - 1) = queue.in
  BY <1>1, FS_Interval
<1>4. Cardinality(0 .. queue.in - 1) <= Cardinality(Node)
  <2> DEFINE S == 0 .. queue.in - 1
  <2>1. f \in Injection(S, Node)
    BY <1>2
  <2> HIDE DEF S
  <2>2. Cardinality(S) <= Cardinality(Node)
    BY <2>1, NodeFacts, FS_Injection
  <2> QED
    BY <2>2 DEF S
<1> QED
  BY <1>1, <1>3, <1>4, NodeFacts

\* What was placed before the window last slid can be read.
LEMMA SharedReads ==
  ASSUME NEW f, NEW New, QueueOK(f, New), NEW i \in 0 .. queue.end - 1
  PROVE  /\ i \in 0 .. queue.in - 1 /\ i \in Node
         /\ queue.shared[i] = f[i]
<1>1. queue.in \in Nat /\ queue.end \in Nat /\ queue.end <= queue.in
  BY DEF QueueOK, QueueType
<1>2. queue.in <= N /\ N \in Nat
  BY QueueFits, NodeFacts
<1>3. i \in 0 .. queue.in - 1 /\ i \in Node /\ i < N
  BY <1>1, <1>2 DEF Node
<1>4. ASSUME NEW t \in Threads PROVE ~Owes(thread[t], buffer[t], i)
  <2>1. BufferOK(thread[t], buffer[t], queue, f)
    BY DEF QueueOK
  <2> QED
    BY <1>1, <2>1 DEF BufferOK, Owes
<1> QED
  BY <1>3, <1>4 DEF QueueOK

\* When no thread flushes, all places can be read.
LEMMA SharedComplete ==
  ASSUME NEW f, NEW New, QueueOK(f, New), \A t \in Threads : ~Flushing(thread[t]),
         NEW i \in 0 .. queue.in - 1
  PROVE  queue.shared[i] = f[i]
<1>1. i < N
  BY QueueFits, NodeFacts
<1>2. \A t \in Threads : ~Owes(thread[t], buffer[t], i)
  BY DEF Owes, Flushing
<1> QED
  BY <1>1, <1>2 DEF QueueOK

\* A step of a thread that has nothing to do with the queue.
LEMMA QuietQueue ==
  ASSUME NEW f, NEW New, QueueOK(f, New), DOMAIN thread = Threads,
         NEW t \in Threads, NEW x, ~Flushing(thread[t]), ~Flushing(x), x.at # "joined",
         thread' = [thread EXCEPT ![t] = x], queue' = queue, buffer' = buffer
  PROVE  QueueOK(f, New)'
<1>1. /\ DOMAIN thread' = Threads /\ thread'[t] = x
      /\ \A s \in Threads : s # t => thread'[s] = thread[s]
  OBVIOUS
<1>2. ASSUME NEW s \in Threads
      PROVE  /\ BufferOK(thread'[s], buffer[s], queue, f)
             /\ Loose(thread'[s], buffer[s]) = Loose(thread[s], buffer[s])
             /\ \A i : Owes(thread'[s], buffer[s], i) <=> Owes(thread[s], buffer[s], i)
  <2>1. BufferOK(thread[s], buffer[s], queue, f)
    BY DEF QueueOK
  <2>2. CASE s # t
    BY <1>1, <2>1, <2>2
  <2>3. CASE s = t
    <3>1. thread'[s] = x
      BY <1>1, <2>3
    <3> QED
      BY <2>1, <2>3, <3>1 DEF BufferOK, Loose, Owes, Flushing
  <2> QED
    BY <2>2, <2>3
<1>3. \A s \in Threads : BufferOK(thread'[s], buffer'[s], queue', f)
  BY <1>2
<1>4. Ahead(f)' = Ahead(f) /\ Placed(f)' = Placed(f)
  BY DEF Ahead, Placed
<1>5. UNION {Loose(thread'[s], buffer'[s]) : s \in Threads}
        = UNION {Loose(thread[s], buffer[s]) : s \in Threads}
  BY <1>2
<1>6. /\ QueueType(queue') /\ f \in [0 .. queue'.in - 1 -> Node] /\ IsInjective(f)
      /\ DOMAIN buffer' = Threads
  BY DEF QueueOK
<1>7. \A i \in 0 .. queue'.in - 1 :
        i < N => f[i] = queue'.shared[i] \/ \E s \in Threads : Owes(thread'[s], buffer'[s], i)
  BY <1>2 DEF QueueOK
<1>8. /\ \A s \in Threads : Loose(thread'[s], buffer'[s]) \cap Placed(f)' = {}
      /\ \A t1, t2 \in Threads : t1 # t2 =>
           Loose(thread'[t1], buffer'[t1]) \cap Loose(thread'[t2], buffer'[t2]) = {}
  BY <1>2, <1>4 DEF QueueOK
<1>9. New = Ahead(f)' \cup UNION {Loose(thread'[s], buffer'[s]) : s \in Threads}
  BY <1>4, <1>5 DEF QueueOK
<1> QED
  BY <1>3, <1>6, <1>7, <1>8, <1>9 DEF QueueOK

\* push_back of a vertex that is not in the queue yet.
LEMMA PushedQueue ==
  ASSUME NEW f, NEW New, QueueOK(f, New), DOMAIN thread = Threads,
         NEW t \in Threads, NEW next, NEW v \in Node, v \notin New, v \notin Old(f),
         ~Flushing(thread[t]), ~Flushing(next), next.at # "joined",
         BufferPush(t, v, next), queue' = queue
  PROVE  QueueOK(f, New \cup {v})'
<1>0. PICK b : b = buffer[t]
  OBVIOUS
<1>1. BufferOK(thread[t], b, queue, f) /\ b \in Seq(Node) /\ IsInjective(b) /\ DOMAIN buffer = Threads
  BY <1>0 DEF QueueOK, BufferOK, Flushing
<1>2. Elems(b) \subseteq New /\ v \notin Elems(b) /\ Elems(b) = Loose(thread[t], b)
  <2>1. Elems(b) = Loose(thread[t], b)
    BY DEF Loose, Flushing
  <2> QED
    BY <1>0, <2>1 DEF QueueOK
<1>3. v \notin Placed(f)
  <2>1. v \notin Ahead(f)
    BY DEF QueueOK
  <2>2. ASSUME NEW i \in 0 .. queue.in - 1 PROVE f[i] # v
    <3>1. queue.in \in Nat /\ queue.end \in Nat
      BY DEF QueueOK, QueueType
    <3>2. i \in 0 .. queue.end - 1 \/ i \in queue.end .. queue.in - 1
      BY <3>1
    <3> QED
      BY <2>1, <3>2 DEF Ahead, Old
  <2> QED
    BY <2>2 DEF Placed
<1>4. \A s \in Threads : v \notin Loose(thread[s], buffer[s])
  BY DEF QueueOK
<1>5. /\ DOMAIN buffer' = Threads /\ DOMAIN thread' = Threads
      /\ \A s \in Threads : s # t => thread'[s] = thread[s] /\ buffer'[s] = buffer[s]
      /\ BufferOK(thread'[t], buffer'[t], queue, f)
      /\ Loose(thread'[t], buffer'[t]) = Loose(thread[t], b) \cup {v}
      /\ \A i : ~Owes(thread'[t], buffer'[t], i)
  <2>1. CASE Len(b) = BufferSize
    <3>1. PICK x : x = [at |-> "reserve", held |-> <<v>>, next |-> next]
      OBVIOUS
    <3>2. thread' = [thread EXCEPT ![t] = x] /\ buffer' = buffer
      BY <1>0, <2>1, <3>1 DEF BufferPush, Goes
    <3>3. thread'[t] = x /\ buffer'[t] = b
      BY <1>0, <3>2
    <3>4. x.at = "reserve" /\ x.held = <<v>> /\ x.next = next /\ Elems(x.held) = {v}
      BY <3>1, SeqFacts
    <3>5. next # Joined
      BY DEF Joined
    <3>6. BufferOK(x, b, queue, f)
      BY <1>1, <1>2, <3>4, <3>5 DEF BufferOK, Flushing
    <3>7. Loose(x, b) = Loose(thread[t], b) \cup {v}
      BY <1>2, <3>4 DEF Loose
    <3>8. \A i : ~Owes(x, b, i)
      BY <3>4 DEF Owes
    <3> QED
      BY <1>1, <3>2, <3>3, <3>6, <3>7, <3>8
  <2>2. CASE Len(b) # BufferSize
    <3>1. thread' = [thread EXCEPT ![t] = next] /\ buffer' = [buffer EXCEPT ![t] = Append(@, v)]
      BY <1>0, <2>2 DEF BufferPush, Goes
    <3>2. PICK c : c = Append(b, v)
      OBVIOUS
    <3>3. thread'[t] = next /\ buffer'[t] = c
      BY <1>0, <1>1, <3>1, <3>2
    <3>4. c \in Seq(Node) /\ Elems(c) = Elems(b) \cup {v} /\ IsInjective(c)
      BY <1>1, <1>2, <3>2, SeqFacts
    <3>5. BufferOK(next, c, queue, f)
      BY <3>4 DEF BufferOK, Flushing
    <3>6. Loose(next, c) = Loose(thread[t], b) \cup {v}
      BY <1>2, <3>4 DEF Loose, Flushing
    <3>7. \A i : ~Owes(next, c, i)
      BY DEF Owes, Flushing
    <3> QED
      BY <1>1, <3>1, <3>3, <3>5, <3>6, <3>7
  <2> QED
    BY <2>1, <2>2
<1>6. ASSUME NEW s \in Threads
      PROVE  /\ BufferOK(thread'[s], buffer'[s], queue', f)
             /\ Loose(thread'[s], buffer'[s]) \subseteq Loose(thread[s], buffer[s]) \cup {v}
             /\ Loose(thread[s], buffer[s]) \subseteq Loose(thread'[s], buffer'[s])
             /\ s # t => Loose(thread'[s], buffer'[s]) = Loose(thread[s], buffer[s])
             /\ \A i : Owes(thread'[s], buffer'[s], i) <=> Owes(thread[s], buffer[s], i)
  <2>1. CASE s # t
    <3>1. thread'[s] = thread[s] /\ buffer'[s] = buffer[s] /\ BufferOK(thread[s], buffer[s], queue, f)
      BY <1>5, <2>1 DEF QueueOK
    <3> QED
      BY <3>1
  <2>2. CASE s = t
    <3>1. \A i : ~Owes(thread[t], buffer[t], i)
      BY DEF Owes, Flushing
    <3>2. Loose(thread'[s], buffer'[s]) = Loose(thread[s], buffer[s]) \cup {v}
      BY <1>0, <1>5, <2>2
    <3>3. BufferOK(thread'[s], buffer'[s], queue', f)
      BY <1>5, <2>2
    <3>4. \A i : ~Owes(thread'[s], buffer'[s], i)
      BY <1>5, <2>2
    <3> QED
      BY <2>2, <3>1, <3>2, <3>3, <3>4
  <2> QED
    BY <2>1, <2>2
<1>7. Ahead(f)' = Ahead(f) /\ Placed(f)' = Placed(f)
  BY DEF Ahead, Placed
<1>8. UNION {Loose(thread'[s], buffer'[s]) : s \in Threads}
        = (UNION {Loose(thread[s], buffer[s]) : s \in Threads}) \cup {v}
  <2>1. v \in Loose(thread'[t], buffer'[t])
    BY <1>5
  <2> QED
    BY <1>6, <2>1
<1>9. /\ QueueType(queue') /\ f \in [0 .. queue'.in - 1 -> Node] /\ IsInjective(f)
      /\ DOMAIN buffer' = Threads
  BY <1>5 DEF QueueOK
<1>10. \A i \in 0 .. queue'.in - 1 :
         i < N => f[i] = queue'.shared[i] \/ \E s \in Threads : Owes(thread'[s], buffer'[s], i)
  BY <1>6 DEF QueueOK
<1>11. \A s \in Threads : Loose(thread'[s], buffer'[s]) \cap Placed(f)' = {}
  BY <1>3, <1>6, <1>7 DEF QueueOK
<1>12. ASSUME NEW t1 \in Threads, NEW t2 \in Threads, t1 # t2
       PROVE  Loose(thread'[t1], buffer'[t1]) \cap Loose(thread'[t2], buffer'[t2]) = {}
  <2>1. Loose(thread[t1], buffer[t1]) \cap Loose(thread[t2], buffer[t2]) = {}
    BY <1>12 DEF QueueOK
  <2>2. t1 # t \/ t2 # t
    BY <1>12
  <2> QED
    BY <1>4, <1>6, <2>1, <2>2
<1>13. New \cup {v} = Ahead(f)' \cup UNION {Loose(thread'[s], buffer'[s]) : s \in Threads}
  BY <1>7, <1>8 DEF QueueOK
<1>14. \A s \in Threads : BufferOK(thread'[s], buffer'[s], queue', f)
  BY <1>6
<1> QED
  BY <1>9, <1>10, <1>11, <1>12, <1>13, <1>14 DEF QueueOK

\* fetch_and_add on shared_in: the reserved places get their vertices.
LEMMA ReservedQueue ==
  ASSUME NEW f, NEW New, QueueOK(f, New), DOMAIN thread = Threads,
         NEW t \in Threads, Reserve(t)
  PROVE  \E g : /\ QueueOK(g, New)'
                /\ \A i \in 0 .. queue.in - 1 : g[i] = f[i]
<1>0. PICK b : b = buffer[t]
  OBVIOUS
<1>q. PICK in \in Nat : in = queue.in
  BY DEF QueueOK, QueueType
<1>h. PICK th : th = thread[t]
  OBVIOUS
<1>x. PICK x : x = [at |-> "copy", held |-> th.held, next |-> th.next, base |-> in]
  OBVIOUS
<1>1. /\ th.at = "reserve" /\ buffer' = buffer /\ thread' = [thread EXCEPT ![t] = x]
      /\ x.at = "copy" /\ x.held = th.held /\ x.next = th.next /\ x.base = in
  BY <1>q, <1>h, <1>x DEF Reserve, Goes
<1>2. /\ BufferOK(th, b, queue, f) /\ b \in Seq(Node) /\ IsInjective(b)
      /\ Len(b) \in Nat /\ DOMAIN b = 1 .. Len(b)
      /\ \A j \in 1 .. Len(b) : b[j] \in Node
  BY <1>0, <1>1, <1>h DEF QueueOK, BufferOK
<1>3. /\ queue'.in = in + Len(b) /\ queue'.start = queue.start /\ queue'.end = queue.end
      /\ queue'.shared = queue.shared /\ QueueType(queue')
  <2>1. queue' = [queue EXCEPT !.in = @ + Len(b)] /\ QueueType(queue)
    BY <1>0 DEF Reserve, QueueOK
  <2> QED
    BY <1>2, <1>q, <2>1 DEF QueueType
<1>4. /\ f \in [0 .. in - 1 -> Node] /\ IsInjective(f) /\ DOMAIN f = 0 .. in - 1
      /\ Placed(f) = {f[i] : i \in 0 .. in - 1}
  BY <1>q DEF QueueOK, Placed
<1>5. Loose(th, b) = Elems(b) \cup Elems(th.held) /\ Loose(th, b) \cap Placed(f) = {}
  BY <1>0, <1>1, <1>h DEF Loose, QueueOK
<1>g. PICK g : g = [i \in 0 .. in + Len(b) - 1 |-> IF i < in THEN f[i] ELSE b[i - in + 1]]
  OBVIOUS
<1>6. /\ g \in [0 .. in + Len(b) - 1 -> Node] /\ DOMAIN g = 0 .. in + Len(b) - 1
      /\ \A i \in 0 .. in - 1 : i \in DOMAIN g /\ g[i] = f[i]
      /\ \A j \in 1 .. Len(b) : in + j - 1 \in DOMAIN g /\ g[in + j - 1] = b[j]
      /\ \A i \in DOMAIN g : \/ i \in 0 .. in - 1
                             \/ i - in + 1 \in 1 .. Len(b) /\ g[i] = b[i - in + 1]
  <2>1. \A i \in 0 .. in + Len(b) - 1 : i \in 0 .. in - 1 \/ (~(i < in) /\ i - in + 1 \in 1 .. Len(b))
    BY <1>2
  <2>2. DOMAIN g = 0 .. in + Len(b) - 1
    BY <1>g
  <2>3. \A i \in 0 .. in - 1 : i \in DOMAIN g /\ g[i] = f[i]
    BY <1>2, <1>g, <2>2
  <2>4. \A j \in 1 .. Len(b) : in + j - 1 \in DOMAIN g /\ g[in + j - 1] = b[j]
    <3>1. SUFFICES ASSUME NEW j \in 1 .. Len(b)
                   PROVE  in + j - 1 \in DOMAIN g /\ g[in + j - 1] = b[j]
      OBVIOUS
    <3>2. in + j - 1 \in 0 .. in + Len(b) - 1 /\ ~(in + j - 1 < in) /\ (in + j - 1) - in + 1 = j
      BY <1>2
    <3> QED
      BY <1>g, <2>2, <3>2
  <2>5. \A i \in 0 .. in + Len(b) - 1 : ~(i < in) => g[i] = b[i - in + 1]
    BY <1>g
  <2>6. \A i \in 0 .. in + Len(b) - 1 : g[i] \in Node
    <3>1. SUFFICES ASSUME NEW i \in 0 .. in + Len(b) - 1 PROVE g[i] \in Node
      OBVIOUS
    <3>2. CASE i \in 0 .. in - 1
      BY <1>4, <2>3, <3>2
    <3>3. CASE ~(i < in) /\ i - in + 1 \in 1 .. Len(b)
      BY <1>2, <2>5, <3>3
    <3> QED
      BY <2>1, <3>2, <3>3
  <2>7. g \in [0 .. in + Len(b) - 1 -> Node]
    BY <1>g, <2>2, <2>6
  <2> QED
    BY <2>1, <2>2, <2>3, <2>4, <2>5, <2>7
<1>7. IsInjective(g)
  <2>1. SUFFICES ASSUME NEW i \in DOMAIN g, NEW j \in DOMAIN g, g[i] = g[j] PROVE i = j
    BY DEF IsInjective
  <2>2. ASSUME NEW m \in 0 .. in - 1, NEW n \in 1 .. Len(b) PROVE f[m] # b[n]
    <3>1. f[m] \in Placed(f) /\ b[n] \in Elems(b)
      BY <1>2, <1>4 DEF Elems
    <3> QED
      BY <1>5, <3>1
  <2>3. CASE i \in 0 .. in - 1 /\ j \in 0 .. in - 1
    BY <1>4, <1>6, <2>1, <2>3 DEF IsInjective
  <2>4. CASE i - in + 1 \in 1 .. Len(b) /\ g[i] = b[i - in + 1] /\ j \in 0 .. in - 1
    BY <1>6, <2>1, <2>2, <2>4
  <2>5. CASE j - in + 1 \in 1 .. Len(b) /\ g[j] = b[j - in + 1] /\ i \in 0 .. in - 1
    BY <1>6, <2>1, <2>2, <2>5
  <2>6. CASE /\ i - in + 1 \in 1 .. Len(b) /\ g[i] = b[i - in + 1]
             /\ j - in + 1 \in 1 .. Len(b) /\ g[j] = b[j - in + 1]
    <3>1. i - in + 1 = j - in + 1
      BY <1>2, <2>1, <2>6 DEF IsInjective
    <3> QED
      BY <1>6, <3>1
  <2> QED
    BY <1>6, <2>3, <2>4, <2>5, <2>6
<1>8. Placed(g)' = Placed(f) \cup Elems(b)
  <2>1. Placed(g)' = {g[i] : i \in DOMAIN g}
    BY <1>3, <1>6 DEF Placed
  <2>2. Elems(b) = {b[j] : j \in 1 .. Len(b)}
    BY <1>2 DEF Elems
  <2>3. {g[i] : i \in DOMAIN g} \subseteq Placed(f) \cup Elems(b)
    BY <1>4, <1>6, <2>2
  <2>4. Placed(f) \cup Elems(b) \subseteq {g[i] : i \in DOMAIN g}
    <3>1. Placed(f) \subseteq {g[i] : i \in DOMAIN g}
      BY <1>4, <1>6
    <3>2. Elems(b) \subseteq {g[i] : i \in DOMAIN g}
      <4>1. SUFFICES ASSUME NEW j \in 1 .. Len(b) PROVE b[j] \in {g[i] : i \in DOMAIN g}
        BY <2>2
      <4>2. in + j - 1 \in DOMAIN g /\ g[in + j - 1] = b[j]
        BY <1>6
      <4> QED
        BY <4>2
    <3> QED
      BY <3>1, <3>2
  <2> QED
    BY <2>1, <2>3, <2>4
<1>9. Ahead(g)' = Ahead(f) \cup Elems(b)
  <2>0. queue.end \in Nat /\ queue.end <= in
    BY <1>q DEF QueueOK, QueueType
  <2>1. Ahead(g)' = {g[i] : i \in queue.end .. in + Len(b) - 1} /\ Ahead(f) = {f[i] : i \in queue.end .. in - 1}
    BY <1>3, <1>q DEF Ahead
  <2>2. Elems(b) = {b[j] : j \in 1 .. Len(b)}
    BY <1>2 DEF Elems
  <2>3. \A i \in queue.end .. in - 1 : i \in 0 .. in - 1 /\ i \in queue.end .. in + Len(b) - 1
    BY <1>2, <2>0
  <2>4. \A j \in 1 .. Len(b) : in + j - 1 \in queue.end .. in + Len(b) - 1
    BY <1>2, <2>0
  <2>5. \A i \in queue.end .. in + Len(b) - 1 : i \in DOMAIN g /\ (i \in 0 .. in - 1 => i \in queue.end .. in - 1)
    BY <1>2, <1>6, <2>0
  <2>6. {g[i] : i \in queue.end .. in + Len(b) - 1} \subseteq Ahead(f) \cup Elems(b)
    BY <1>6, <2>1, <2>2, <2>5
  <2>7. Ahead(f) \cup Elems(b) \subseteq {g[i] : i \in queue.end .. in + Len(b) - 1}
    BY <1>6, <2>1, <2>2, <2>3, <2>4
  <2> QED
    BY <2>1, <2>6, <2>7
<1>10. /\ DOMAIN thread' = Threads /\ thread'[t] = x /\ DOMAIN buffer' = Threads /\ buffer' = buffer
       /\ \A s \in Threads : s # t => thread'[s] = thread[s]
  BY <1>1 DEF QueueOK
<1>11. Loose(x, b) = Elems(th.held) /\ Loose(x, b) \cap Elems(b) = {}
  BY <1>1, <1>2 DEF Loose, BufferOK
<1>12. ASSUME NEW s \in Threads
       PROVE  /\ BufferOK(thread'[s], buffer'[s], queue', g)
              /\ Loose(thread'[s], buffer'[s]) \subseteq Loose(thread[s], buffer[s])
              /\ Loose(thread'[s], buffer'[s]) \cap Elems(b) = {}
              /\ Loose(thread[s], buffer[s]) \subseteq Loose(thread'[s], buffer'[s]) \cup Elems(b)
              /\ \A i : Owes(thread[s], buffer[s], i) => Owes(thread'[s], buffer'[s], i)
  <2>1. CASE s # t
    <3>1. thread'[s] = thread[s] /\ buffer'[s] = buffer[s] /\ BufferOK(thread[s], buffer[s], queue, f)
      BY <1>10, <2>1 DEF QueueOK
    <3>p. PICK y, c : y = thread[s] /\ c = buffer[s]
      OBVIOUS
    <3>2. y.at = "copy" =>
             /\ y.base \in Nat /\ y.base >= queue'.end /\ y.base + Len(c) <= queue'.in
             /\ \A j \in 1 .. Len(c) : g[y.base + j - 1] = c[j]
      <4>1. SUFFICES ASSUME y.at = "copy"
                     PROVE  /\ y.base \in Nat /\ y.base >= queue'.end /\ y.base + Len(c) <= queue'.in
                            /\ \A j \in 1 .. Len(c) : g[y.base + j - 1] = c[j]
        OBVIOUS
      <4>2. /\ y.base \in Nat /\ y.base >= queue.end /\ y.base + Len(c) <= in /\ Len(c) \in Nat
            /\ \A j \in 1 .. Len(c) : f[y.base + j - 1] = c[j]
        BY <1>q, <3>1, <3>p, <4>1 DEF BufferOK
      <4>3. \A j \in 1 .. Len(c) : y.base + j - 1 \in 0 .. in - 1
        BY <4>2
      <4>4. \A j \in 1 .. Len(c) : g[y.base + j - 1] = c[j]
        BY <1>6, <4>2, <4>3
      <4> QED
        BY <1>2, <1>3, <4>2, <4>4
    <3>3. BufferOK(thread'[s], buffer'[s], queue', g)
      BY <3>1, <3>2, <3>p DEF BufferOK
    <3>4. Loose(thread[s], buffer[s]) \cap Loose(th, b) = {}
      BY <1>0, <1>h, <2>1 DEF QueueOK
    <3> QED
      BY <1>5, <3>1, <3>3, <3>4
  <2>2. CASE s = t
    <3>1. thread'[s] = x /\ buffer'[s] = b /\ thread[s] = th /\ buffer[s] = b
      BY <1>0, <1>10, <1>h, <2>2
    <3>2. BufferOK(x, b, queue', g)
      <4>1. x.base \in Nat /\ x.base >= queue'.end /\ x.base + Len(b) <= queue'.in
        BY <1>1, <1>2, <1>3, <1>q DEF QueueOK, QueueType
      <4>2. \A j \in 1 .. Len(b) : g[x.base + j - 1] = b[j]
        BY <1>1, <1>6
      <4> QED
        BY <1>1, <1>2, <4>1, <4>2 DEF BufferOK, Flushing
    <3>3. \A i : ~Owes(th, b, i)
      BY <1>1 DEF Owes
    <3> QED
      BY <1>5, <1>11, <3>1, <3>2, <3>3
  <2> QED
    BY <2>1, <2>2
<1>13. ASSUME NEW i \in 0 .. queue'.in - 1, i < N
       PROVE  g[i] = queue'.shared[i] \/ \E s \in Threads : Owes(thread'[s], buffer'[s], i)
  <2>1. CASE i \in 0 .. in - 1
    <3>1. f[i] = queue.shared[i] \/ \E s \in Threads : Owes(thread[s], buffer[s], i)
      BY <1>13, <1>q, <2>1 DEF QueueOK
    <3>2. CASE f[i] = queue.shared[i]
      BY <1>3, <1>6, <2>1, <3>2
    <3>3. CASE \E s \in Threads : Owes(thread[s], buffer[s], i)
      BY <1>12, <3>3
    <3> QED
      BY <3>1, <3>2, <3>3
  <2>2. CASE ~(i \in 0 .. in - 1)
    <3>1. i \in in .. in + Len(b) - 1
      BY <1>2, <1>3, <2>2
    <3>2. Owes(x, b, i)
      BY <1>1, <3>1 DEF Owes
    <3> QED
      BY <1>0, <1>10, <3>2
  <2> QED
    BY <2>1, <2>2
<1>14. \A s \in Threads : Loose(thread'[s], buffer'[s]) \cap Placed(g)' = {}
  BY <1>8, <1>12 DEF QueueOK
<1>15. ASSUME NEW t1 \in Threads, NEW t2 \in Threads, t1 # t2
       PROVE  Loose(thread'[t1], buffer'[t1]) \cap Loose(thread'[t2], buffer'[t2]) = {}
  <2>1. Loose(thread[t1], buffer[t1]) \cap Loose(thread[t2], buffer[t2]) = {}
    BY <1>15 DEF QueueOK
  <2> QED
    BY <1>12, <2>1
<1>16. New = Ahead(g)' \cup UNION {Loose(thread'[s], buffer'[s]) : s \in Threads}
  <2>1. New = Ahead(f) \cup UNION {Loose(thread[s], buffer[s]) : s \in Threads}
    BY DEF QueueOK
  <2>2. Elems(b) \subseteq Loose(thread[t], buffer[t])
    BY <1>0, <1>5, <1>h
  <2>3. UNION {Loose(thread[s], buffer[s]) : s \in Threads}
          \subseteq (UNION {Loose(thread'[s], buffer'[s]) : s \in Threads}) \cup Elems(b)
    BY <1>12
  <2>4. (UNION {Loose(thread'[s], buffer'[s]) : s \in Threads}) \cup Elems(b)
          \subseteq UNION {Loose(thread[s], buffer[s]) : s \in Threads}
    BY <1>12, <2>2
  <2> QED
    BY <1>9, <2>1, <2>3, <2>4
<1>17. g \in [0 .. queue'.in - 1 -> Node]
  BY <1>3, <1>6
<1>18. QueueOK(g, New)'
  <2>1. \A s \in Threads : BufferOK(thread'[s], buffer'[s], queue', g)
    BY <1>12
  <2> QED
    BY <1>3, <1>7, <1>10, <1>13, <1>14, <1>15, <1>16, <1>17, <2>1 DEF QueueOK
<1> QED
  BY <1>6, <1>18, <1>q

\* The copy into the places that were reserved.
LEMMA CopiedQueue ==
  ASSUME NEW f, NEW New, QueueOK(f, New), DOMAIN thread = Threads,
         NEW t \in Threads, CopyOut(t), ~Flushing(thread[t].next),
         thread[t].next.at = "joined" => thread[t].next = Joined
  PROVE  QueueOK(f, New)'
<1>0. PICK b : b = buffer[t]
  OBVIOUS
<1>h. PICK th : th = thread[t]
  OBVIOUS
<1>1. /\ th.at = "copy" /\ buffer' = [buffer EXCEPT ![t] = th.held]
      /\ thread' = [thread EXCEPT ![t] = th.next]
      /\ ~Flushing(th.next) /\ (th.next.at = "joined" => th.next = Joined)
  BY <1>h DEF CopyOut, Goes
<1>2. /\ BufferOK(th, b, queue, f) /\ b \in Seq(Node)
      /\ Len(b) \in Nat /\ DOMAIN b = 1 .. Len(b)
      /\ \A j \in 1 .. Len(b) : b[j] \in Node
      /\ th.base \in Nat /\ th.base >= queue.end /\ th.base + Len(b) <= queue.in
      /\ \A j \in 1 .. Len(b) : f[th.base + j - 1] = b[j]
      /\ th.held = <<>> \/ \E v \in Node : th.held = <<v>>
      /\ th.next = Joined => th.held = <<>>
  BY <1>0, <1>1, <1>h DEF QueueOK, BufferOK, Flushing
<1>i. PICK base \in Nat : base = th.base
  BY <1>2
<1>s. PICK shared : shared = queue.shared
  OBVIOUS
<1>3. /\ queue'.in = queue.in /\ queue'.start = queue.start /\ queue'.end = queue.end
      /\ queue'.shared = [i \in 0 .. N - 1 |-> IF i \in base .. base + Len(b) - 1
                                               THEN b[i - base + 1] ELSE shared[i]]
  <2>1. /\ queue' = [queue EXCEPT !.shared =
             [i \in 0 .. N - 1 |-> IF i \in base .. base + Len(b) - 1 THEN b[i - base + 1] ELSE @[i]]]
    BY <1>0, <1>h, <1>i DEF CopyOut
  <2>2. queue \in [shared : [0 .. N - 1 -> 0 .. N], in : Nat, start : Nat, end : Nat]
    BY DEF QueueOK, QueueType
  <2> QED
    BY <1>s, <2>1, <2>2
<1>4. QueueType(queue')
  <2>1. \A i \in 0 .. N - 1 : (IF i \in base .. base + Len(b) - 1
                               THEN b[i - base + 1] ELSE shared[i]) \in 0 .. N
    <3>1. SUFFICES ASSUME NEW i \in 0 .. N - 1
                   PROVE  (IF i \in base .. base + Len(b) - 1
                           THEN b[i - base + 1] ELSE shared[i]) \in 0 .. N
      OBVIOUS
    <3>2. shared[i] \in 0 .. N
      BY <1>s DEF QueueOK, QueueType
    <3>3. ASSUME i \in base .. base + Len(b) - 1 PROVE b[i - base + 1] \in 0 .. N
      <4>1. i - base + 1 \in 1 .. Len(b)
        BY <1>2, <3>3, NodeFacts
      <4>2. b[i - base + 1] \in Node
        BY <1>2, <4>1
      <4> QED
        BY <4>2, NodeFacts DEF Node
    <3> QED
      BY <3>2, <3>3
  <2>2. queue'.shared \in [0 .. N - 1 -> 0 .. N]
    BY <1>3, <2>1
  <2>3. /\ queue' = [queue EXCEPT !.shared = queue'.shared]
        /\ queue \in [shared : [0 .. N - 1 -> 0 .. N], in : Nat, start : Nat, end : Nat]
        /\ queue.start <= queue.end /\ queue.end <= queue.in
    <3>1. \E X : queue' = [queue EXCEPT !.shared = X]
      BY DEF CopyOut
    <3> QED
      BY <3>1 DEF QueueOK, QueueType
  <2> QED
    BY <1>3, <2>2, <2>3 DEF QueueType
<1>5. /\ DOMAIN thread' = Threads /\ thread'[t] = th.next
      /\ DOMAIN buffer' = Threads /\ buffer'[t] = th.held
      /\ \A s \in Threads : s # t => thread'[s] = thread[s] /\ buffer'[s] = buffer[s]
  BY <1>1 DEF QueueOK
<1>6. /\ th.held \in Seq(Node) /\ IsInjective(th.held)
  <2>1. CASE th.held = <<>>
    BY <2>1 DEF IsInjective
  <2>2. CASE \E v \in Node : th.held = <<v>>
    <3>1. PICK v \in Node : th.held = <<v>>
      BY <2>2
    <3>2. <<v>> \in Seq(Node) /\ IsInjective(<<v>>)
      BY DEF IsInjective
    <3> QED
      BY <3>1, <3>2
  <2> QED
    BY <1>2, <2>1, <2>2
<1>7. ASSUME NEW s \in Threads
      PROVE  /\ BufferOK(thread'[s], buffer'[s], queue', f)
             /\ Loose(thread'[s], buffer'[s]) = Loose(thread[s], buffer[s])
             /\ \A i : s # t => (Owes(thread[s], buffer[s], i) => Owes(thread'[s], buffer'[s], i))
  <2>1. CASE s # t
    <3>1. thread'[s] = thread[s] /\ buffer'[s] = buffer[s] /\ BufferOK(thread[s], buffer[s], queue, f)
      BY <1>5, <2>1 DEF QueueOK
    <3>2. BufferOK(thread[s], buffer[s], queue', f)
      BY <1>3, <3>1 DEF BufferOK
    <3> QED
      BY <3>1, <3>2
  <2>2. CASE s = t
    <3>1. thread'[s] = th.next /\ buffer'[s] = th.held /\ thread[s] = th /\ buffer[s] = b
      BY <1>0, <1>5, <1>h, <2>2
    <3>2. Loose(th.next, th.held) = Elems(th.held) /\ Loose(th, b) = Elems(th.held)
      BY <1>1 DEF Loose, Flushing
    <3>3. BufferOK(th.next, th.held, queue', f)
      BY <1>1, <1>2, <1>6 DEF BufferOK, Flushing
    <3> QED
      BY <2>2, <3>1, <3>2, <3>3
  <2> QED
    BY <2>1, <2>2
<1>8. ASSUME NEW i \in 0 .. queue'.in - 1, i < N
      PROVE  f[i] = queue'.shared[i] \/ \E s \in Threads : Owes(thread'[s], buffer'[s], i)
  <2>0. i \in 0 .. N - 1 /\ i \in Nat
    BY <1>3, <1>8, NodeFacts DEF QueueOK, QueueType
  <2>1. CASE i \in base .. base + Len(b) - 1
    <3>1. i - base + 1 \in 1 .. Len(b) /\ base + (i - base + 1) - 1 = i
      BY <1>2, <2>0, <2>1
    <3>2. f[i] = b[i - base + 1]
      BY <1>2, <1>i, <3>1
    <3>3. queue'.shared[i] = b[i - base + 1]
      BY <1>3, <2>0, <2>1
    <3> QED
      BY <3>2, <3>3
  <2>2. CASE ~(i \in base .. base + Len(b) - 1)
    <3>1. queue'.shared[i] = shared[i]
      BY <1>3, <2>0, <2>2
    <3>2. ~Owes(th, b, i)
      BY <1>i, <2>2 DEF Owes
    <3>3. f[i] = shared[i] \/ \E s \in Threads : Owes(thread[s], buffer[s], i)
      BY <1>3, <1>8, <1>s DEF QueueOK
    <3>4. CASE \E s \in Threads : Owes(thread[s], buffer[s], i)
      <4>1. PICK s \in Threads : Owes(thread[s], buffer[s], i)
        BY <3>4
      <4>2. s # t
        BY <1>0, <1>h, <3>2, <4>1
      <4> QED
        BY <1>7, <4>1, <4>2
    <3> QED
      BY <3>1, <3>3, <3>4
  <2> QED
    BY <2>1, <2>2
<1>9. Ahead(f)' = Ahead(f) /\ Placed(f)' = Placed(f)
  BY <1>3 DEF Ahead, Placed
<1>10. UNION {Loose(thread'[s], buffer'[s]) : s \in Threads}
        = UNION {Loose(thread[s], buffer[s]) : s \in Threads}
  BY <1>7
<1>11. f \in [0 .. queue'.in - 1 -> Node] /\ IsInjective(f)
  BY <1>3 DEF QueueOK
<1>12. /\ \A s \in Threads : Loose(thread'[s], buffer'[s]) \cap Placed(f)' = {}
       /\ \A t1, t2 \in Threads : t1 # t2 =>
            Loose(thread'[t1], buffer'[t1]) \cap Loose(thread'[t2], buffer'[t2]) = {}
  BY <1>7, <1>9 DEF QueueOK
<1>13. New = Ahead(f)' \cup UNION {Loose(thread'[s], buffer'[s]) : s \in Threads}
  BY <1>9, <1>10 DEF QueueOK
<1>14. \A s \in Threads : BufferOK(thread'[s], buffer'[s], queue', f)
  BY <1>7
<1> QED
  BY <1>4, <1>5, <1>8, <1>11, <1>12, <1>13, <1>14 DEF QueueOK

\* The flush after the last iteration.
LEMMA LastFlushQueue ==
  ASSUME NEW f, NEW New, QueueOK(f, New), DOMAIN thread = Threads,
         NEW t \in Threads, LastFlush(t)
  PROVE  QueueOK(f, New)'
<1>x. PICK x : x = [at |-> "reserve", held |-> <<>>, next |-> Joined]
  OBVIOUS
<1>1. /\ thread[t] = Idle /\ thread' = [thread EXCEPT ![t] = x] /\ queue' = queue /\ buffer' = buffer
      /\ x.at = "reserve" /\ x.held = <<>> /\ x.next = Joined /\ Elems(x.held) = {}
      /\ thread[t].at = "idle"
  BY <1>x, SeqFacts DEF LastFlush, Goes, queueVars, Idle
<1>2. /\ DOMAIN thread' = Threads /\ thread'[t] = x
      /\ \A s \in Threads : s # t => thread'[s] = thread[s]
  BY <1>1
<1>3. ASSUME NEW s \in Threads
      PROVE  /\ BufferOK(thread'[s], buffer[s], queue, f)
             /\ Loose(thread'[s], buffer[s]) = Loose(thread[s], buffer[s])
             /\ \A i : Owes(thread'[s], buffer[s], i) <=> Owes(thread[s], buffer[s], i)
  <2>1. BufferOK(thread[s], buffer[s], queue, f)
    BY DEF QueueOK
  <2>2. CASE s # t
    BY <1>2, <2>1, <2>2
  <2>3. CASE s = t
    <3>1. BufferOK(x, buffer[s], queue, f)
      BY <1>1, <2>1, <2>3 DEF BufferOK, Flushing
    <3>2. Loose(x, buffer[s]) = Loose(thread[s], buffer[s])
      BY <1>1, <2>3 DEF Loose
    <3>3. \A i : ~Owes(x, buffer[s], i) /\ ~Owes(thread[s], buffer[s], i)
      BY <1>1, <2>3 DEF Owes
    <3> QED
      BY <1>2, <2>3, <3>1, <3>2, <3>3
  <2> QED
    BY <2>2, <2>3
<1>4. Ahead(f)' = Ahead(f) /\ Placed(f)' = Placed(f)
  BY <1>1 DEF Ahead, Placed
<1>5. UNION {Loose(thread'[s], buffer'[s]) : s \in Threads}
        = UNION {Loose(thread[s], buffer[s]) : s \in Threads}
  BY <1>1, <1>3
<1>6. /\ QueueType(queue') /\ f \in [0 .. queue'.in - 1 -> Node] /\ IsInjective(f)
      /\ DOMAIN buffer' = Threads
  BY <1>1 DEF QueueOK
<1>7. \A i \in 0 .. queue'.in - 1 :
        i < N => f[i] = queue'.shared[i] \/ \E s \in Threads : Owes(thread'[s], buffer'[s], i)
  BY <1>1, <1>3 DEF QueueOK
<1>8. /\ \A s \in Threads : Loose(thread'[s], buffer'[s]) \cap Placed(f)' = {}
      /\ \A t1, t2 \in Threads : t1 # t2 =>
           Loose(thread'[t1], buffer'[t1]) \cap Loose(thread'[t2], buffer'[t2]) = {}
  BY <1>1, <1>3, <1>4 DEF QueueOK
<1>9. New = Ahead(f)' \cup UNION {Loose(thread'[s], buffer'[s]) : s \in Threads}
  BY <1>4, <1>5 DEF QueueOK
<1>10. \A s \in Threads : BufferOK(thread'[s], buffer'[s], queue', f)
  BY <1>1, <1>3
<1> QED
  BY <1>6, <1>7, <1>8, <1>9, <1>10 DEF QueueOK

\* The end of a parallel loop, when no thread flushes. After one that filled
\* the queue, every thread has joined and its buffer is empty; in the others
\* nothing was pushed.
LEMMA RestartedQueue ==
  ASSUME NEW f, NEW New, QueueOK(f, New), \A t \in Threads : ~Flushing(thread[t]),
         thread' = [t \in Threads |-> Idle], queue' = queue, buffer' = buffer
  PROVE  QueueOK(f, New)'
<1>1. \A s \in Threads : thread'[s] = Idle /\ thread'[s].at = "idle"
  BY DEF Idle
<1>2. ASSUME NEW s \in Threads
      PROVE  /\ BufferOK(thread'[s], buffer[s], queue, f)
             /\ Loose(thread'[s], buffer[s]) = Loose(thread[s], buffer[s])
             /\ \A i : Owes(thread'[s], buffer[s], i) <=> Owes(thread[s], buffer[s], i)
  <2>1. BufferOK(thread[s], buffer[s], queue, f)
    BY DEF QueueOK
  <2>2. thread'[s].at = "idle"
    BY <1>1
  <2>3. BufferOK(thread'[s], buffer[s], queue, f)
    BY <2>1, <2>2 DEF BufferOK, Flushing
  <2>4. Loose(thread'[s], buffer[s]) = Loose(thread[s], buffer[s])
    BY <2>2 DEF Loose, Flushing
  <2>5. \A i : ~Owes(thread'[s], buffer[s], i) /\ ~Owes(thread[s], buffer[s], i)
    BY <2>2 DEF Owes, Flushing
  <2> QED
    BY <2>3, <2>4, <2>5
<1>4. Ahead(f)' = Ahead(f) /\ Placed(f)' = Placed(f)
  BY DEF Ahead, Placed
<1>5. UNION {Loose(thread'[s], buffer'[s]) : s \in Threads}
        = UNION {Loose(thread[s], buffer[s]) : s \in Threads}
  BY <1>2
<1>6. /\ QueueType(queue') /\ f \in [0 .. queue'.in - 1 -> Node] /\ IsInjective(f)
      /\ DOMAIN buffer' = Threads
  BY DEF QueueOK
<1>7. \A i \in 0 .. queue'.in - 1 :
        i < N => f[i] = queue'.shared[i] \/ \E s \in Threads : Owes(thread'[s], buffer'[s], i)
  BY <1>2 DEF QueueOK
<1>8. /\ \A s \in Threads : Loose(thread'[s], buffer'[s]) \cap Placed(f)' = {}
      /\ \A t1, t2 \in Threads : t1 # t2 =>
           Loose(thread'[t1], buffer'[t1]) \cap Loose(thread'[t2], buffer'[t2]) = {}
  BY <1>2, <1>4 DEF QueueOK
<1>9. New = Ahead(f)' \cup UNION {Loose(thread'[s], buffer'[s]) : s \in Threads}
  BY <1>4, <1>5 DEF QueueOK
<1>10. \A s \in Threads : BufferOK(thread'[s], buffer'[s], queue', f)
  BY <1>2
<1> QED
  BY <1>6, <1>7, <1>8, <1>9, <1>10 DEF QueueOK

LEMMA JoinedBuffers ==
  ASSUME NEW f, NEW New, QueueOK(f, New), AllJoined
  PROVE  \A t \in Threads : buffer[t] = <<>> /\ ~Flushing(thread[t])
<1>1. ASSUME NEW t \in Threads PROVE buffer[t] = <<>> /\ ~Flushing(thread[t])
  <2>1. thread[t].at = "joined"
    BY DEF AllJoined, Joined
  <2>2. BufferOK(thread[t], buffer[t], queue, f)
    BY DEF QueueOK
  <2> QED
    BY <2>1, <2>2 DEF BufferOK, Flushing
<1> QED
  BY <1>1

LEMMA EmptyBuffers ==
  ASSUME NEW f, QueueOK(f, {}), \A t \in Threads : ~Flushing(thread[t])
  PROVE  \A t \in Threads : buffer[t] = <<>>
<1>1. ASSUME NEW t \in Threads PROVE buffer[t] = <<>>
  <2>1. Loose(thread[t], buffer[t]) = {} /\ BufferOK(thread[t], buffer[t], queue, f)
    BY DEF QueueOK
  <2>2. Loose(thread[t], buffer[t]) = Elems(buffer[t]) /\ buffer[t] \in Seq(Node)
    BY <2>1 DEF Loose, Flushing, BufferOK
  <2> QED
    BY <2>1, <2>2, SeqFacts
<1> QED
  BY <1>1

\* slide_window: what was pushed becomes the window.
LEMMA SlidQueue ==
  ASSUME NEW f, NEW New, QueueOK(f, New),
         \A t \in Threads : buffer[t] = <<>> /\ ~Flushing(thread[t]),
         thread' = [t \in Threads |-> Idle], queue' = Slide(queue), buffer' = buffer
  PROVE  /\ QueueOK(f, {})' /\ InPlace(f, New)'
         /\ Placed(f)' = Placed(f) /\ Placed(f) = Old(f) \cup New
<1>1. \A s \in Threads : /\ thread'[s].at = "idle" /\ buffer'[s] = <<>> /\ buffer[s] = <<>>
                         /\ Loose(thread[s], buffer[s]) = {} /\ Loose(thread'[s], buffer'[s]) = {}
                         /\ \A i : ~Owes(thread[s], buffer[s], i)
  BY SeqFacts DEF Idle, Loose, Owes, Flushing
<1>2. /\ queue'.in = queue.in /\ queue'.end = queue.in /\ queue'.start = queue.end
      /\ queue'.shared = queue.shared /\ QueueType(queue')
  <2>1. QueueType(queue)
    BY DEF QueueOK
  <2>2. queue' = [[queue EXCEPT !.start = queue.end] EXCEPT !.end = queue.in]
    BY DEF Slide
  <2>3. PICK q : q = [queue EXCEPT !.start = queue.end]
    OBVIOUS
  <2>4. /\ q \in [shared : [0 .. N - 1 -> 0 .. N], in : Nat, start : Nat, end : Nat]
        /\ q.in = queue.in /\ q.end = queue.end /\ q.start = queue.end /\ q.shared = queue.shared
    BY <2>1, <2>3 DEF QueueType
  <2>5. /\ queue' \in [shared : [0 .. N - 1 -> 0 .. N], in : Nat, start : Nat, end : Nat]
        /\ queue'.in = q.in /\ queue'.end = queue.in /\ queue'.start = q.start
        /\ queue'.shared = q.shared
    BY <2>1, <2>2, <2>3, <2>4 DEF QueueType
  <2> QED
    BY <2>1, <2>4, <2>5 DEF QueueType
<1>3. New = Ahead(f)
  BY <1>1 DEF QueueOK
<1>4. Placed(f)' = Placed(f) /\ InPlace(f, New)'
  BY <1>2, <1>3 DEF Placed, InPlace, Ahead
<1>5. Placed(f) = Old(f) \cup New
  <2>1. queue.in \in Nat /\ queue.end \in Nat /\ queue.end <= queue.in
    BY DEF QueueOK, QueueType
  <2>2. 0 .. queue.in - 1 = (0 .. queue.end - 1) \cup (queue.end .. queue.in - 1)
    BY <2>1
  <2> QED
    BY <1>3, <2>2 DEF Placed, Old, Ahead
<1>6. {} = Ahead(f)' \cup UNION {Loose(thread'[s], buffer'[s]) : s \in Threads}
  <2>1. Ahead(f)' = {}
    <3>1. queue'.end .. queue'.in - 1 = {}
      BY <1>2 DEF QueueType
    <3> QED
      BY <3>1 DEF Ahead
  <2> QED
    BY <1>1, <2>1
<1>7. ASSUME NEW s \in Threads PROVE BufferOK(thread'[s], buffer'[s], queue', f)
  <2>1. <<>> \in Seq(Node) /\ IsInjective(<<>>)
    BY DEF IsInjective
  <2> QED
    BY <1>1, <2>1 DEF BufferOK, Flushing
<1>8. \A i \in 0 .. queue'.in - 1 : i < N => f[i] = queue'.shared[i]
  BY <1>1, <1>2 DEF QueueOK
<1>9. f \in [0 .. queue'.in - 1 -> Node] /\ IsInjective(f) /\ DOMAIN buffer' = Threads
  BY <1>2 DEF QueueOK
<1>10. /\ \A s \in Threads : Loose(thread'[s], buffer'[s]) \cap Placed(f)' = {}
       /\ \A t1, t2 \in Threads : t1 # t2 =>
            Loose(thread'[t1], buffer'[t1]) \cap Loose(thread'[t2], buffer'[t2]) = {}
  BY <1>1
<1>11. QueueOK(f, {})'
  BY <1>2, <1>6, <1>7, <1>8, <1>9, <1>10 DEF QueueOK
<1> QED
  BY <1>4, <1>5, <1>11

-----------------------------------------------------------------------------
(* One step of the search                                                  *)

\* What is to be shown of a step.
StepsOn(W) ==
  /\ ParentsOK(W)'
  /\ (\E k \in 0 .. N : \E f : LevelInv(W, k, f)') \/ DoneInv(W)'

ThreadStep(t) == \/ TDStep(t) \/ QueueToBitmap(t) \/ BUStep(t) \/ BitmapToQueue(t)
                 \/ step \in {"td", "toQueue"} /\ Flush(t) /\ UNCHANGED searchVars

LEMMA NextSteps ==
  ASSUME BfsNext
  PROVE  \/ \E t \in Threads : ThreadStep(t)
         \/ GoBottomUp \/ GoTopDown \/ Return
         \/ EndTopDown \/ EndToBitmap \/ EndBottomUp \/ EndToQueue
BY DEF BfsNext, ThreadStep

\* No step changes the graph or the source.
LEMMA SameGraph ==
  ASSUME BfsNext
  PROVE  kernel' = kernel /\ graph' = graph /\ source' = source
<1>1. ASSUME NEW t \in Threads, ThreadStep(t)
      PROVE  kernel' = kernel /\ graph' = graph /\ source' = source
  <2>1. CASE TDStep(t)
    BY <2>1 DEF TDStep, TakeExpand, ReadParent, Claim, Goes, BufferPush, searchVars
  <2>2. CASE QueueToBitmap(t)
    BY <2>2 DEF QueueToBitmap, TakeToBitmap, ReadWord, SwapWord, Goes, searchVars
  <2>3. CASE BUStep(t)
    BY <2>3 DEF BUStep, TakeChunk, Look, ReadNext, WriteNext, Goes, searchVars
  <2>4. CASE BitmapToQueue(t)
    BY <2>4 DEF BitmapToQueue, TakeToQueue, PushBit, Goes, BufferPush, searchVars
  <2>5. CASE step \in {"td", "toQueue"} /\ Flush(t) /\ UNCHANGED searchVars
    BY <2>5 DEF Flush, Reserve, CopyOut, LastFlush, Goes, searchVars
  <2> QED
    BY <1>1, <2>1, <2>2, <2>3, <2>4, <2>5 DEF ThreadStep
<1>2. CASE GoBottomUp \/ GoTopDown \/ Return
  BY <1>2 DEF GoBottomUp, GoTopDown, Return, searchVars
<1>3. CASE EndTopDown \/ EndToBitmap \/ EndBottomUp \/ EndToQueue
  BY <1>3 DEF EndTopDown, EndToBitmap, EndBottomUp, EndToQueue, searchVars
<1> QED
  BY <1>1, <1>2, <1>3, NextSteps

LEMMA SameParents ==
  ASSUME NEW W, ParentsOK(W), parent' = parent, graph' = graph, source' = source
  PROVE  ParentsOK(W)' /\ Visited' = Visited
BY DEF ParentsOK, Visited

\* What a thread may do, given where it is.
LEMMA ThreadMoves ==
  ASSUME NEW t \in Threads, ThreadStep(t)
  PROVE  \/ step = "td" /\ \E i \in todo : TakeExpand(t, i)
         \/ step = "toBitmap" /\ \E i \in todo : TakeToBitmap(t, i)
         \/ step = "bu" /\ \E c \in todo : TakeChunk(t, c)
         \/ step = "toQueue" /\ \E n \in todo : TakeToQueue(t, n)
         \/ thread[t].at = "readParent" /\ ReadParent(t)
         \/ thread[t].at = "claim" /\ Claim(t)
         \/ thread[t].at = "readWord" /\ ReadWord(t)
         \/ thread[t].at = "swapWord" /\ SwapWord(t)
         \/ thread[t].at = "look" /\ Look(t)
         \/ thread[t].at = "readNext" /\ ReadNext(t)
         \/ thread[t].at = "writeNext" /\ WriteNext(t)
         \/ thread[t].at = "push" /\ PushBit(t)
         \/ /\ step \in {"td", "toQueue"} /\ UNCHANGED searchVars
            /\ \/ thread[t].at = "reserve" /\ Reserve(t)
               \/ thread[t].at = "copy" /\ CopyOut(t)
               \/ LastFlush(t)
<1>1. CASE TDStep(t)
  BY <1>1 DEF TDStep, TakeExpand, ReadParent, Claim
<1>2. CASE QueueToBitmap(t)
  BY <1>2 DEF QueueToBitmap, TakeToBitmap, ReadWord, SwapWord
<1>3. CASE BUStep(t)
  BY <1>3 DEF BUStep, TakeChunk, Look, ReadNext, WriteNext
<1>4. CASE BitmapToQueue(t)
  BY <1>4 DEF BitmapToQueue, TakeToQueue, PushBit
<1>5. CASE step \in {"td", "toQueue"} /\ Flush(t) /\ UNCHANGED searchVars
  BY <1>5 DEF Flush, Reserve, CopyOut
<1> QED
  BY <1>1, <1>2, <1>3, <1>4, <1>5 DEF ThreadStep

\* Between two levels: which way the next one goes, or the end.
LEMMA LoopStep ==
  ASSUME graph \in Graphs, source \in Node, NEW W, IsWithin(source, W), ParentsOK(W),
         NEW k \in 0 .. N, NEW f, LoopInv(W[k], AtDepth(W, k), f), BfsNext
  PROVE  StepsOn(W)
<1>a. PICK A, L, B : A = W[k] /\ L = AtDepth(W, k) /\ B = W[Deeper(k)]
  OBVIOUS
<1>0. graph' = graph /\ source' = source
  BY SameGraph
<1>1. LoopInv(A, L, f) /\ Ring(source, A, L, B)
  BY <1>a, RingFacts
<1>2. /\ step = "loop" /\ AllIdle /\ QueueOK(f, {}) /\ InPlace(f, L) /\ Placed(f) \subseteq A
      /\ Visited = A /\ front \subseteq A /\ QueueType(queue)
  BY <1>1 DEF LoopInv, QueueOK
<1>3. \A t \in Threads : thread[t].at = "idle"
  BY <1>2 DEF AllIdle, Idle
<1>4. GoBottomUp \/ GoTopDown \/ Return
  <2>1. ASSUME NEW t \in Threads, ThreadStep(t) PROVE FALSE
    BY <1>2, <1>3, <2>1, ThreadMoves
  <2> QED
    BY <1>2, <2>1, NextSteps DEF EndTopDown, EndToBitmap, EndBottomUp, EndToQueue
<1>5. \A t \in Threads : ~Flushing(thread[t])
  BY <1>3 DEF Flushing
<1>6. \A u \in L : \E i \in Window(queue) : f[i] = u
  BY <1>2 DEF InPlace, Window
<1>7. Old(f) \subseteq Placed(f)
  BY <1>2 DEF Old, Placed, QueueType
<1>8. CASE GoBottomUp
  <2>1. /\ step' = "toBitmap" /\ todo' = Window(queue) /\ thread' = [t \in Threads |-> Idle]
        /\ queue' = queue /\ buffer' = buffer /\ parent' = parent /\ front' = front
    BY <1>8 DEF GoBottomUp, BeginLoop, queueVars, searchVars
  <2>2. ParentsOK(W)' /\ Visited' = Visited
    BY <1>0, <2>1, SameParents
  <2>3. QueueOK(f, {})'
    BY <1>2, <1>5, <2>1, RestartedQueue
  <2>4. InPlace(f, L)' /\ Placed(f)' = Placed(f) /\ Window(queue)' = Window(queue)
    BY <1>2, <2>1 DEF InPlace, Placed, Window
  <2>5. \A t \in Threads : BitThread(thread'[t], L)
    BY <2>1 DEF BitThread, Idle
  <2>6. \A u \in L : \E i \in todo' : f[i] = u
    BY <1>6, <2>1
  <2>7. ToBitmapInv(A, L, f)'
    BY <1>2, <2>1, <2>2, <2>3, <2>4, <2>5, <2>6 DEF ToBitmapInv
  <2>8. LevelInv(W, k, f)'
    BY <1>a, <2>7 DEF LevelInv
  <2> QED
    BY <2>2, <2>8 DEF StepsOn
<1>9. CASE GoTopDown
  <2>1. /\ step' = "td" /\ todo' = Window(queue) /\ thread' = [t \in Threads |-> Idle]
        /\ queue' = queue /\ buffer' = buffer /\ parent' = parent /\ front' = front
    BY <1>9 DEF GoTopDown, BeginLoop, queueVars
  <2>2. ParentsOK(W)' /\ Visited' = Visited
    BY <1>0, <2>1, SameParents
  <2>3. QueueOK(f, {})' /\ Visited' \ A = {}
    BY <1>2, <1>5, <2>1, <2>2, RestartedQueue
  <2>4. /\ InPlace(f, L)' /\ Old(f)' = Old(f) /\ Window(queue)' = Window(queue)
    BY <1>2, <2>1 DEF InPlace, Old, Window
  <2>5. \A t \in Threads : ExpandThread(thread[t], L)' /\ Work(thread'[t]) # Joined
    BY <2>1 DEF ExpandThread, Idle, Work, Flushing, IsExpanding, Joined
  <2>6. \A u \in L : Covered(f, u)'
    BY <1>6, <2>1 DEF Covered
  <2>7. A \subseteq Visited' /\ Visited' \subseteq B /\ Old(f)' \subseteq A
    BY <1>1, <1>2, <1>7, <2>2, <2>4 DEF Ring
  <2>8. QueueOK(f, Visited \ A)'
    BY <2>3
  <2>9. DownInv(A, L, B, f)'
    BY <1>2, <2>1, <2>4, <2>5, <2>6, <2>7, <2>8 DEF DownInv
  <2>10. LevelInv(W, k, f)'
    BY <1>a, <2>9 DEF LevelInv
  <2> QED
    BY <2>2, <2>10 DEF StepsOn
<1>10. CASE Return
  <2>1. /\ QueueEmpty(queue) /\ step' = "done" /\ todo' = {} /\ thread' = [t \in Threads |-> Idle]
        /\ parent' = [n \in Node |-> IF parent[n] < -1 THEN -1 ELSE parent[n]]
    BY <1>10 DEF Return, BeginLoop
  <2>2. L = {}
    <3>1. queue.start .. queue.end - 1 = {}
      BY <1>2, <2>1 DEF QueueEmpty, QueueType
    <3> QED
      BY <1>2, <3>1 DEF InPlace
  <2>3. A = W[N]
    BY <1>a, <2>2, RingFacts
  <2>4. parent \in [Node -> Int] /\ \A v \in Node : v \in Visited <=> parent[v] >= 0
    BY ParentsAreVertices
  <2>5. /\ parent' \in [Node -> Int]
        /\ \A v \in Node : parent[v] >= 0 => parent'[v] = parent[v]
        /\ \A v \in Node : ~(parent[v] >= 0) => parent'[v] = -1
    BY <2>1, <2>4
  <2>6. Visited' = Visited /\ \A v \in Visited : v \in Node /\ parent'[v] = parent[v]
    BY <2>4, <2>5 DEF Visited
  <2>7. ParentsOK(W)'
    <3>1. parent'[source] = source
      BY <2>6, ParentsAreVertices DEF ParentsOK
    <3>2. \A v \in Visited' \ {source'} :
            \E j \in 1 .. N : /\ v \in AtDepth(W, j)
                              /\ parent'[v] \in AtDepth(W, j - 1)
                              /\ v \in Elems(graph'.out[parent'[v]])
      BY <1>0, <2>6 DEF ParentsOK
    <3> QED
      BY <1>0, <2>5, <3>1, <3>2 DEF ParentsOK
  <2>8. \A v \in Node \ Visited' : parent'[v] = -1
    BY <2>4, <2>5, <2>6
  <2>9. DoneInv(W)'
    BY <1>2, <2>1, <2>3, <2>6, <2>8 DEF DoneInv, AllIdle
  <2> QED
    BY <2>7, <2>9 DEF StepsOn
<1> QED
  BY <1>4, <1>8, <1>9, <1>10

LEMMA TailFacts ==
  ASSUME NEW s \in Seq(Node), s # <<>>
  PROVE  /\ Head(s) \in Elems(s) /\ Head(s) \in Node
         /\ Tail(s) \in Seq(Node) /\ Elems(s) = {Head(s)} \cup Elems(Tail(s))
<1>1. /\ Len(s) \in Nat \ {0} /\ DOMAIN s = 1 .. Len(s) /\ Head(s) = s[1] /\ Head(s) \in Node
      /\ Tail(s) \in Seq(Node) /\ Len(Tail(s)) = Len(s) - 1
      /\ \A i \in 1 .. Len(s) - 1 : Tail(s)[i] = s[i + 1]
  OBVIOUS
<1>2. DOMAIN Tail(s) = 1 .. Len(s) - 1
  BY <1>1
<1>3. ASSUME NEW i \in DOMAIN s PROVE s[i] \in {Head(s)} \cup Elems(Tail(s))
  <2>1. CASE i = 1
    BY <1>1, <2>1
  <2>2. CASE i # 1
    <3>1. i - 1 \in 1 .. Len(s) - 1 /\ (i - 1) + 1 = i
      BY <1>1, <2>2
    <3>2. Tail(s)[i - 1] = s[i]
      BY <1>1, <3>1
    <3> QED
      BY <1>2, <3>1, <3>2 DEF Elems
  <2> QED
    BY <2>1, <2>2
<1>4. ASSUME NEW i \in DOMAIN Tail(s) PROVE Tail(s)[i] \in Elems(s)
  <2>1. i + 1 \in DOMAIN s /\ Tail(s)[i] = s[i + 1]
    BY <1>1, <1>2
  <2> QED
    BY <2>1 DEF Elems
<1>5. 1 \in DOMAIN s
  BY <1>1
<1> QED
  BY <1>1, <1>3, <1>4, <1>5 DEF Elems

LEMMA NextOutFacts ==
  ASSUME NEW u, NEW rest
  PROVE  \/ rest = <<>> /\ NextOut(u, rest) = Idle
         \/ /\ rest # <<>> /\ NextOut(u, rest).at = "readParent"
            /\ NextOut(u, rest).u = u /\ NextOut(u, rest).rest = rest
BY DEF NextOut, Expanding

\* What a step of thread t to x must keep while a level is expanded.
LEMMA DownKept ==
  ASSUME NEW A, NEW L, NEW B, NEW f, NEW g, NEW t \in Threads, NEW x, DownInv(A, L, B, f),
         step' = step, graph' = graph, front' = front, thread' = [thread EXCEPT ![t] = x],
         queue'.start = queue.start, queue'.end = queue.end,
         \A i \in 0 .. queue.in - 1 : g[i] = f[i],
         QueueOK(g, Visited \ A)', Visited \subseteq Visited', Visited' \subseteq B,
         todo' \subseteq todo, ExpandThread(x, L)', Work(x) = Joined => todo' = {},
         \A v \in Node : parent'[v] = parent[v] \/ parent'[v] >= 0,
         \A u \in L : Covers(Work(thread[t]), u, Visited)
            => Covers(Work(x), u, Visited') \/ Elems(graph.out[u]) \subseteq Visited',
         \A i \in todo \ todo' :
            Covers(Work(x), f[i], Visited') \/ Elems(graph.out[f[i]]) \subseteq Visited'
  PROVE  DownInv(A, L, B, g)'
<1>1. /\ step = "td" /\ QueueOK(f, Visited \ A) /\ InPlace(f, L) /\ Old(f) \subseteq A
      /\ A \subseteq Visited /\ front \subseteq A /\ todo \subseteq Window(queue)
      /\ DOMAIN thread = Threads /\ \A s \in Threads : ExpandThread(thread[s], L)
      /\ \A s \in Threads : Work(thread[s]) = Joined => todo = {}
      /\ \A u \in L : Covered(f, u)
  BY DEF DownInv
<1>2. DOMAIN thread' = Threads /\ thread'[t] = x /\ \A s \in Threads : s # t => thread'[s] = thread[s]
  BY <1>1
<1>3. /\ queue.start \in Nat /\ queue.end \in Nat /\ queue.in \in Nat
      /\ queue.start <= queue.end /\ queue.end <= queue.in
  BY <1>1 DEF QueueOK, QueueType
<1>4. InPlace(g, L)' /\ Old(g)' \subseteq A
  <2>1. \A i \in queue.start .. queue.end - 1 : g[i] = f[i]
    BY <1>3
  <2>2. \A i \in 0 .. queue.end - 1 : g[i] = f[i]
    BY <1>3
  <2> QED
    BY <1>1, <2>1, <2>2 DEF InPlace, Old
<1>5. todo' \subseteq Window(queue)' /\ todo' \subseteq Window(queue)
  BY <1>1 DEF Window
<1>6. ASSUME NEW s \in Threads
      PROVE  ExpandThread(thread[s], L)' /\ (Work(thread'[s]) = Joined => todo' = {})
  <2>1. CASE s = t
    BY <1>2, <2>1
  <2>2. CASE s # t
    <3>1. PICK th : th = thread[s]
      OBVIOUS
    <3>2. ExpandThread(th, L) /\ thread'[s] = th /\ (Work(th) = Joined => todo = {})
      BY <1>1, <1>2, <2>2, <3>1
    <3>3. th.at = "claim" => Head(th.rest) \in Node
      BY <3>2, TailFacts DEF ExpandThread, IsExpanding, Work, Flushing, Expansion
    <3>4. th.at = "claim" => parent'[Head(th.rest)] = th.val \/ parent'[Head(th.rest)] >= 0
      BY <3>2, <3>3 DEF ExpandThread
    <3>5. ExpandThread(th, L)'
      BY <3>2, <3>4 DEF ExpandThread, Expansion
    <3> QED
      BY <3>2, <3>5
  <2> QED
    BY <2>1, <2>2
<1>7. ASSUME NEW u \in L PROVE Covered(g, u)'
  <2>p. PICK V : V = Visited'
    OBVIOUS
  <2>1. CASE \E i \in todo : f[i] = u
    <3>1. PICK i \in todo : f[i] = u
      BY <2>1
    <3>2. CASE i \in todo'
      <4>1. i \in 0 .. queue.in - 1
        BY <1>1, <1>3, <3>2 DEF Window
      <4> QED
        BY <3>1, <3>2, <4>1 DEF Covered
    <3>3. CASE i \notin todo'
      <4>1. Covers(Work(x), u, V) \/ Elems(graph.out[u]) \subseteq V
        BY <2>p, <3>1, <3>3
      <4> QED
        BY <1>2, <2>p, <4>1 DEF Covered, Covers
    <3> QED
      BY <3>2, <3>3
  <2>2. CASE \E s \in Threads : Covers(Work(thread[s]), u, Visited)
    <3>1. PICK s \in Threads : Covers(Work(thread[s]), u, Visited)
      BY <2>2
    <3>2. CASE s = t
      <4>1. Covers(Work(x), u, V) \/ Elems(graph.out[u]) \subseteq V
        BY <2>p, <3>1, <3>2
      <4> QED
        BY <1>2, <2>p, <4>1 DEF Covered, Covers
    <3>3. CASE s # t
      <4>1. Covers(Work(thread'[s]), u, V)
        BY <1>2, <2>p, <3>1, <3>3 DEF Covers
      <4> QED
        BY <2>p, <4>1 DEF Covered, Covers
    <3> QED
      BY <3>2, <3>3
  <2>3. CASE Elems(graph.out[u]) \subseteq Visited
    BY <2>3 DEF Covered
  <2> QED
    BY <1>1, <2>1, <2>2, <2>3 DEF Covered
<1> QED
  BY <1>1, <1>2, <1>4, <1>5, <1>6, <1>7 DEF DownInv

(* What the phases are proved from: W, and the sets of level k.            *)
At(W, k, A, L, B) ==
  /\ graph \in Graphs /\ source \in Node /\ IsWithin(source, W) /\ ParentsOK(W)
  /\ k \in 0 .. N /\ A = W[k] /\ L = AtDepth(W, k) /\ B = W[Deeper(k)]

\* TDStep takes a vertex of the window.
LEMMA DownTakes ==
  ASSUME NEW W, NEW k, NEW A, NEW L, NEW B, At(W, k, A, L, B), NEW f, DownInv(A, L, B, f),
         NEW t \in Threads, NEW i \in todo, TakeExpand(t, i)
  PROVE  ParentsOK(W)' /\ DownInv(A, L, B, f)'
<1>1. Ring(source, A, L, B)
  BY RingFacts DEF At
<1>2. PICK u, x : u = queue.shared[i] /\ x = NextOut(u, graph.out[u])
  OBVIOUS
<1>3. /\ thread[t] = Idle /\ todo' = todo \ {i} /\ thread' = [thread EXCEPT ![t] = x]
      /\ graph' = graph /\ source' = source /\ step' = step /\ queue' = queue /\ buffer' = buffer
      /\ parent' = parent /\ front' = front
  BY <1>2 DEF TakeExpand, Take, queueVars, searchVars
<1>4. ParentsOK(W)' /\ Visited' = Visited
  BY <1>3, SameParents DEF At
<1>5. PICK New : New = Visited \ A
  OBVIOUS
<1>6. QueueOK(f, New) /\ DOMAIN thread = Threads /\ InPlace(f, L) /\ todo \subseteq Window(queue)
  BY <1>5 DEF DownInv
<1>7. u \in L /\ f[i] = u /\ u \in Node
  <2>1. i \in queue.start .. queue.end - 1
    BY <1>6 DEF Window
  <2>2. i \in 0 .. queue.end - 1
    BY <1>6, <2>1 DEF QueueOK, QueueType
  <2>3. f[i] = u
    BY <1>2, <1>6, <2>2, SharedReads
  <2> QED
    BY <1>1, <1>6, <2>1, <2>3 DEF InPlace, Ring
<1>8. \/ graph.out[u] = <<>> /\ x = Idle
      \/ graph.out[u] # <<>> /\ x.at = "readParent" /\ x.u = u /\ x.rest = graph.out[u]
  BY <1>2, NextOutFacts
<1>9. graph.out[u] \in Seq(Node) /\ Elems(<<>>) = {}
  BY <1>7, GraphFacts, SeqFacts DEF At
<1>10. QueueOK(f, New)'
  <2>1. ~Flushing(thread[t]) /\ ~Flushing(x) /\ x.at # "joined"
    BY <1>3, <1>8 DEF Flushing, Idle
  <2> QED
    BY <1>3, <1>6, <2>1, QuietQueue
<1>11. QueueOK(f, Visited \ A)'
  BY <1>4, <1>5, <1>10
<1>12. ExpandThread(x, L)' /\ Work(x) # Joined
  BY <1>3, <1>7, <1>8, <1>9 DEF ExpandThread, Expansion, Work, Flushing, IsExpanding, Idle, Joined
<1>13. Covers(Work(x), u, Visited') \/ Elems(graph.out[u]) \subseteq Visited'
  BY <1>8, <1>9 DEF Covers, Work, Flushing, IsExpanding
<1>14. \A v \in L : ~Covers(Work(thread[t]), v, Visited)
  BY <1>3 DEF Covers, Work, Flushing, IsExpanding, Idle
<1>15. \A j \in todo \ todo' : Covers(Work(x), f[j], Visited') \/ Elems(graph.out[f[j]]) \subseteq Visited'
  BY <1>3, <1>7, <1>13
<1>16. Visited' \subseteq B
  BY <1>4 DEF DownInv
<1>17. queue'.start = queue.start /\ queue'.end = queue.end
  BY <1>3
<1>18. DownInv(A, L, B, f)'
  BY <1>3, <1>4, <1>11, <1>12, <1>14, <1>15, <1>16, <1>17, DownKept
<1> QED
  BY <1>4, <1>18

\* The next neighbour, when the first of s is visited.
LEMMA NextOutKept ==
  ASSUME NEW L, NEW u \in L, NEW s \in Seq(Node), s # <<>>, Elems(s) \subseteq Elems(graph.out[u]),
         graph' = graph, NEW x, x = NextOut(u, Tail(s))
  PROVE  /\ Work(x) = x /\ x # Joined /\ ~Flushing(x) /\ x.at # "joined"
         /\ ExpandThread(x, L)'
         /\ \A V : Head(s) \in V /\ Elems(graph.out[u]) \subseteq V \cup Elems(s)
                  => Covers(x, u, V) \/ Elems(graph.out[u]) \subseteq V
<1>1. PICK rest : rest = Tail(s)
  OBVIOUS
<1>2. /\ rest \in Seq(Node) /\ Elems(s) = {Head(s)} \cup Elems(rest)
  BY <1>1, TailFacts
<1>3. \/ rest = <<>> /\ x = Idle
      \/ rest # <<>> /\ x.at = "readParent" /\ x.u = u /\ x.rest = rest
  <2>1. x = NextOut(u, rest)
    BY <1>1
  <2> QED
    BY <2>1, NextOutFacts
<1>4. Work(x) = x /\ x # Joined /\ ~Flushing(x) /\ x.at # "joined"
  BY <1>3 DEF Work, Flushing, Joined, Idle
<1>5. ExpandThread(x, L)'
  <2>1. CASE rest = <<>> /\ x = Idle
    BY <1>4, <2>1 DEF ExpandThread, IsExpanding, Idle, Flushing
  <2>2. CASE rest # <<>> /\ x.at = "readParent" /\ x.u = u /\ x.rest = rest
    <3>1. Elems(rest) \subseteq Elems(graph.out[u])
      BY <1>2
    <3>2. Expansion(x, L)'
      BY <1>2, <2>2, <3>1 DEF Expansion
    <3> QED
      BY <1>4, <2>2, <3>2 DEF ExpandThread, IsExpanding
  <2> QED
    BY <1>3, <2>1, <2>2
<1>6. ASSUME NEW V, Head(s) \in V, Elems(graph.out[u]) \subseteq V \cup Elems(s)
      PROVE  Covers(x, u, V) \/ Elems(graph.out[u]) \subseteq V
  <2>1. Elems(graph.out[u]) \subseteq V \cup Elems(rest)
    BY <1>2, <1>6
  <2> QED
    BY <1>3, <2>1, SeqFacts DEF Covers, IsExpanding
<1> QED
  BY <1>4, <1>5, <1>6

\* TDStep reads the parent of a neighbour.
LEMMA DownReads ==
  ASSUME NEW W, NEW k, NEW A, NEW L, NEW B, At(W, k, A, L, B), NEW f, DownInv(A, L, B, f),
         NEW t \in Threads, thread[t].at = "readParent", ReadParent(t)
  PROVE  ParentsOK(W)' /\ DownInv(A, L, B, f)'
<1>1. Ring(source, A, L, B)
  BY RingFacts DEF At
<1>2. PICK th : th = thread[t]
  OBVIOUS
<1>v. PICK val : val = parent[Head(th.rest)]
  OBVIOUS
<1>x. PICK x : x = IF val < 0 THEN Expanding("claim", th.u, th.rest, val)
                   ELSE NextOut(th.u, Tail(th.rest))
  OBVIOUS
<1>3. /\ todo' = todo /\ thread' = [thread EXCEPT ![t] = x]
      /\ graph' = graph /\ source' = source /\ step' = step /\ queue' = queue /\ buffer' = buffer
      /\ parent' = parent /\ front' = front
  BY <1>2, <1>v, <1>x DEF ReadParent, Goes, queueVars, searchVars
<1>4. ParentsOK(W)' /\ Visited' = Visited
  BY <1>3, SameParents DEF At
<1>5. PICK New : New = Visited \ A
  OBVIOUS
<1>6. QueueOK(f, New) /\ DOMAIN thread = Threads /\ ExpandThread(th, L)
  BY <1>2, <1>5 DEF DownInv
<1>7. th.at = "readParent" /\ Expansion(th, L) /\ Work(th) = th
  BY <1>2, <1>6 DEF ExpandThread, Work, Flushing, IsExpanding
<1>8. /\ Head(th.rest) \in Elems(th.rest) /\ Head(th.rest) \in Node
      /\ Tail(th.rest) \in Seq(Node) /\ Elems(th.rest) = {Head(th.rest)} \cup Elems(Tail(th.rest))
  BY <1>7, TailFacts DEF Expansion
<1>9. val \in Int /\ (~(val < 0) => Head(th.rest) \in Visited)
  BY <1>8, <1>v, ParentsAreVertices DEF At
<1>10. /\ ExpandThread(x, L)' /\ Work(x) = x /\ Work(x) # Joined /\ ~Flushing(x) /\ x.at # "joined"
       /\ \A u \in L : Covers(th, u, Visited) => Covers(x, u, Visited) \/ Elems(graph.out[u]) \subseteq Visited
  <2>1. CASE val < 0
    <3>1. x.at = "claim" /\ x.u = th.u /\ x.rest = th.rest /\ x.val = val
      BY <1>x, <2>1 DEF Expanding
    <3>2. Work(x) = x /\ Work(x) # Joined /\ ~Flushing(x) /\ x.at # "joined"
      BY <3>1 DEF Work, Flushing, Joined
    <3>3. ExpandThread(x, L)'
      BY <1>3, <1>7, <1>9, <1>v, <2>1, <3>1, <3>2 DEF ExpandThread, Expansion, Flushing, IsExpanding
    <3>4. \A u \in L : Covers(th, u, Visited) => Covers(x, u, Visited)
      BY <3>1 DEF Covers, IsExpanding
    <3> QED
      BY <3>1, <3>2, <3>3, <3>4
  <2>2. CASE ~(val < 0)
    <3>1. x = NextOut(th.u, Tail(th.rest)) /\ th.u \in L
      BY <1>7, <1>x, <2>2 DEF Expansion
    <3>2. /\ Work(x) = x /\ x # Joined /\ ~Flushing(x) /\ x.at # "joined" /\ ExpandThread(x, L)'
          /\ \A V : Head(th.rest) \in V /\ Elems(graph.out[th.u]) \subseteq V \cup Elems(th.rest)
                => Covers(x, th.u, V) \/ Elems(graph.out[th.u]) \subseteq V
      <4>1. PICK s, u : s = th.rest /\ u = th.u
        OBVIOUS
      <4>2. /\ s \in Seq(Node) /\ s # <<>> /\ u \in L /\ Elems(s) \subseteq Elems(graph.out[u])
            /\ x = NextOut(u, Tail(s)) /\ graph' = graph
        BY <1>3, <1>7, <3>1, <4>1 DEF Expansion
      <4>3. /\ Work(x) = x /\ x # Joined /\ ~Flushing(x) /\ x.at # "joined" /\ ExpandThread(x, L)'
            /\ \A V : Head(s) \in V /\ Elems(graph.out[u]) \subseteq V \cup Elems(s)
                  => Covers(x, u, V) \/ Elems(graph.out[u]) \subseteq V
        BY <4>2, NextOutKept
      <4> QED
        BY <4>1, <4>3
    <3>3. ASSUME NEW u \in L, Covers(th, u, Visited)
          PROVE  Covers(x, u, Visited) \/ Elems(graph.out[u]) \subseteq Visited
      BY <1>9, <2>2, <3>2, <3>3 DEF Covers
    <3> QED
      BY <3>2, <3>3
  <2> QED
    BY <2>1, <2>2
<1>11. QueueOK(f, New)'
  <2>1. ~Flushing(thread[t])
    BY DEF Flushing
  <2> QED
    BY <1>3, <1>6, <1>10, <2>1, QuietQueue
<1>12. QueueOK(f, Visited \ A)'
  BY <1>4, <1>5, <1>11
<1>13. \A u \in L : Covers(Work(thread[t]), u, Visited)
            => Covers(Work(x), u, Visited') \/ Elems(graph.out[u]) \subseteq Visited'
  BY <1>2, <1>4, <1>7, <1>10
<1>14. Visited' \subseteq B
  BY <1>4 DEF DownInv
<1>15. queue'.start = queue.start /\ queue'.end = queue.end /\ todo \ todo' = {}
  BY <1>3
<1>16. DownInv(A, L, B, f)'
  BY <1>3, <1>4, <1>10, <1>12, <1>13, <1>14, <1>15, DownKept
<1> QED
  BY <1>4, <1>16

\* TDStep's compare-and-swap: one thread gets to be the parent of a vertex,
\* and that thread pushes it.
LEMMA DownClaims ==
  ASSUME NEW W, NEW k, NEW A, NEW L, NEW B, At(W, k, A, L, B), NEW f, DownInv(A, L, B, f),
         NEW t \in Threads, thread[t].at = "claim", Claim(t)
  PROVE  ParentsOK(W)' /\ DownInv(A, L, B, f)'
<1>1. Ring(source, A, L, B)
  BY RingFacts DEF At
<1>2. PICK th : th = thread[t]
  OBVIOUS
<1>v. PICK v : v = Head(th.rest)
  OBVIOUS
<1>u. PICK u : u = th.u
  OBVIOUS
<1>x. PICK next : next = NextOut(u, Tail(th.rest))
  OBVIOUS
<1>3. graph' = graph /\ source' = source /\ step' = step /\ todo' = todo /\ queue' = queue /\ front' = front
  BY DEF Claim, Goes, BufferPush
<1>5. PICK New : New = Visited \ A
  OBVIOUS
<1>6. /\ QueueOK(f, New) /\ DOMAIN thread = Threads /\ ExpandThread(th, L) /\ Old(f) \subseteq A
      /\ A \subseteq Visited /\ Visited \subseteq B
  BY <1>2, <1>5 DEF DownInv
<1>7. th.at = "claim" /\ Expansion(th, L) /\ Work(th) = th /\ u \in L
  BY <1>2, <1>6, <1>u DEF ExpandThread, Work, Flushing, IsExpanding, Expansion
<1>8. /\ v \in Elems(th.rest) /\ v \in Node /\ v \in Elems(graph.out[u])
      /\ Tail(th.rest) \in Seq(Node) /\ Elems(th.rest) = {v} \cup Elems(Tail(th.rest))
  BY <1>7, <1>u, <1>v, TailFacts DEF Expansion
<1>9. /\ parent[v] \in Int /\ (v \in Visited <=> parent[v] >= 0)
      /\ th.val \in Int /\ th.val < 0 /\ (parent[v] = th.val \/ parent[v] >= 0)
  BY <1>6, <1>7, <1>8, <1>v, ParentsAreVertices DEF At, ExpandThread
<1>11. /\ Work(next) = next /\ next # Joined /\ ~Flushing(next) /\ next.at # "joined"
       /\ ExpandThread(next, L)'
       /\ \A V : v \in V /\ Elems(graph.out[u]) \subseteq V \cup Elems(th.rest)
                => Covers(next, u, V) \/ Elems(graph.out[u]) \subseteq V
  <2>1. PICK s : s = th.rest
    OBVIOUS
  <2>2. /\ s \in Seq(Node) /\ s # <<>> /\ u \in L /\ Elems(s) \subseteq Elems(graph.out[u])
        /\ next = NextOut(u, Tail(s)) /\ graph' = graph
    BY <1>3, <1>7, <1>u, <1>x, <2>1 DEF Expansion
  <2>3. /\ Work(next) = next /\ next # Joined /\ ~Flushing(next) /\ next.at # "joined"
        /\ ExpandThread(next, L)'
        /\ \A V : Head(s) \in V /\ Elems(graph.out[u]) \subseteq V \cup Elems(s)
              => Covers(next, u, V) \/ Elems(graph.out[u]) \subseteq V
    BY <2>2, NextOutKept
  <2> QED
    BY <1>v, <2>1, <2>3
<1>12. ASSUME NEW V, v \in V, Visited \subseteq V, NEW y \in L, Covers(th, y, Visited)
       PROVE  Covers(next, y, V) \/ Elems(graph.out[y]) \subseteq V
  BY <1>11, <1>12, <1>u DEF Covers
<1>13. CASE parent[v] = th.val
  <2>1. /\ parent' = [parent EXCEPT ![v] = u] /\ BufferPush(t, v, next)
    BY <1>2, <1>13, <1>u, <1>v, <1>x DEF Claim
  <2>2. v \notin Visited /\ v \notin A
    BY <1>6, <1>9, <1>13
  <2>3. ParentsOK(W)' /\ Visited' = Visited \cup {v}
    BY <1>3, <1>7, <1>8, <2>1, <2>2, NewParent DEF At
  <2>4. QueueOK(f, New \cup {v})'
    <3>1. v \notin New /\ v \notin Old(f) /\ ~Flushing(thread[t])
      BY <1>5, <1>6, <2>2 DEF Flushing
    <3> QED
      BY <1>3, <1>6, <1>8, <1>11, <2>1, <3>1, PushedQueue
  <2>5. QueueOK(f, Visited \ A)'
    <3>1. New \cup {v} = Visited' \ A
      BY <1>5, <2>2, <2>3
    <3> QED
      BY <2>4, <3>1
  <2>6. PICK x : /\ x = next \/ (x.at = "reserve" /\ x.next = next)
                 /\ thread' = [thread EXCEPT ![t] = x]
    <3>1. PICK y : y = [at |-> "reserve", held |-> <<v>>, next |-> next]
      OBVIOUS
    <3>2. y.at = "reserve" /\ y.next = next
      BY <3>1
    <3>3. thread' = [thread EXCEPT ![t] = y] \/ thread' = [thread EXCEPT ![t] = next]
      BY <2>1, <3>1 DEF BufferPush, Goes
    <3> QED
      BY <3>2, <3>3
  <2>7. Work(x) = next /\ (x # next => Flushing(x))
    BY <1>11, <2>6 DEF Work, Flushing
  <2>8. ExpandThread(x, L)'
    <3>1. CASE x = next
      BY <1>11, <3>1
    <3>2. CASE x # next
      <4>1. next.at = "readParent" \/ next = Idle
        BY <1>x, NextOutFacts
      <4>2. IsExpanding(next) => Expansion(next, L)'
        BY <1>11 DEF ExpandThread
      <4> QED
        BY <2>6, <2>7, <3>2, <4>1, <4>2 DEF ExpandThread
    <3> QED
      BY <3>1, <3>2
  <2>9. \A y \in Node : parent'[y] = parent[y] \/ parent'[y] >= 0
    <3>0. u \in Node
      BY <1>1, <1>7 DEF Ring
    <3>1. u >= 0
      BY <3>0, NodeFacts
    <3> QED
      BY <2>1, <3>0, <3>1, ParentsAreVertices DEF At
  <2>10. \A y \in L : Covers(Work(thread[t]), y, Visited)
            => Covers(Work(x), y, Visited') \/ Elems(graph.out[y]) \subseteq Visited'
    BY <1>2, <1>7, <1>12, <2>3, <2>7
  <2>11. /\ Visited' \subseteq B /\ Visited \subseteq Visited'
    BY <1>1, <1>6, <1>7, <1>8, <2>3 DEF Ring
  <2>12. queue'.start = queue.start /\ queue'.end = queue.end /\ todo \ todo' = {}
    BY <1>3
  <2>13. DownInv(A, L, B, f)'
    BY <1>3, <1>11, <2>5, <2>6, <2>7, <2>8, <2>9, <2>10, <2>11, <2>12, DownKept
  <2> QED
    BY <2>3, <2>13
<1>14. CASE parent[v] # th.val
  <2>1. parent' = parent /\ thread' = [thread EXCEPT ![t] = next] /\ buffer' = buffer
    BY <1>2, <1>14, <1>u, <1>v, <1>x DEF Claim, Goes
  <2>2. ParentsOK(W)' /\ Visited' = Visited /\ v \in Visited
    BY <1>3, <1>9, <1>14, <2>1, SameParents DEF At
  <2>3. QueueOK(f, New)'
    <3>1. ~Flushing(thread[t])
      BY DEF Flushing
    <3> QED
      BY <1>3, <1>6, <1>11, <2>1, <3>1, QuietQueue
  <2>4. QueueOK(f, Visited \ A)'
    BY <1>5, <2>2, <2>3
  <2>6. \A y \in L : Covers(Work(thread[t]), y, Visited)
            => Covers(Work(next), y, Visited') \/ Elems(graph.out[y]) \subseteq Visited'
    BY <1>2, <1>7, <1>11, <1>12, <2>2
  <2>7. queue'.start = queue.start /\ queue'.end = queue.end /\ todo \ todo' = {} /\ Visited' \subseteq B
    BY <1>3, <1>6, <2>2
  <2>8. DownInv(A, L, B, f)'
    BY <1>3, <1>11, <2>1, <2>2, <2>4, <2>6, <2>7, DownKept
  <2> QED
    BY <2>2, <2>8
<1> QED
  BY <1>13, <1>14

\* A flush while a level is expanded: what the thread goes on with is kept.
LEMMA DownFlushes ==
  ASSUME NEW W, NEW k, NEW A, NEW L, NEW B, At(W, k, A, L, B), NEW f, DownInv(A, L, B, f),
         NEW t \in Threads, UNCHANGED searchVars, Reserve(t) \/ CopyOut(t) \/ LastFlush(t)
  PROVE  ParentsOK(W)' /\ \E g : DownInv(A, L, B, g)'
<1>2. PICK th : th = thread[t]
  OBVIOUS
<1>3. /\ graph' = graph /\ source' = source /\ step' = step /\ todo' = todo
      /\ parent' = parent /\ front' = front
  BY DEF Reserve, CopyOut, LastFlush, Goes, searchVars
<1>4. ParentsOK(W)' /\ Visited' = Visited
  BY <1>3, SameParents DEF At
<1>5. PICK New : New = Visited \ A
  OBVIOUS
<1>6. /\ QueueOK(f, New) /\ DOMAIN thread = Threads /\ ExpandThread(th, L)
      /\ Visited \subseteq B /\ todo \ todo' = {} /\ todo' \subseteq todo
      /\ Work(th) = Joined => todo = {}
  BY <1>2, <1>3, <1>5 DEF DownInv
<1>7. /\ \A v \in Node : parent'[v] = parent[v] \/ parent'[v] >= 0
      /\ Visited \subseteq Visited' /\ Visited' \subseteq B
  BY <1>3, <1>4, <1>6
<1>8. ASSUME NEW g, QueueOK(g, New)', \A i \in 0 .. queue.in - 1 : g[i] = f[i],
             queue'.start = queue.start, queue'.end = queue.end,
             NEW x, thread' = [thread EXCEPT ![t] = x], ExpandThread(x, L)',
             Work(x) = Work(th) \/ (th = Idle /\ todo = {})
      PROVE  DownInv(A, L, B, g)'
  <2>1. QueueOK(g, Visited \ A)'
    BY <1>4, <1>5, <1>8
  <2>2. \A u \in L : Covers(Work(thread[t]), u, Visited)
            => Covers(Work(x), u, Visited') \/ Elems(graph.out[u]) \subseteq Visited'
    <3>1. ASSUME NEW u \in L, Covers(Work(th), u, Visited)
          PROVE  Covers(Work(x), u, Visited)
      <4>1. th # Idle
        BY <3>1 DEF Covers, Work, IsExpanding, Flushing, Idle
      <4> QED
        BY <1>8, <3>1, <4>1
    <3> QED
      BY <1>2, <1>4, <3>1
  <2>3. Work(x) = Joined => todo' = {}
    BY <1>3, <1>6, <1>8
  <2> QED
    BY <1>3, <1>6, <1>7, <1>8, <2>1, <2>2, <2>3, DownKept
<1>9. CASE Reserve(t)
  <2>1. PICK g : QueueOK(g, New)' /\ \A i \in 0 .. queue.in - 1 : g[i] = f[i]
    BY <1>6, <1>9, ReservedQueue
  <2>2. /\ th.at = "reserve" /\ queue' = [queue EXCEPT !.in = @ + Len(buffer[t])]
    BY <1>2, <1>9 DEF Reserve
  <2>3. queue'.start = queue.start /\ queue'.end = queue.end
    BY <1>6, <2>2 DEF QueueOK, QueueType
  <2>4. PICK x : x = [at |-> "copy", held |-> th.held, next |-> th.next, base |-> queue.in]
    OBVIOUS
  <2>5. x.at = "copy" /\ x.next = th.next /\ thread' = [thread EXCEPT ![t] = x]
    BY <1>2, <1>9, <2>4 DEF Reserve, Goes
  <2>6. Work(x) = Work(th) /\ Work(th) = th.next
    BY <2>2, <2>5 DEF Work, Flushing
  <2>7. ExpandThread(x, L)'
    BY <1>3, <1>6, <2>2, <2>5, <2>6 DEF ExpandThread, Expansion, Flushing
  <2>8. DownInv(A, L, B, g)'
    BY <1>8, <2>1, <2>3, <2>5, <2>6, <2>7
  <2> QED
    BY <1>4, <2>8
<1>10. CASE CopyOut(t)
  <2>1. /\ th.at = "copy" /\ thread' = [thread EXCEPT ![t] = th.next]
    BY <1>2, <1>10 DEF CopyOut, Goes
  <2>2. /\ th.next \in {Idle, Joined} \/ th.next.at = "readParent"
        /\ Work(th) = th.next /\ (IsExpanding(th.next) => Expansion(th.next, L))
    BY <1>6, <2>1 DEF ExpandThread, Flushing, Work
  <2>3. /\ ~Flushing(th.next) /\ (th.next.at = "joined" => th.next = Joined)
        /\ (th.next.at = "idle" => th.next = Idle) /\ Work(th.next) = th.next
        /\ th.next.at \in {"idle", "joined", "readParent"}
    BY <2>2 DEF Flushing, Idle, Joined, Work
  <2>4. QueueOK(f, New)'
    BY <1>2, <1>6, <1>10, <2>3, CopiedQueue
  <2>5. queue'.start = queue.start /\ queue'.end = queue.end
    <3>1. \E X : queue' = [queue EXCEPT !.shared = X]
      BY <1>10 DEF CopyOut
    <3> QED
      BY <1>6, <3>1 DEF QueueOK, QueueType
  <2>6. ExpandThread(th.next, L)'
    BY <1>3, <2>2, <2>3 DEF ExpandThread, Expansion, IsExpanding
  <2>7. DownInv(A, L, B, f)'
    BY <1>8, <2>1, <2>2, <2>3, <2>4, <2>5, <2>6
  <2> QED
    BY <1>4, <2>7
<1>11. CASE LastFlush(t)
  <2>1. PICK x : x = [at |-> "reserve", held |-> <<>>, next |-> Joined]
    OBVIOUS
  <2>2. /\ th = Idle /\ todo = {} /\ thread' = [thread EXCEPT ![t] = x] /\ queue' = queue
        /\ x.at = "reserve" /\ x.next = Joined
    BY <1>2, <1>11, <2>1 DEF LastFlush, Goes, queueVars
  <2>3. QueueOK(f, New)'
    BY <1>6, <1>11, LastFlushQueue
  <2>4. ExpandThread(x, L)'
    BY <2>2 DEF ExpandThread, Work, Flushing, IsExpanding, Joined
  <2>5. DownInv(A, L, B, f)'
    BY <1>8, <2>2, <2>3, <2>4
  <2> QED
    BY <1>4, <2>5
<1> QED
  BY <1>9, <1>10, <1>11

\* The barrier at the end of TDStep: all neighbours of the level are visited,
\* the new ones have become the window.
LEMMA DownEnds ==
  ASSUME NEW W, NEW k, NEW A, NEW L, NEW B, At(W, k, A, L, B), NEW f, DownInv(A, L, B, f),
         EndTopDown
  PROVE  StepsOn(W)
<1>1. /\ Ring(source, A, L, B) /\ Deeper(k) \in 0 .. N /\ AtDepth(W, Deeper(k)) = B \ A
  BY RingFacts DEF At
<1>2. /\ AllJoined /\ queue' = Slide(queue) /\ step' = "loop" /\ todo' = {}
      /\ thread' = [t \in Threads |-> Idle] /\ buffer' = buffer /\ graph' = graph
      /\ source' = source /\ parent' = parent /\ front' = front
  BY DEF EndTopDown, BeginLoop, searchVars
<1>3. ParentsOK(W)' /\ Visited' = Visited
  BY <1>2, SameParents DEF At
<1>5. PICK New : New = Visited \ A
  OBVIOUS
<1>6. /\ QueueOK(f, New) /\ Old(f) \subseteq A /\ front \subseteq A /\ A \subseteq Visited
      /\ Visited \subseteq B /\ \A u \in L : Covered(f, u)
  BY <1>5 DEF DownInv
<1>7. todo = {}
  <2>1. PICK t \in Threads : TRUE
    BY KernelAssumption
  <2>2. Work(thread[t]) = Joined
    BY <1>2 DEF AllJoined, Work, Joined, Flushing
  <2> QED
    BY <2>2 DEF DownInv
<1>8. \A u \in L : Elems(graph.out[u]) \subseteq Visited
  <2>1. \A t \in Threads : ~IsExpanding(Work(thread[t]))
    BY <1>2 DEF AllJoined, Work, Joined, Flushing, IsExpanding
  <2> QED
    BY <1>6, <1>7, <2>1 DEF Covered, Covers
<1>9. Visited = B
  BY <1>1, <1>6, <1>8 DEF Ring
<1>10. /\ QueueOK(f, {})' /\ InPlace(f, New)'
       /\ Placed(f)' = Placed(f) /\ Placed(f) = Old(f) \cup New
  <2>1. \A t \in Threads : buffer[t] = <<>> /\ ~Flushing(thread[t])
    BY <1>2, <1>6, JoinedBuffers
  <2> QED
    BY <1>2, <1>6, <2>1, SlidQueue
<1>11. New = B \ A /\ Placed(f)' \subseteq B /\ front' \subseteq B /\ Visited' = B
  BY <1>1, <1>2, <1>3, <1>5, <1>6, <1>9, <1>10 DEF Ring
<1>12. LoopInv(B, B \ A, f)'
  BY <1>2, <1>10, <1>11 DEF LoopInv, AllIdle
<1>13. LevelInv(W, Deeper(k), f)'
  <2>1. B = W[Deeper(k)]
    BY DEF At
  <2> QED
    BY <1>1, <1>12, <2>1 DEF LevelInv
<1> QED
  BY <1>1, <1>3, <1>13 DEF StepsOn

LEMMA DownStep ==
  ASSUME NEW W, NEW k, NEW A, NEW L, NEW B, At(W, k, A, L, B), NEW f, DownInv(A, L, B, f), BfsNext
  PROVE  StepsOn(W)
<1>1. step = "td" /\ \A t \in Threads : ExpandThread(thread[t], L)
  BY DEF DownInv
<1>2. ASSUME ParentsOK(W)', \E g : DownInv(A, L, B, g)' PROVE StepsOn(W)
  <2>1. PICK g : DownInv(A, L, B, g)'
    BY <1>2
  <2>2. LevelInv(W, k, g)' /\ k \in 0 .. N
    BY <2>1 DEF LevelInv, At
  <2> QED
    BY <1>2, <2>2 DEF StepsOn
<1>3. ASSUME NEW t \in Threads, ThreadStep(t)
      PROVE  StepsOn(W)
  <2>1. thread[t].at \in {"idle", "joined", "readParent", "claim", "reserve", "copy"}
    BY <1>1 DEF ExpandThread
  <2>2. \/ \E i \in todo : TakeExpand(t, i)
        \/ thread[t].at = "readParent" /\ ReadParent(t)
        \/ thread[t].at = "claim" /\ Claim(t)
        \/ UNCHANGED searchVars /\ (Reserve(t) \/ CopyOut(t) \/ LastFlush(t))
    BY <1>1, <1>3, <2>1, ThreadMoves
  <2>3. CASE \E i \in todo : TakeExpand(t, i)
    BY <1>2, <2>3, DownTakes
  <2>4. CASE thread[t].at = "readParent" /\ ReadParent(t)
    BY <1>2, <2>4, DownReads
  <2>5. CASE thread[t].at = "claim" /\ Claim(t)
    BY <1>2, <2>5, DownClaims
  <2>6. CASE UNCHANGED searchVars /\ (Reserve(t) \/ CopyOut(t) \/ LastFlush(t))
    BY <1>2, <2>6, DownFlushes
  <2> QED
    BY <2>2, <2>3, <2>4, <2>5, <2>6
<1>4. CASE EndTopDown
  BY <1>4, DownEnds
<1>5. ~(GoBottomUp \/ GoTopDown \/ Return \/ EndToBitmap \/ EndBottomUp \/ EndToQueue)
  BY <1>1 DEF GoBottomUp, GoTopDown, Return, EndToBitmap, EndBottomUp, EndToQueue
<1> QED
  BY <1>3, <1>4, <1>5, NextSteps

\* A step while the bitmap is filled from the queue.
LEMMA ToBitmapSteps ==
  ASSUME NEW W, NEW k, NEW A, NEW L, NEW B, At(W, k, A, L, B), NEW f, ToBitmapInv(A, L, f),
         NEW t \in Threads, ThreadStep(t)
  PROVE  ParentsOK(W)' /\ ToBitmapInv(A, L, f)'
<1>0. Ring(source, A, L, B)
  BY RingFacts DEF At
<1>1. /\ step = "toBitmap" /\ QueueOK(f, {}) /\ InPlace(f, L) /\ Placed(f) \subseteq A
      /\ Visited = A /\ front \subseteq A /\ todo \subseteq Window(queue)
      /\ DOMAIN thread = Threads
      /\ \A s \in Threads : BitThread(thread[s], L)
      /\ \A u \in L : \/ u \in front
                      \/ \E i \in todo : f[i] = u
                      \/ \E s \in Threads : thread[s].at # "idle" /\ thread[s].u = u
  BY DEF ToBitmapInv
<1>2. PICK th : th = thread[t]
  OBVIOUS
<1>3. ASSUME NEW x, BitThread(x, L), thread' = [thread EXCEPT ![t] = x], step' = step,
             graph' = graph, source' = source, parent' = parent, queue' = queue, buffer' = buffer,
             todo' \subseteq todo, front \subseteq front', front' \subseteq A,
             \A i \in todo \ todo' : x.at # "idle" /\ x.u = f[i],
             th.at # "idle" => th.u \in front' \/ (x.at # "idle" /\ x.u = th.u)
      PROVE  ParentsOK(W)' /\ ToBitmapInv(A, L, f)'
  <2>1. ParentsOK(W)' /\ Visited' = Visited
    BY <1>3, SameParents DEF At
  <2>2. QueueOK(f, {})'
    <3>1. ~Flushing(thread[t]) /\ ~Flushing(x) /\ x.at # "joined"
      BY <1>1, <1>3 DEF BitThread, Flushing
    <3> QED
      BY <1>1, <1>3, <3>1, QuietQueue
  <2>3. InPlace(f, L)' /\ Placed(f)' \subseteq A /\ todo' \subseteq Window(queue)'
    BY <1>1, <1>3 DEF InPlace, Placed, Window
  <2>4. /\ DOMAIN thread' = Threads /\ thread'[t] = x
        /\ \A s \in Threads : s # t => thread'[s] = thread[s]
    BY <1>1, <1>3
  <2>5. \A s \in Threads : BitThread(thread'[s], L)
    BY <1>1, <1>3, <2>4
  <2>6. ASSUME NEW u \in L
        PROVE  \/ u \in front'
               \/ \E i \in todo' : f[i] = u
               \/ \E s \in Threads : thread'[s].at # "idle" /\ thread'[s].u = u
    <3>1. CASE u \in front
      BY <1>3, <3>1
    <3>2. CASE \E i \in todo : f[i] = u
      BY <1>3, <2>4, <3>2
    <3>3. CASE \E s \in Threads : thread[s].at # "idle" /\ thread[s].u = u
      BY <1>2, <1>3, <2>4, <3>3
    <3> QED
      BY <1>1, <3>1, <3>2, <3>3
  <2> QED
    BY <1>1, <1>3, <2>1, <2>2, <2>3, <2>4, <2>5, <2>6 DEF ToBitmapInv
<1>4. \/ \E i \in todo : TakeToBitmap(t, i)
      \/ th.at = "readWord" /\ ReadWord(t)
      \/ th.at = "swapWord" /\ SwapWord(t)
  <2>1. th.at \in {"idle", "readWord", "swapWord"}
    BY <1>1, <1>2 DEF BitThread
  <2> QED
    BY <1>1, <1>2, <2>1, ThreadMoves
<1>5. CASE \E i \in todo : TakeToBitmap(t, i)
  <2>1. PICK i \in todo : TakeToBitmap(t, i)
    BY <1>5
  <2>2. PICK x : x = Setting("readWord", queue.shared[i], {})
    OBVIOUS
  <2>3. /\ thread[t] = Idle /\ todo' = todo \ {i} /\ thread' = [thread EXCEPT ![t] = x]
        /\ step' = step /\ graph' = graph /\ source' = source /\ parent' = parent
        /\ queue' = queue /\ buffer' = buffer /\ front' = front
    BY <2>1, <2>2 DEF TakeToBitmap, Take, queueVars, searchVars
  <2>4. i \in queue.start .. queue.end - 1 /\ i \in 0 .. queue.end - 1
    BY <1>1 DEF Window, QueueOK, QueueType
  <2>5. x.at = "readWord" /\ x.u = f[i] /\ f[i] \in L
    BY <1>1, <2>2, <2>4, SharedReads DEF Setting, InPlace
  <2>6. BitThread(x, L)
    BY <2>5 DEF BitThread
  <2>7. th.at = "idle"
    BY <1>2, <2>3 DEF Idle
  <2> QED
    BY <1>1, <1>3, <2>3, <2>5, <2>6, <2>7
<1>6. CASE th.at = "readWord" /\ ReadWord(t)
  <2>1. PICK x : x = Setting("swapWord", th.u, front \cap Word(th.u))
    OBVIOUS
  <2>2. /\ todo' = todo /\ thread' = [thread EXCEPT ![t] = x]
        /\ step' = step /\ graph' = graph /\ source' = source /\ parent' = parent
        /\ queue' = queue /\ buffer' = buffer /\ front' = front
    BY <1>2, <1>6, <2>1 DEF ReadWord, Goes, queueVars, searchVars
  <2>3. x.at = "swapWord" /\ x.u = th.u
    BY <2>1 DEF Setting
  <2>4. BitThread(x, L)
    BY <1>1, <1>2, <1>6, <2>3 DEF BitThread
  <2> QED
    BY <1>1, <1>3, <2>2, <2>3, <2>4
<1>7. CASE th.at = "swapWord" /\ SwapWord(t)
  <2>0. th.u \in L /\ th.u \in A
    BY <1>0, <1>1, <1>2, <1>7 DEF BitThread, Ring
  <2>1. /\ todo' = todo /\ step' = step /\ graph' = graph /\ source' = source /\ parent' = parent
        /\ queue' = queue /\ buffer' = buffer
    BY <1>7 DEF SwapWord, Goes, queueVars
  <2>2. CASE front \cap Word(th.u) = th.word
    <3>1. front' = front \cup {th.u} /\ thread' = [thread EXCEPT ![t] = Idle]
      BY <1>2, <1>7, <2>2 DEF SwapWord, Goes
    <3>2. BitThread(Idle, L)
      BY DEF BitThread, Idle
    <3> QED
      BY <1>1, <1>3, <2>0, <2>1, <3>1, <3>2
  <2>3. CASE front \cap Word(th.u) # th.word
    <3>1. PICK x : x = Setting("readWord", th.u, {})
      OBVIOUS
    <3>2. front' = front /\ thread' = [thread EXCEPT ![t] = x]
      BY <1>2, <1>7, <2>3, <3>1 DEF SwapWord, Goes
    <3>3. x.at = "readWord" /\ x.u = th.u
      BY <3>1 DEF Setting
    <3>4. BitThread(x, L)
      BY <2>0, <3>3 DEF BitThread
    <3> QED
      BY <1>1, <1>3, <2>1, <3>2, <3>3, <3>4
  <2> QED
    BY <2>2, <2>3
<1> QED
  BY <1>4, <1>5, <1>6, <1>7

\* The chunk of a vertex.
LEMMA ChunkFacts ==
  /\ \A v \in Node : v \div ChunkSize \in Chunks
  /\ \A c \in Chunks : Chunk(c) \subseteq Node /\ \A v \in Chunk(c) : v \div ChunkSize = c
<1>1. ASSUME NEW v \in Node PROVE v \div ChunkSize \in Chunks
  <2>1. PICK c, s : c = v \div ChunkSize /\ s = ChunkSize
    OBVIOUS
  <2>2. s \in Nat \ {0} /\ v \in Nat /\ N \in Nat /\ v < N
    BY <2>1, BfsAssumption, NodeFacts DEF Node
  <2>3. c \in Nat /\ c * s <= v
    BY <2>1, <2>2
  <2>4. c <= c * s
    BY <2>2, <2>3
  <2>5. c \in Node
    BY <2>2, <2>3, <2>4 DEF Node
  <2>6. c * s < N
    BY <2>2, <2>3
  <2> QED
    BY <2>1, <2>5, <2>6 DEF Chunks
<1> QED
  BY <1>1 DEF Chunk

\* A word of a bitmap lies within one chunk.
LEMMA WordsApart ==
  ASSUME NEW u \in Node, NEW v \in Node, u \div ChunkSize # v \div ChunkSize
  PROVE  Word(u) \cap Word(v) = {}
<1>1. SUFFICES ASSUME NEW m \in Word(u), m \in Word(v) PROVE FALSE
  OBVIOUS
<1>2. PICK b, s : b = WordBits /\ s = ChunkSize
  OBVIOUS
<1>3. /\ b \in Nat \ {0} /\ s \in Nat \ {0} /\ s % b = 0 /\ u \in Nat /\ v \in Nat
  BY <1>2, FrontierAssumption, BfsAssumption, NodeFacts
<1>4. u \div b = v \div b
  BY <1>1, <1>2 DEF Word
<1>5. PICK q \in Nat : s = q * b
  <2>1. s \div b \in Nat /\ s = (s \div b) * b + (s % b)
    BY <1>3
  <2>2. s = (s \div b) * b
    BY <1>3, <2>1
  <2> QED
    BY <2>1, <2>2
<1>6. PICK a \in Nat : a * b <= u /\ u < (a + 1) * b /\ a * b <= v /\ v < (a + 1) * b
  <2>1. PICK a : a = u \div b
    OBVIOUS
  <2>2. a \in Nat /\ a * b <= u /\ u < (a + 1) * b
    BY <1>3, <2>1
  <2>3. a * b <= v /\ v < (a + 1) * b
    BY <1>3, <1>4, <2>1
  <2> QED
    BY <2>2, <2>3
<1>7. ASSUME NEW x \in Nat, NEW y \in Nat, a * b <= x, x < (a + 1) * b, a * b <= y, y < (a + 1) * b,
             x \div s < y \div s
      PROVE  FALSE
  <2>1. PICK c, d : c = x \div s /\ d = y \div s
    OBVIOUS
  <2>2. c \in Nat /\ x < (c + 1) * s
    BY <1>3, <2>1
  <2>3. d \in Nat /\ d * s <= y
    BY <1>3, <2>1
  <2>4. c + 1 <= d
    BY <1>7, <2>1, <2>2, <2>3
  <2>5. (c + 1) * s <= d * s
    BY <1>3, <2>2, <2>3, <2>4
  <2>6. d * s = (d * q) * b
    BY <1>3, <1>5, <2>3
  <2>7. PICK e \in Nat : e = d * q
    BY <2>3
  <2>8. x < e * b /\ e * b <= y
    BY <1>3, <2>2, <2>3, <2>5, <2>6, <2>7
  <2>9. a * b < e * b /\ e * b < (a + 1) * b
    BY <1>3, <1>7, <2>8
  <2>10. a < e
    BY <1>3, <2>9
  <2>11. e < a + 1
    BY <1>3, <2>9
  <2> QED
    BY <2>10, <2>11
<1>8. u \div s < v \div s \/ v \div s < u \div s
  BY <1>2, <1>3
<1> QED
  BY <1>3, <1>6, <1>7, <1>8

\* The barrier at the end of QueueToBitmap, and the start of BUStep.
LEMMA ToBitmapEnds ==
  ASSUME NEW W, NEW k, NEW A, NEW L, NEW B, At(W, k, A, L, B), NEW f, ToBitmapInv(A, L, f),
         EndToBitmap
  PROVE  ParentsOK(W)' /\ UpInv(A, L, B, f)'
<1>0. Ring(source, A, L, B)
  BY RingFacts DEF At
<1>1. /\ QueueOK(f, {}) /\ Placed(f) \subseteq A /\ Visited = A /\ front \subseteq A
      /\ DOMAIN thread = Threads
      /\ \A s \in Threads : BitThread(thread[s], L)
      /\ \A u \in L : \/ u \in front
                      \/ \E i \in todo : f[i] = u
                      \/ \E s \in Threads : thread[s].at # "idle" /\ thread[s].u = u
  BY DEF ToBitmapInv
<1>2. /\ TeamDone /\ queue' = Slide(queue) /\ curr' = {} /\ step' = "bu" /\ todo' = Chunks
      /\ thread' = [t \in Threads |-> Idle] /\ graph' = graph /\ source' = source
      /\ buffer' = buffer /\ parent' = parent /\ front' = front
  BY DEF EndToBitmap, BeginBottomUp, BeginLoop
<1>3. ParentsOK(W)' /\ Visited' = Visited
  BY <1>2, SameParents DEF At
<1>4. \A t \in Threads : ~Flushing(thread[t]) /\ thread[t].at = "idle"
  BY <1>2 DEF TeamDone, Idle, Flushing
<1>5. QueueOK(f, {})' /\ Placed(f)' = Placed(f)
  <2>1. \A t \in Threads : buffer[t] = <<>> /\ ~Flushing(thread[t])
    BY <1>1, <1>4, EmptyBuffers
  <2> QED
    BY <1>1, <1>2, <2>1, SlidQueue
<1>6. L \subseteq front
  BY <1>1, <1>2, <1>4 DEF TeamDone
<1>7. \A t \in Threads : LookThread(thread[t])' /\ Left(thread'[t]) = {} /\ ~Marking(thread'[t])
  BY <1>2 DEF LookThread, Left, Marking, Idle
<1>8. \A v \in B \ Visited' : v \div ChunkSize \in todo'
  BY <1>0, <1>2, ChunkFacts DEF Ring
<1>9. A \subseteq Visited' /\ Visited' \subseteq B /\ Visited' \ A = {} /\ curr' \subseteq Visited' \ A
  BY <1>0, <1>1, <1>2, <1>3 DEF Ring
<1>10. UpInv(A, L, B, f)'
  BY <1>1, <1>2, <1>5, <1>6, <1>7, <1>8, <1>9 DEF UpInv
<1> QED
  BY <1>3, <1>10

LEMMA FirstFacts ==
  ASSUME NEW S, S \subseteq Nat, S # {}
  PROVE  FirstOf(S) \in S
<1> DEFINE R == OpToRel(<, Nat)
<1>1. IsWellFoundedOn(R, Nat)
  BY NatLessThanWellFounded
<1>2. \A i, j \in Nat : i < j => <<i, j>> \in R
  BY DEF R, OpToRel
<1> HIDE DEF R
<1>3. PICK u \in S : \A w \in S : ~(<<w, u>> \in R)
  BY <1>1, WFMin
<1>4. \A w \in S : u <= w
  <2>1. SUFFICES ASSUME NEW w \in S, ~(u <= w) PROVE FALSE
    OBVIOUS
  <2>2. w \in Nat /\ u \in Nat
    OBVIOUS
  <2>3. w < u
    BY <2>1, <2>2
  <2> QED
    BY <1>2, <1>3, <2>2, <2>3
<1> QED
  BY <1>4 DEF FirstOf

LEMMA NextUpFacts ==
  ASSUME NEW S
  PROVE  /\ S = {} => NextUp(S) = Idle
         /\ S # {} => NextUp(S).at = "look" /\ NextUp(S).left = S
         /\ Left(NextUp(S)) = S /\ ~Marking(NextUp(S)) /\ ~Flushing(NextUp(S))
         /\ S \subseteq Node => LookThread(NextUp(S))'
<1>1. CASE S = {}
  BY <1>1 DEF NextUp, Left, Marking, Flushing, LookThread, Idle
<1>2. CASE S # {}
  <2>1. NextUp(S).at = "look" /\ NextUp(S).left = S
    BY <1>2 DEF NextUp
  <2> QED
    BY <1>2, <2>1 DEF Left, Marking, Flushing, LookThread
<1> QED
  BY <1>1, <1>2

\* What a step of thread t to x must keep while a level is found bottom-up.
LEMMA UpKept ==
  ASSUME NEW A, NEW L, NEW B, NEW f, NEW t \in Threads, NEW x, UpInv(A, L, B, f),
         step' = step, queue' = queue, buffer' = buffer, front' = front,
         thread' = [thread EXCEPT ![t] = x], todo' \subseteq todo, LookThread(x)',
         Visited \subseteq Visited', Visited' \subseteq B, curr \subseteq curr', curr' \subseteq Visited' \ A,
         \A s \in Threads : s # t /\ thread[s].at = "writeNext" =>
            curr' \cap Word(FirstOf(thread[s].left)) = curr \cap Word(FirstOf(thread[s].left)),
         \A y \in Left(x) : y \in Left(thread[t]) \/ y \div ChunkSize \in todo \ todo',
         Marking(x) => FirstOf(x.left) \in Visited' \ A,
         \A v \in Visited' \ A : 
            v \notin Visited \/ (Marking(thread[t]) /\ v = FirstOf(thread[t].left))
              => v \in curr' \/ (Marking(x) /\ v = FirstOf(x.left)),
         \A v \in B \ Visited' : 
            v \in Left(thread[t]) \/ v \div ChunkSize \in todo \ todo' => v \in Left(x)
  PROVE  UpInv(A, L, B, f)'
<1>1. /\ step = "bu" /\ QueueOK(f, {}) /\ Placed(f) \subseteq A
      /\ L \subseteq front /\ front \subseteq A /\ A \subseteq Visited
      /\ todo \subseteq Chunks /\ DOMAIN thread = Threads
      /\ \A s \in Threads : LookThread(thread[s])
      /\ \A s \in Threads : \A y \in Left(thread[s]) : y \div ChunkSize \notin todo
      /\ \A t1, t2 \in Threads : t1 # t2 =>
          \A y \in Left(thread[t1]), z \in Left(thread[t2]) : y \div ChunkSize # z \div ChunkSize
      /\ \A s \in Threads : Marking(thread[s]) => FirstOf(thread[s].left) \in Visited \ A
      /\ \A v \in Visited \ A :
           v \in curr \/ \E s \in Threads : Marking(thread[s]) /\ v = FirstOf(thread[s].left)
      /\ \A v \in B \ Visited :
           v \div ChunkSize \in todo \/ \E s \in Threads : v \in Left(thread[s])
  BY DEF UpInv
<1>2. /\ DOMAIN thread' = Threads /\ thread'[t] = x
      /\ \A s \in Threads : s # t => thread'[s] = thread[s]
  BY <1>1
<1>3. QueueOK(f, {})' /\ Placed(f)' = Placed(f)
  <2>1. ~Flushing(thread[t]) /\ ~Flushing(x) /\ x.at # "joined"
    BY <1>1 DEF LookThread, Flushing
  <2> QED
    BY <1>1, <2>1, QuietQueue DEF Placed
<1>4. ASSUME NEW s \in Threads PROVE LookThread(thread[s])'
  <2>1. CASE s = t
    BY <1>2, <2>1
  <2>2. CASE s # t
    BY <1>1, <1>2, <2>2 DEF LookThread
  <2> QED
    BY <2>1, <2>2
<1>5. \A s \in Threads : \A y \in Left(thread'[s]) : y \div ChunkSize \notin todo'
  BY <1>1, <1>2
<1>6. ASSUME NEW t1 \in Threads, NEW t2 \in Threads, t1 # t2,
             NEW y \in Left(thread'[t1]), NEW z \in Left(thread'[t2])
      PROVE  y \div ChunkSize # z \div ChunkSize
  <2>1. CASE t1 = t
    <3>1. z \in Left(thread[t2]) /\ y \in Left(x)
      BY <1>2, <1>6, <2>1
    <3> QED
      BY <1>1, <1>6, <2>1, <3>1
  <2>2. CASE t2 = t
    <3>1. y \in Left(thread[t1]) /\ z \in Left(x)
      BY <1>2, <1>6, <2>2
    <3> QED
      BY <1>1, <1>6, <2>2, <3>1
  <2>3. CASE t1 # t /\ t2 # t
    BY <1>1, <1>2, <1>6, <2>3
  <2> QED
    BY <2>1, <2>2, <2>3
<1>7. \A s \in Threads : Marking(thread'[s]) => FirstOf(thread'[s].left) \in Visited' \ A
  BY <1>1, <1>2
<1>8. ASSUME NEW v \in Visited' \ A
      PROVE  v \in curr' \/ \E s \in Threads : Marking(thread'[s]) /\ v = FirstOf(thread'[s].left)
  BY <1>1, <1>2
<1>9. ASSUME NEW v \in B \ Visited'
      PROVE  v \div ChunkSize \in todo' \/ \E s \in Threads : v \in Left(thread'[s])
  BY <1>1, <1>2
<1>10. todo' \subseteq Chunks
  BY <1>1
<1> QED
  BY <1>1, <1>2, <1>3, <1>4, <1>5, <1>6, <1>7, <1>8, <1>9, <1>10 DEF UpInv

\* BUStep takes a chunk of vertices.
LEMMA UpTakes ==
  ASSUME NEW W, NEW k, NEW A, NEW L, NEW B, At(W, k, A, L, B), NEW f, UpInv(A, L, B, f),
         NEW t \in Threads, NEW c \in todo, TakeChunk(t, c)
  PROVE  ParentsOK(W)' /\ UpInv(A, L, B, f)'
<1>1. Ring(source, A, L, B)
  BY RingFacts DEF At
<1>2. PICK S, x : S = Chunk(c) /\ x = NextUp(S)
  OBVIOUS
<1>3. /\ thread[t] = Idle /\ todo' = todo \ {c} /\ thread' = [thread EXCEPT ![t] = x]
      /\ graph' = graph /\ source' = source /\ step' = step /\ queue' = queue /\ buffer' = buffer
      /\ parent' = parent /\ front' = front /\ curr' = curr
  BY <1>2 DEF TakeChunk, Take, queueVars, searchVars
<1>4. ParentsOK(W)' /\ Visited' = Visited
  BY <1>3, SameParents DEF At
<1>5. S \subseteq Node /\ \A v \in Node : v \in S <=> v \div ChunkSize = c
  BY <1>2 DEF Chunk
<1>6. Left(x) = S /\ ~Marking(x) /\ LookThread(x)'
  BY <1>2, <1>5, NextUpFacts
<1>7. Left(thread[t]) = {} /\ ~Marking(thread[t])
  BY <1>3 DEF Left, Marking, Idle
<1>8. /\ curr \subseteq Visited \ A /\ Visited \subseteq B
      /\ \A v \in Visited \ A :
           v \in curr \/ \E s \in Threads : Marking(thread[s]) /\ v = FirstOf(thread[s].left)
  BY DEF UpInv
<1>9. \A y \in Left(x) : y \div ChunkSize \in todo \ todo'
  BY <1>3, <1>5, <1>6
<1>10. \A v \in B \ Visited' : v \in Left(thread[t]) \/ v \div ChunkSize \in todo \ todo' => v \in Left(x)
  BY <1>1, <1>3, <1>5, <1>6, <1>7 DEF Ring
<1>11. UpInv(A, L, B, f)'
  BY <1>3, <1>4, <1>6, <1>7, <1>8, <1>9, <1>10, UpKept
<1> QED
  BY <1>4, <1>11

\* BUStep looks for a parent of a vertex in the level: front may hold stale
\* bits of earlier levels, but a vertex that is not visited has no neighbour
\* there.
LEMMA UpLooks ==
  ASSUME NEW W, NEW k, NEW A, NEW L, NEW B, At(W, k, A, L, B), NEW f, UpInv(A, L, B, f),
         NEW t \in Threads, thread[t].at = "look", Look(t)
  PROVE  ParentsOK(W)' /\ UpInv(A, L, B, f)'
<1>1. Ring(source, A, L, B)
  BY RingFacts DEF At
<1>2. PICK th : th = thread[t]
  OBVIOUS
<1>u. PICK u : u = FirstOf(th.left)
  OBVIOUS
<1>s. PICK s : s = graph.in[u]
  OBVIOUS
<1>h. PICK hits : hits = {i \in DOMAIN s : s[i] \in front}
  OBVIOUS
<1>3. /\ todo' = todo /\ graph' = graph /\ source' = source /\ step' = step /\ queue' = queue
      /\ buffer' = buffer /\ front' = front /\ curr' = curr
  BY DEF Look, Goes, queueVars
<1>4. /\ LookThread(th) /\ L \subseteq front /\ front \subseteq A /\ A \subseteq Visited
      /\ Visited \subseteq B /\ curr \subseteq Visited \ A
  BY <1>2 DEF UpInv
<1>5. th.left \subseteq Node /\ th.left # {} /\ u \in th.left /\ u \in Node /\ Left(th) = th.left
  <2>1. th.left \subseteq Node /\ th.left # {} /\ Left(th) = th.left
    BY <1>2, <1>4 DEF LookThread, Left
  <2>2. u \in th.left
    BY <1>u, <2>1, FirstFacts, NodeFacts
  <2> QED
    BY <2>1, <2>2
<1>6. ~Marking(th)
  BY <1>2 DEF Marking
<1>7. /\ s \in Seq(Node) /\ \A p \in Node : p \in Elems(s) <=> u \in Elems(graph.out[p])
  BY <1>5, <1>s, GraphFacts DEF At
<1>8. parent[u] \in Int /\ (u \in Visited <=> parent[u] >= 0)
  BY <1>5, ParentsAreVertices DEF At
<1>9. CASE parent[u] < 0 /\ hits # {}
  <2>1. PICK i, p : i = FirstOf(hits) /\ p = s[i]
    OBVIOUS
  <2>2. PICK x : x = [at |-> "readNext", left |-> th.left]
    OBVIOUS
  <2>3. parent' = [parent EXCEPT ![u] = p] /\ thread' = [thread EXCEPT ![t] = x]
    BY <1>2, <1>u, <1>s, <1>h, <1>9, <2>1, <2>2 DEF Look, Goes
  <2>4. i \in DOMAIN s /\ p \in front
    <3>1. hits \subseteq Nat
      BY <1>7, <1>h
    <3>2. i \in hits
      BY <1>9, <2>1, <3>1, FirstFacts
    <3> QED
      BY <1>h, <2>1, <3>2
  <2>5. p \in A /\ p \in Node /\ u \in Elems(graph.out[p])
    <3>1. p \in A /\ p \in Node
      BY <1>1, <1>4, <2>4 DEF Ring
    <3>2. p \in Elems(s)
      BY <2>1, <2>4 DEF Elems
    <3> QED
      BY <1>7, <3>1, <3>2
  <2>6. u \notin Visited /\ u \notin A
    BY <1>4, <1>8, <1>9
  <2>7. p \in L
    BY <1>1, <2>5, <2>6 DEF Ring
  <2>8. ParentsOK(W)' /\ Visited' = Visited \cup {u}
    BY <1>3, <2>3, <2>5, <2>6, <2>7, NewParent DEF At
  <2>9. u \in B
    BY <1>1, <2>5, <2>7 DEF Ring
  <2>10. x.at = "readNext" /\ x.left = th.left /\ Left(x) = Left(th) /\ Marking(x) /\ FirstOf(x.left) = u
    BY <1>5, <1>u, <2>2 DEF Left, Marking
  <2>11. LookThread(x)'
    BY <1>5, <2>10 DEF LookThread
  <2>12. /\ Visited \subseteq Visited' /\ Visited' \subseteq B /\ curr' \subseteq Visited' \ A
         /\ curr \subseteq curr' /\ u \in Visited' \ A /\ todo' \subseteq todo
    BY <1>3, <1>4, <2>6, <2>8, <2>9
  <2>13. \A v \in Visited' \ A :
            v \notin Visited \/ (Marking(thread[t]) /\ v = FirstOf(thread[t].left))
              => v \in curr' \/ (Marking(x) /\ v = FirstOf(x.left))
    BY <1>2, <1>6, <2>8, <2>10
  <2>14. /\ \A y \in Left(x) : y \in Left(thread[t]) \/ y \div ChunkSize \in todo \ todo'
         /\ \A v \in B \ Visited' :
               v \in Left(thread[t]) \/ v \div ChunkSize \in todo \ todo' => v \in Left(x)
    BY <1>2, <1>3, <2>10
  <2>15. \A r \in Threads : r # t /\ thread[r].at = "writeNext" =>
            curr' \cap Word(FirstOf(thread[r].left)) = curr \cap Word(FirstOf(thread[r].left))
    BY <1>3
  <2>16. UpInv(A, L, B, f)'
    BY <1>3, <2>3, <2>10, <2>11, <2>12, <2>13, <2>14, <2>15, UpKept
  <2> QED
    BY <2>8, <2>16
<1>10. CASE ~(parent[u] < 0 /\ hits # {})
  <2>1. PICK S, x : S = th.left \ {u} /\ x = NextUp(S)
    OBVIOUS
  <2>2. parent' = parent /\ thread' = [thread EXCEPT ![t] = x]
    BY <1>2, <1>u, <1>s, <1>h, <1>10, <2>1 DEF Look, Goes
  <2>3. ParentsOK(W)' /\ Visited' = Visited
    BY <1>3, <2>2, SameParents DEF At
  <2>4. Left(x) = S /\ ~Marking(x) /\ LookThread(x)'
    <3>1. S \subseteq Node
      BY <1>5, <2>1
    <3> QED
      BY <2>1, <3>1, NextUpFacts
  <2>5. u \notin B \ Visited
    <3>1. SUFFICES ASSUME u \in B, u \notin Visited PROVE FALSE
      OBVIOUS
    <3>2. parent[u] < 0 /\ hits = {}
      BY <1>8, <1>10, <3>1
    <3>3. PICK p \in L : u \in Elems(graph.out[p])
      BY <1>1, <1>4, <3>1 DEF Ring
    <3>4. p \in Elems(s) /\ p \in front
      BY <1>1, <1>4, <1>7, <3>3 DEF Ring
    <3>5. PICK i \in DOMAIN s : s[i] = p
      BY <3>4 DEF Elems
    <3> QED
      BY <1>h, <3>2, <3>4, <3>5
  <2>6. /\ Visited' \subseteq B /\ curr' \subseteq Visited' \ A
        /\ curr \subseteq curr' /\ todo' \subseteq todo
    BY <1>3, <1>4, <2>3
  <2>7. \A v \in Visited' \ A :
            v \notin Visited \/ (Marking(thread[t]) /\ v = FirstOf(thread[t].left))
              => v \in curr' \/ (Marking(x) /\ v = FirstOf(x.left))
    BY <1>2, <1>6, <2>3
  <2>8. /\ \A y \in Left(x) : y \in Left(thread[t]) \/ y \div ChunkSize \in todo \ todo'
        /\ \A v \in B \ Visited' :
               v \in Left(thread[t]) \/ v \div ChunkSize \in todo \ todo' => v \in Left(x)
    BY <1>2, <1>3, <1>5, <2>1, <2>3, <2>4, <2>5
  <2>9. \A r \in Threads : r # t /\ thread[r].at = "writeNext" =>
            curr' \cap Word(FirstOf(thread[r].left)) = curr \cap Word(FirstOf(thread[r].left))
    BY <1>3
  <2>10. UpInv(A, L, B, f)'
    BY <1>3, <2>2, <2>3, <2>4, <2>6, <2>7, <2>8, <2>9, UpKept
  <2> QED
    BY <2>3, <2>10
<1> QED
  BY <1>9, <1>10

\* BUStep reads the word that holds the vertex's bit.
LEMMA UpReads ==
  ASSUME NEW W, NEW k, NEW A, NEW L, NEW B, At(W, k, A, L, B), NEW f, UpInv(A, L, B, f),
         NEW t \in Threads, thread[t].at = "readNext", ReadNext(t)
  PROVE  ParentsOK(W)' /\ UpInv(A, L, B, f)'
<1>2. PICK th : th = thread[t]
  OBVIOUS
<1>x. PICK x : x = [at |-> "writeNext", left |-> th.left, word |-> curr \cap Word(FirstOf(th.left))]
  OBVIOUS
<1>3. /\ todo' = todo /\ graph' = graph /\ source' = source /\ step' = step /\ queue' = queue
      /\ buffer' = buffer /\ front' = front /\ curr' = curr /\ parent' = parent
      /\ thread' = [thread EXCEPT ![t] = x]
  BY <1>2, <1>x DEF ReadNext, Goes, queueVars, searchVars
<1>4. /\ LookThread(th) /\ Visited \subseteq B /\ curr \subseteq Visited \ A
      /\ (Marking(th) => FirstOf(th.left) \in Visited \ A)
  BY <1>2 DEF UpInv
<1>5. ParentsOK(W)' /\ Visited' = Visited
  BY <1>3, SameParents DEF At
<1>6. /\ x.at = "writeNext" /\ x.left = th.left /\ Left(x) = Left(th) /\ Marking(x) /\ Marking(th)
      /\ x.word = curr \cap Word(FirstOf(th.left))
  BY <1>2, <1>x DEF Left, Marking
<1>7. LookThread(x)'
  <2>1. th.left \subseteq Node /\ th.left # {}
    BY <1>2, <1>4 DEF LookThread
  <2> QED
    BY <1>3, <1>6, <2>1 DEF LookThread
<1>8. /\ \A v \in Visited' \ A :
            v \notin Visited \/ (Marking(thread[t]) /\ v = FirstOf(thread[t].left))
              => v \in curr' \/ (Marking(x) /\ v = FirstOf(x.left))
      /\ \A y \in Left(x) : y \in Left(thread[t]) \/ y \div ChunkSize \in todo \ todo'
      /\ \A v \in B \ Visited' :
            v \in Left(thread[t]) \/ v \div ChunkSize \in todo \ todo' => v \in Left(x)
      /\ \A r \in Threads : r # t /\ thread[r].at = "writeNext" =>
            curr' \cap Word(FirstOf(thread[r].left)) = curr \cap Word(FirstOf(thread[r].left))
  BY <1>2, <1>3, <1>5, <1>6
<1>9. Marking(x) => FirstOf(x.left) \in Visited' \ A
  BY <1>4, <1>5, <1>6
<1>10. /\ todo' \subseteq todo /\ Visited \subseteq Visited' /\ Visited' \subseteq B
       /\ curr \subseteq curr' /\ curr' \subseteq Visited' \ A
  BY <1>3, <1>4, <1>5
<1>11. UpInv(A, L, B, f)'
  BY <1>3, <1>7, <1>8, <1>9, <1>10, UpKept
<1> QED
  BY <1>5, <1>11

\* And writes it back: no other thread has touched a bit of that word since.
LEMMA UpWrites ==
  ASSUME NEW W, NEW k, NEW A, NEW L, NEW B, At(W, k, A, L, B), NEW f, UpInv(A, L, B, f),
         NEW t \in Threads, thread[t].at = "writeNext", WriteNext(t)
  PROVE  ParentsOK(W)' /\ UpInv(A, L, B, f)'
<1>2. PICK th : th = thread[t]
  OBVIOUS
<1>u. PICK u : u = FirstOf(th.left)
  OBVIOUS
<1>x. PICK S, x : S = th.left \ {u} /\ x = NextUp(S)
  OBVIOUS
<1>3. /\ todo' = todo /\ graph' = graph /\ source' = source /\ step' = step /\ queue' = queue
      /\ buffer' = buffer /\ front' = front /\ parent' = parent
      /\ thread' = [thread EXCEPT ![t] = x]
      /\ curr' = (curr \ Word(u)) \cup th.word \cup {u}
  BY <1>2, <1>u, <1>x DEF WriteNext, Goes, queueVars
<1>4. /\ LookThread(th) /\ Visited \subseteq B /\ curr \subseteq Visited \ A
      /\ (Marking(th) => FirstOf(th.left) \in Visited \ A)
      /\ \A s \in Threads : s # t =>
           \A y \in Left(thread[s]), z \in Left(thread[t]) : y \div ChunkSize # z \div ChunkSize
      /\ \A s \in Threads : LookThread(thread[s])
  BY <1>2 DEF UpInv
<1>5. ParentsOK(W)' /\ Visited' = Visited
  BY <1>3, SameParents DEF At
<1>6. /\ th.left \subseteq Node /\ u \in th.left /\ u \in Node /\ Left(th) = th.left /\ Marking(th)
      /\ th.word = curr \cap Word(u)
  <2>1. th.left \subseteq Node /\ th.left # {} /\ Left(th) = th.left /\ Marking(th)
    BY <1>2, <1>4 DEF LookThread, Left, Marking
  <2>2. u \in th.left
    BY <1>u, <2>1, FirstFacts, NodeFacts
  <2> QED
    BY <1>2, <1>4, <1>u, <2>1, <2>2 DEF LookThread
<1>7. curr' = curr \cup {u} /\ u \in Visited \ A
  BY <1>3, <1>4, <1>6, <1>u
<1>8. Left(x) = S /\ ~Marking(x) /\ LookThread(x)'
  <2>1. S \subseteq Node
    BY <1>6, <1>x
  <2> QED
    BY <1>x, <2>1, NextUpFacts
<1>9. ASSUME NEW r \in Threads, r # t, thread[r].at = "writeNext"
      PROVE  curr' \cap Word(FirstOf(thread[r].left)) = curr \cap Word(FirstOf(thread[r].left))
  <2>1. PICK y, T : T = thread[r].left /\ y = FirstOf(T)
    OBVIOUS
  <2>2. LookThread(thread[r]) /\ Left(thread[r]) = T /\ T \subseteq Node /\ T # {}
    BY <1>4, <1>9, <2>1 DEF LookThread, Left
  <2>3. y \in T /\ y \in Node
    BY <2>1, <2>2, FirstFacts, NodeFacts
  <2>4. y \div ChunkSize # u \div ChunkSize
    BY <1>2, <1>4, <1>6, <1>9, <2>2, <2>3
  <2>5. Word(y) \cap Word(u) = {}
    BY <1>6, <2>3, <2>4, WordsApart
  <2>6. u \in Word(u)
    BY <1>6, FrontierAssumption, NodeFacts DEF Word
  <2> QED
    BY <1>7, <2>1, <2>5, <2>6
<1>10. /\ \A v \in Visited' \ A :
            v \notin Visited \/ (Marking(thread[t]) /\ v = FirstOf(thread[t].left))
              => v \in curr' \/ (Marking(x) /\ v = FirstOf(x.left))
       /\ \A y \in Left(x) : y \in Left(thread[t]) \/ y \div ChunkSize \in todo \ todo'
       /\ \A v \in B \ Visited' :
            v \in Left(thread[t]) \/ v \div ChunkSize \in todo \ todo' => v \in Left(x)
  BY <1>2, <1>3, <1>5, <1>6, <1>7, <1>8, <1>u, <1>x
<1>11. /\ todo' \subseteq todo /\ Visited \subseteq Visited' /\ Visited' \subseteq B
       /\ curr \subseteq curr' /\ curr' \subseteq Visited' \ A
  BY <1>3, <1>4, <1>5, <1>7
<1>12. UpInv(A, L, B, f)'
  BY <1>3, <1>8, <1>9, <1>10, <1>11, UpKept
<1> QED
  BY <1>5, <1>12

\* The barrier at the end of BUStep: curr holds the next level, which is
\* found bottom-up again or goes back into the queue.
LEMMA UpEnds ==
  ASSUME NEW W, NEW k, NEW A, NEW L, NEW B, At(W, k, A, L, B), NEW f, UpInv(A, L, B, f),
         EndBottomUp
  PROVE  StepsOn(W)
<1>1. /\ Ring(source, A, L, B) /\ Deeper(k) \in 0 .. N /\ AtDepth(W, Deeper(k)) = B \ A
  BY RingFacts DEF At
<1>2. PICK M, C : M = B \ A /\ C = W[Deeper(Deeper(k))]
  OBVIOUS
<1>3. Ring(source, B, M, C)
  <2>1. Ring(source, W[Deeper(k)], AtDepth(W, Deeper(k)), W[Deeper(Deeper(k))])
    BY <1>1, RingFacts DEF At
  <2> QED
    BY <1>1, <1>2, <2>1 DEF At
<1>4. /\ QueueOK(f, {}) /\ Placed(f) \subseteq A /\ A \subseteq Visited /\ Visited \subseteq B
      /\ curr \subseteq Visited \ A /\ DOMAIN thread = Threads
      /\ \A v \in Visited \ A :
           v \in curr \/ \E s \in Threads : Marking(thread[s]) /\ v = FirstOf(thread[s].left)
      /\ \A v \in B \ Visited :
           v \div ChunkSize \in todo \/ \E s \in Threads : v \in Left(thread[s])
  BY DEF UpInv
<1>5. /\ TeamDone /\ front' = curr /\ thread' = [t \in Threads |-> Idle] /\ graph' = graph
      /\ source' = source /\ parent' = parent /\ queue' = queue /\ buffer' = buffer
  BY DEF EndBottomUp, BeginBottomUp, BeginLoop, queueVars
<1>6. \/ step' = "bu" /\ todo' = Chunks /\ curr' = {}
      \/ step' = "toQueue" /\ todo' = Node
  BY DEF EndBottomUp, BeginBottomUp, BeginLoop
<1>7. ParentsOK(W)' /\ Visited' = Visited
  BY <1>5, SameParents DEF At
<1>8. \A t \in Threads : ~Flushing(thread[t]) /\ ~Marking(thread[t]) /\ Left(thread[t]) = {}
  BY <1>5 DEF TeamDone, Idle, Flushing, Marking, Left
<1>9. Visited = B /\ curr = M
  <2>1. todo = {}
    BY <1>5 DEF TeamDone
  <2>2. Visited = B
    BY <1>4, <1>8, <2>1
  <2> QED
    BY <1>2, <1>4, <1>8, <2>2
<1>10. QueueOK(f, {})' /\ Placed(f)' = Placed(f) /\ Old(f)' = Old(f) /\ Old(f) \subseteq Placed(f)
  <2>1. QueueOK(f, {})'
    BY <1>4, <1>5, <1>8, RestartedQueue
  <2>2. Placed(f)' = Placed(f) /\ Old(f)' = Old(f)
    BY <1>5 DEF Placed, Old
  <2>3. Old(f) \subseteq Placed(f)
    BY <1>4 DEF Old, Placed, QueueOK, QueueType
  <2> QED
    BY <2>1, <2>2, <2>3
<1>11. Placed(f)' \subseteq A /\ A \subseteq B /\ Visited' = B /\ front' = M /\ DOMAIN thread' = Threads
  BY <1>1, <1>4, <1>5, <1>7, <1>9, <1>10 DEF Ring
<1>12. W[Deeper(k)] = B /\ AtDepth(W, Deeper(k)) = M
  BY <1>1, <1>2 DEF At
<1>13. CASE step' = "bu" /\ todo' = Chunks /\ curr' = {}
  <2>1. \A t \in Threads : LookThread(thread[t])' /\ Left(thread'[t]) = {} /\ ~Marking(thread'[t])
    BY <1>5 DEF LookThread, Left, Marking, Idle
  <2>2. \A v \in C \ Visited' : v \div ChunkSize \in todo'
    BY <1>3, <1>13, ChunkFacts DEF Ring
  <2>3. /\ Placed(f)' \subseteq B /\ M \subseteq front' /\ front' \subseteq B /\ B \subseteq Visited'
        /\ Visited' \subseteq C /\ Visited' \ B = {} /\ curr' \subseteq Visited' \ B
    BY <1>3, <1>11, <1>13 DEF Ring
  <2>4. UpInv(B, M, C, f)'
    BY <1>10, <1>11, <1>13, <2>1, <2>2, <2>3 DEF UpInv
  <2>5. LevelInv(W, Deeper(k), f)'
    BY <1>2, <1>12, <2>4 DEF LevelInv
  <2> QED
    BY <1>1, <1>7, <2>5 DEF StepsOn
<1>14. CASE step' = "toQueue" /\ todo' = Node
  <2>1. \A t \in Threads : /\ PushThread(thread[t], M)' /\ thread'[t].at # "push"
                           /\ Work(thread'[t]) # Joined
    BY <1>5 DEF PushThread, Idle, Flushing, Work, Joined
  <2>2. (front' \ todo') \ Pushing' = {}
    BY <1>3, <1>11, <1>14 DEF Ring
  <2>3. QueueOK(f, (front \ todo) \ Pushing)'
    BY <1>10, <2>2
  <2>4. Old(f)' \subseteq B \ M
    BY <1>2, <1>4, <1>10, <1>11
  <2>5. ToQueueInv(B, M, f)'
    BY <1>11, <1>14, <2>1, <2>3, <2>4 DEF ToQueueInv
  <2>6. LevelInv(W, Deeper(k), f)'
    BY <1>12, <2>5 DEF LevelInv
  <2> QED
    BY <1>1, <1>7, <2>6 DEF StepsOn
<1> QED
  BY <1>6, <1>13, <1>14

\* What a step of thread t to x must keep while the bits go into the queue.
LEMMA ToQueueKept ==
  ASSUME NEW A, NEW L, NEW f, NEW g, NEW t \in Threads, NEW x, ToQueueInv(A, L, f),
         step' = step, front' = front, thread' = [thread EXCEPT ![t] = x], Visited' = Visited,
         queue'.end = queue.end, \A i \in 0 .. queue.in - 1 : g[i] = f[i],
         QueueOK(g, (front \ todo) \ Pushing)', todo' \subseteq todo,
         PushThread(x, L)', Work(x) = Joined => todo' = {},
         x.at = "push" => \A s \in Threads : s # t /\ thread[s].at = "push" => thread[s].u # x.u
  PROVE  ToQueueInv(A, L, g)'
<1>1. /\ step = "toQueue" /\ QueueOK(f, (front \ todo) \ Pushing) /\ Old(f) \subseteq A \ L
      /\ Visited = A /\ front = L /\ todo \subseteq Node /\ DOMAIN thread = Threads
      /\ \A s \in Threads : PushThread(thread[s], L)
      /\ \A t1, t2 \in Threads :
           thread[t1].at = "push" /\ thread[t2].at = "push" /\ thread[t1].u = thread[t2].u => t1 = t2
      /\ \A s \in Threads : Work(thread[s]) = Joined => todo = {}
  BY DEF ToQueueInv
<1>2. /\ DOMAIN thread' = Threads /\ thread'[t] = x
      /\ \A s \in Threads : s # t => thread'[s] = thread[s]
  BY <1>1
<1>3. Old(g)' \subseteq A \ L
  <2>1. queue.end \in Nat /\ queue.in \in Nat /\ queue.end <= queue.in
    BY <1>1 DEF QueueOK, QueueType
  <2>2. \A i \in 0 .. queue.end - 1 : g[i] = f[i]
    BY <2>1
  <2> QED
    BY <1>1, <2>2 DEF Old
<1>4. ASSUME NEW s \in Threads
      PROVE  PushThread(thread[s], L)' /\ (Work(thread'[s]) = Joined => todo' = {})
  <2>1. CASE s = t
    BY <1>2, <2>1
  <2>2. CASE s # t
    BY <1>1, <1>2, <2>2 DEF PushThread
  <2> QED
    BY <2>1, <2>2
<1>5. ASSUME NEW t1 \in Threads, NEW t2 \in Threads, thread'[t1].at = "push", thread'[t2].at = "push",
             thread'[t1].u = thread'[t2].u
      PROVE  t1 = t2
  BY <1>1, <1>2, <1>5
<1> QED
  BY <1>1, <1>2, <1>3, <1>4, <1>5 DEF ToQueueInv

\* BitmapToQueue takes a vertex and looks at its bit.
LEMMA ToQueueTakes ==
  ASSUME NEW W, NEW k, NEW A, NEW L, NEW B, At(W, k, A, L, B), NEW f, ToQueueInv(A, L, f),
         NEW t \in Threads, NEW n \in todo, TakeToQueue(t, n)
  PROVE  ParentsOK(W)' /\ ToQueueInv(A, L, f)'
<1>1. PICK x : x = IF n \in front THEN [at |-> "push", u |-> n] ELSE Idle
  OBVIOUS
<1>2. /\ thread[t] = Idle /\ todo' = todo \ {n} /\ thread' = [thread EXCEPT ![t] = x]
      /\ graph' = graph /\ source' = source /\ step' = step /\ queue' = queue /\ buffer' = buffer
      /\ parent' = parent /\ front' = front
  BY <1>1 DEF TakeToQueue, Take, queueVars, searchVars
<1>3. ParentsOK(W)' /\ Visited' = Visited
  BY <1>2, SameParents DEF At
<1>4. PICK New : New = (front \ todo) \ Pushing
  OBVIOUS
<1>5. /\ QueueOK(f, New) /\ DOMAIN thread = Threads /\ front = L
      /\ \A s \in Threads : PushThread(thread[s], L)
  BY <1>4 DEF ToQueueInv
<1>6. \/ n \in front /\ x.at = "push" /\ x.u = n
      \/ n \notin front /\ x = Idle
  BY <1>1
<1>7. thread[t].at = "idle" /\ ~Flushing(thread[t]) /\ ~Flushing(x) /\ x.at # "joined" /\ Work(x) # Joined
  BY <1>2, <1>6 DEF Idle, Flushing, Work, Joined
<1>8. QueueOK(f, New)'
  BY <1>2, <1>5, <1>7, QuietQueue
<1>9. /\ thread'[t] = x /\ \A s \in Threads : s # t => thread'[s] = thread[s]
  BY <1>2, <1>5
<1>10. New = (front' \ todo') \ Pushing'
  <2>1. CASE n \in front /\ x.at = "push" /\ x.u = n
    <3>1. Pushing' = Pushing \cup {n}
      BY <1>7, <1>9, <2>1 DEF Pushing
    <3> QED
      BY <1>2, <1>4, <2>1, <3>1
  <2>2. CASE n \notin front /\ x = Idle
    <3>1. Pushing' = Pushing
      BY <1>7, <1>9, <2>2 DEF Pushing, Idle
    <3> QED
      BY <1>2, <1>4, <2>2, <3>1
  <2> QED
    BY <1>6, <2>1, <2>2
<1>11. QueueOK(f, (front \ todo) \ Pushing)'
  BY <1>8, <1>10
<1>12. PushThread(x, L)'
  BY <1>2, <1>5, <1>6 DEF PushThread, Idle, Flushing
<1>13. x.at = "push" => \A s \in Threads : s # t /\ thread[s].at = "push" => thread[s].u # x.u
  BY <1>5, <1>6 DEF PushThread, Idle
<1>14. todo' \subseteq todo /\ queue'.end = queue.end
  BY <1>2
<1>15. ToQueueInv(A, L, f)'
  BY <1>2, <1>3, <1>7, <1>11, <1>12, <1>13, <1>14, ToQueueKept
<1> QED
  BY <1>3, <1>15

\* BitmapToQueue pushes a vertex of the level.
LEMMA ToQueuePushes ==
  ASSUME NEW W, NEW k, NEW A, NEW L, NEW B, At(W, k, A, L, B), NEW f, ToQueueInv(A, L, f),
         NEW t \in Threads, thread[t].at = "push", PushBit(t)
  PROVE  ParentsOK(W)' /\ ToQueueInv(A, L, f)'
<1>0. Ring(source, A, L, B)
  BY RingFacts DEF At
<1>1. PICK u : u = thread[t].u
  OBVIOUS
<1>2. /\ graph' = graph /\ source' = source /\ step' = step /\ queue' = queue /\ todo' = todo
      /\ parent' = parent /\ front' = front /\ BufferPush(t, u, Idle)
  BY <1>1 DEF PushBit, Goes, BufferPush, searchVars
<1>3. ParentsOK(W)' /\ Visited' = Visited
  BY <1>2, SameParents DEF At
<1>4. PICK New : New = (front \ todo) \ Pushing
  OBVIOUS
<1>5. /\ QueueOK(f, New) /\ DOMAIN thread = Threads /\ front = L /\ Old(f) \subseteq A \ L
      /\ \A s \in Threads : PushThread(thread[s], L)
      /\ \A t1, t2 \in Threads :
           thread[t1].at = "push" /\ thread[t2].at = "push" /\ thread[t1].u = thread[t2].u => t1 = t2
  BY <1>4 DEF ToQueueInv
<1>6. u \in L /\ u \notin todo /\ u \in Pushing /\ u \in Node
  BY <1>0, <1>1, <1>5 DEF PushThread, Pushing, Ring
<1>7. QueueOK(f, New \cup {u})'
  <2>1. u \notin New /\ u \notin Old(f) /\ ~Flushing(thread[t]) /\ ~Flushing(Idle) /\ Idle.at # "joined"
    BY <1>4, <1>5, <1>6 DEF Flushing, Idle
  <2> QED
    BY <1>2, <1>5, <1>6, <2>1, PushedQueue
<1>8. PICK x : /\ x = Idle \/ (x.at = "reserve" /\ x.next = Idle)
               /\ thread' = [thread EXCEPT ![t] = x]
  <2>1. PICK y : y = [at |-> "reserve", held |-> <<u>>, next |-> Idle]
    OBVIOUS
  <2>2. y.at = "reserve" /\ y.next = Idle
    BY <2>1
  <2>3. thread' = [thread EXCEPT ![t] = y] \/ thread' = [thread EXCEPT ![t] = Idle]
    BY <1>2, <2>1 DEF BufferPush, Goes
  <2> QED
    BY <2>2, <2>3
<1>9. x.at # "push" /\ Work(x) # Joined /\ PushThread(x, L)'
  BY <1>8 DEF PushThread, Work, Flushing, Idle, Joined
<1>10. thread'[t] = x /\ \A s \in Threads : s # t => thread'[s] = thread[s]
  BY <1>5, <1>8
<1>11. Pushing' = Pushing \ {u}
  BY <1>1, <1>5, <1>9, <1>10 DEF Pushing
<1>12. New \cup {u} = (front' \ todo') \ Pushing'
  BY <1>2, <1>4, <1>5, <1>6, <1>11
<1>13. QueueOK(f, (front \ todo) \ Pushing)'
  BY <1>7, <1>12
<1>14. todo' \subseteq todo /\ queue'.end = queue.end
  BY <1>2
<1>15. ToQueueInv(A, L, f)'
  BY <1>2, <1>3, <1>8, <1>9, <1>13, <1>14, ToQueueKept
<1> QED
  BY <1>3, <1>15

\* A flush while the bits go into the queue.
LEMMA ToQueueFlushes ==
  ASSUME NEW W, NEW k, NEW A, NEW L, NEW B, At(W, k, A, L, B), NEW f, ToQueueInv(A, L, f),
         NEW t \in Threads, UNCHANGED searchVars, Reserve(t) \/ CopyOut(t) \/ LastFlush(t)
  PROVE  ParentsOK(W)' /\ \E g : ToQueueInv(A, L, g)'
<1>2. PICK th : th = thread[t]
  OBVIOUS
<1>3. /\ graph' = graph /\ source' = source /\ step' = step /\ todo' = todo
      /\ parent' = parent /\ front' = front /\ todo' \subseteq todo
  BY DEF Reserve, CopyOut, LastFlush, Goes, searchVars
<1>4. ParentsOK(W)' /\ Visited' = Visited
  BY <1>3, SameParents DEF At
<1>5. PICK New : New = (front \ todo) \ Pushing
  OBVIOUS
<1>6. /\ QueueOK(f, New) /\ DOMAIN thread = Threads /\ PushThread(th, L)
      /\ Work(th) = Joined => todo = {}
  BY <1>2, <1>5 DEF ToQueueInv
<1>7. ASSUME NEW g, QueueOK(g, New)', \A i \in 0 .. queue.in - 1 : g[i] = f[i],
             queue'.end = queue.end, th.at # "push",
             NEW x, thread' = [thread EXCEPT ![t] = x], PushThread(x, L)', x.at # "push",
             Work(x) = Work(th) \/ todo = {}
      PROVE  ToQueueInv(A, L, g)'
  <2>1. thread'[t] = x /\ \A s \in Threads : s # t => thread'[s] = thread[s]
    BY <1>6, <1>7
  <2>2. Pushing' = Pushing
    BY <1>2, <1>7, <2>1 DEF Pushing
  <2>3. QueueOK(g, (front \ todo) \ Pushing)'
    BY <1>3, <1>5, <1>7, <2>2
  <2>4. Work(x) = Joined => todo' = {}
    BY <1>3, <1>6, <1>7
  <2> QED
    BY <1>3, <1>4, <1>7, <2>3, <2>4, ToQueueKept
<1>9. CASE Reserve(t)
  <2>1. PICK g : QueueOK(g, New)' /\ \A i \in 0 .. queue.in - 1 : g[i] = f[i]
    BY <1>6, <1>9, ReservedQueue
  <2>2. /\ th.at = "reserve" /\ queue' = [queue EXCEPT !.in = @ + Len(buffer[t])]
    BY <1>2, <1>9 DEF Reserve
  <2>3. queue'.end = queue.end
    BY <1>6, <2>2 DEF QueueOK, QueueType
  <2>4. PICK x : x = [at |-> "copy", held |-> th.held, next |-> th.next, base |-> queue.in]
    OBVIOUS
  <2>5. x.at = "copy" /\ x.next = th.next /\ thread' = [thread EXCEPT ![t] = x]
    BY <1>2, <1>9, <2>4 DEF Reserve, Goes
  <2>6. Work(x) = Work(th) /\ Work(th) = th.next
    BY <2>2, <2>5 DEF Work, Flushing
  <2>7. PushThread(x, L)'
    BY <1>6, <2>2, <2>5 DEF PushThread, Flushing
  <2>8. ToQueueInv(A, L, g)'
    BY <1>7, <2>1, <2>2, <2>3, <2>5, <2>6, <2>7
  <2> QED
    BY <1>4, <2>8
<1>10. CASE CopyOut(t)
  <2>1. /\ th.at = "copy" /\ thread' = [thread EXCEPT ![t] = th.next]
    BY <1>2, <1>10 DEF CopyOut, Goes
  <2>2. th.next \in {Idle, Joined} /\ Work(th) = th.next
    BY <1>6, <2>1 DEF PushThread, Flushing, Work
  <2>3. /\ ~Flushing(th.next) /\ Work(th.next) = th.next /\ th.next.at # "push"
        /\ (th.next.at = "joined" => th.next = Joined) /\ PushThread(th.next, L)'
    BY <2>2 DEF Flushing, Idle, Joined, Work, PushThread
  <2>4. QueueOK(f, New)'
    BY <1>2, <1>6, <1>10, <2>3, CopiedQueue
  <2>5. queue'.end = queue.end
    <3>1. \E X : queue' = [queue EXCEPT !.shared = X]
      BY <1>10 DEF CopyOut
    <3> QED
      BY <1>6, <3>1 DEF QueueOK, QueueType
  <2>6. ToQueueInv(A, L, f)'
    BY <1>7, <2>1, <2>2, <2>3, <2>4, <2>5
  <2> QED
    BY <1>4, <2>6
<1>11. CASE LastFlush(t)
  <2>1. PICK x : x = [at |-> "reserve", held |-> <<>>, next |-> Joined]
    OBVIOUS
  <2>2. /\ th = Idle /\ todo = {} /\ thread' = [thread EXCEPT ![t] = x] /\ queue' = queue
        /\ x.at = "reserve" /\ x.next = Joined /\ th.at # "push"
    BY <1>2, <1>11, <2>1 DEF LastFlush, Goes, queueVars, Idle
  <2>3. QueueOK(f, New)'
    BY <1>6, <1>11, LastFlushQueue
  <2>4. PushThread(x, L)'
    BY <2>2 DEF PushThread, Flushing
  <2>5. ToQueueInv(A, L, f)'
    BY <1>7, <2>2, <2>3, <2>4
  <2> QED
    BY <1>4, <2>5
<1> QED
  BY <1>9, <1>10, <1>11

\* The barrier at the end of BitmapToQueue: the level is the window again.
LEMMA ToQueueEnds ==
  ASSUME NEW W, NEW k, NEW A, NEW L, NEW B, At(W, k, A, L, B), NEW f, ToQueueInv(A, L, f),
         EndToQueue
  PROVE  ParentsOK(W)' /\ LoopInv(A, L, f)'
<1>0. Ring(source, A, L, B)
  BY RingFacts DEF At
<1>2. /\ AllJoined /\ queue' = Slide(queue) /\ step' = "loop" /\ todo' = {}
      /\ thread' = [t \in Threads |-> Idle] /\ buffer' = buffer /\ graph' = graph
      /\ source' = source /\ parent' = parent /\ front' = front
  BY DEF EndToQueue, BeginLoop
<1>3. ParentsOK(W)' /\ Visited' = Visited
  BY <1>2, SameParents DEF At
<1>5. PICK New : New = (front \ todo) \ Pushing
  OBVIOUS
<1>6. QueueOK(f, New) /\ Old(f) \subseteq A \ L /\ front = L /\ Visited = A
  BY <1>5 DEF ToQueueInv
<1>7. todo = {} /\ Pushing = {}
  <2>1. PICK t \in Threads : TRUE
    BY KernelAssumption
  <2>2. Work(thread[t]) = Joined
    BY <1>2 DEF AllJoined, Work, Joined, Flushing
  <2>3. todo = {}
    BY <2>2 DEF ToQueueInv
  <2>4. Pushing = {}
    BY <1>2 DEF Pushing, AllJoined, Joined
  <2> QED
    BY <2>3, <2>4
<1>8. New = L
  BY <1>5, <1>6, <1>7
<1>9. /\ QueueOK(f, {})' /\ InPlace(f, New)'
      /\ Placed(f)' = Placed(f) /\ Placed(f) = Old(f) \cup New
  <2>1. \A t \in Threads : buffer[t] = <<>> /\ ~Flushing(thread[t])
    BY <1>2, <1>6, JoinedBuffers
  <2> QED
    BY <1>2, <1>6, <2>1, SlidQueue
<1>10. Placed(f)' \subseteq A /\ front' \subseteq A
  BY <1>0, <1>2, <1>6, <1>8, <1>9 DEF Ring
<1>11. LoopInv(A, L, f)'
  BY <1>2, <1>3, <1>6, <1>8, <1>9, <1>10 DEF LoopInv, AllIdle
<1> QED
  BY <1>3, <1>11

\* The phases of a bottom-up level, whole.
LEMMA ToBitmapStep ==
  ASSUME NEW W, NEW k, NEW A, NEW L, NEW B, At(W, k, A, L, B), NEW f, ToBitmapInv(A, L, f), BfsNext
  PROVE  StepsOn(W)
<1>1. step = "toBitmap"
  BY DEF ToBitmapInv
<1>2. k \in 0 .. N /\ A = W[k] /\ L = AtDepth(W, k) /\ B = W[Deeper(k)]
  BY DEF At
<1>3. ASSUME NEW t \in Threads, ThreadStep(t)
      PROVE  StepsOn(W)
  <2>1. ParentsOK(W)' /\ ToBitmapInv(A, L, f)'
    BY <1>3, ToBitmapSteps
  <2>2. LevelInv(W, k, f)'
    BY <1>2, <2>1 DEF LevelInv
  <2> QED
    BY <1>2, <2>1, <2>2 DEF StepsOn
<1>4. CASE EndToBitmap
  <2>1. ParentsOK(W)' /\ UpInv(A, L, B, f)'
    BY <1>4, ToBitmapEnds
  <2>2. LevelInv(W, k, f)'
    BY <1>2, <2>1 DEF LevelInv
  <2> QED
    BY <1>2, <2>1, <2>2 DEF StepsOn
<1>5. ~(GoBottomUp \/ GoTopDown \/ Return \/ EndTopDown \/ EndBottomUp \/ EndToQueue)
  BY <1>1 DEF GoBottomUp, GoTopDown, Return, EndTopDown, EndBottomUp, EndToQueue
<1> QED
  BY <1>3, <1>4, <1>5, NextSteps

LEMMA UpStep ==
  ASSUME NEW W, NEW k, NEW A, NEW L, NEW B, At(W, k, A, L, B), NEW f, UpInv(A, L, B, f), BfsNext
  PROVE  StepsOn(W)
<1>1. step = "bu" /\ \A t \in Threads : LookThread(thread[t])
  BY DEF UpInv
<1>2. k \in 0 .. N /\ A = W[k] /\ L = AtDepth(W, k) /\ B = W[Deeper(k)]
  BY DEF At
<1>3. ASSUME NEW t \in Threads, ThreadStep(t)
      PROVE  StepsOn(W)
  <2>1. thread[t].at \in {"idle", "look", "readNext", "writeNext"}
    BY <1>1 DEF LookThread
  <2>2. \/ \E c \in todo : TakeChunk(t, c)
        \/ thread[t].at = "look" /\ Look(t)
        \/ thread[t].at = "readNext" /\ ReadNext(t)
        \/ thread[t].at = "writeNext" /\ WriteNext(t)
    BY <1>1, <1>3, <2>1, ThreadMoves
  <2>3. ParentsOK(W)' /\ UpInv(A, L, B, f)'
    <3>1. CASE \E c \in todo : TakeChunk(t, c)
      BY <3>1, UpTakes
    <3>2. CASE thread[t].at = "look" /\ Look(t)
      BY <3>2, UpLooks
    <3>3. CASE thread[t].at = "readNext" /\ ReadNext(t)
      BY <3>3, UpReads
    <3>4. CASE thread[t].at = "writeNext" /\ WriteNext(t)
      BY <3>4, UpWrites
    <3> QED
      BY <2>2, <3>1, <3>2, <3>3, <3>4
  <2>4. LevelInv(W, k, f)'
    BY <1>2, <2>3 DEF LevelInv
  <2> QED
    BY <1>2, <2>3, <2>4 DEF StepsOn
<1>4. CASE EndBottomUp
  BY <1>4, UpEnds
<1>5. ~(GoBottomUp \/ GoTopDown \/ Return \/ EndTopDown \/ EndToBitmap \/ EndToQueue)
  BY <1>1 DEF GoBottomUp, GoTopDown, Return, EndTopDown, EndToBitmap, EndToQueue
<1> QED
  BY <1>3, <1>4, <1>5, NextSteps

LEMMA ToQueueStep ==
  ASSUME NEW W, NEW k, NEW A, NEW L, NEW B, At(W, k, A, L, B), NEW f, ToQueueInv(A, L, f), BfsNext
  PROVE  StepsOn(W)
<1>1. step = "toQueue" /\ \A t \in Threads : PushThread(thread[t], L)
  BY DEF ToQueueInv
<1>2. k \in 0 .. N /\ A = W[k] /\ L = AtDepth(W, k) /\ B = W[Deeper(k)]
  BY DEF At
<1>3. ASSUME ParentsOK(W)', \E g : ToQueueInv(A, L, g)' PROVE StepsOn(W)
  <2>1. PICK g : ToQueueInv(A, L, g)'
    BY <1>3
  <2>2. LevelInv(W, k, g)'
    BY <1>2, <2>1 DEF LevelInv
  <2> QED
    BY <1>2, <1>3, <2>2 DEF StepsOn
<1>4. ASSUME NEW t \in Threads, ThreadStep(t)
      PROVE  StepsOn(W)
  <2>1. thread[t].at \in {"idle", "joined", "push", "reserve", "copy"}
    BY <1>1 DEF PushThread
  <2>2. \/ \E n \in todo : TakeToQueue(t, n)
        \/ thread[t].at = "push" /\ PushBit(t)
        \/ UNCHANGED searchVars /\ (Reserve(t) \/ CopyOut(t) \/ LastFlush(t))
    BY <1>1, <1>4, <2>1, ThreadMoves
  <2>3. CASE \E n \in todo : TakeToQueue(t, n)
    BY <1>3, <2>3, ToQueueTakes
  <2>4. CASE thread[t].at = "push" /\ PushBit(t)
    BY <1>3, <2>4, ToQueuePushes
  <2>5. CASE UNCHANGED searchVars /\ (Reserve(t) \/ CopyOut(t) \/ LastFlush(t))
    BY <1>3, <2>5, ToQueueFlushes
  <2> QED
    BY <2>2, <2>3, <2>4, <2>5
<1>5. CASE EndToQueue
  <2>1. ParentsOK(W)' /\ LoopInv(A, L, f)'
    BY <1>5, ToQueueEnds
  <2>2. LevelInv(W, k, f)'
    BY <1>2, <2>1 DEF LevelInv
  <2> QED
    BY <1>2, <2>1, <2>2 DEF StepsOn
<1>6. ~(GoBottomUp \/ GoTopDown \/ Return \/ EndTopDown \/ EndToBitmap \/ EndBottomUp)
  BY <1>1 DEF GoBottomUp, GoTopDown, Return, EndTopDown, EndToBitmap, EndBottomUp
<1> QED
  BY <1>4, <1>5, <1>6, NextSteps

\* After the search nothing moves.
LEMMA DoneStep ==
  ASSUME NEW W, DoneInv(W), BfsNext
  PROVE  FALSE
<1>1. step = "done" /\ AllIdle /\ todo = {}
  BY DEF DoneInv
<1>2. ASSUME NEW t \in Threads, ThreadStep(t) PROVE FALSE
  <2>1. thread[t].at = "idle"
    BY <1>1 DEF AllIdle, Idle
  <2> QED
    BY <1>1, <1>2, <2>1, ThreadMoves
<1>3. ~(GoBottomUp \/ GoTopDown \/ Return \/ EndTopDown \/ EndToBitmap \/ EndBottomUp \/ EndToQueue)
  BY <1>1 DEF GoBottomUp, GoTopDown, Return, EndTopDown, EndToBitmap, EndBottomUp, EndToQueue
<1> QED
  BY <1>2, <1>3, NextSteps

\* A search starts with the source in the window, and nothing else visited.
LEMMA BfsStarts == BfsInit => BfsInv
<1> SUFFICES ASSUME BfsInit PROVE BfsInv
  OBVIOUS
<1>1. /\ kernel = "bfs" /\ graph \in Graphs /\ source \in Node /\ step = "loop" /\ todo = {}
      /\ thread = [t \in Threads |-> Idle] /\ buffer = [t \in Threads |-> <<>>]
      /\ queue = Slide(PushBack(EmptyQueue, source)) /\ parent = InitialParent(source) /\ front = {}
  BY DEF BfsInit
<1>2. PICK W : W = Within(source)
  OBVIOUS
<1>3. IsWithin(source, W) /\ W[0] = {source} /\ AtDepth(W, 0) = {source}
  BY <1>1, <1>2, WithinLevels DEF IsWithin, AtDepth
<1>4. N \in Nat /\ N > 0 /\ 0 \in 0 .. N /\ source \in Nat /\ source < N
  BY <1>1, NodeFacts DEF Node
<1>5. /\ parent \in [Node -> Int] /\ parent[source] = source
      /\ \A v \in Node \ {source} : parent[v] < 0
  <2>1. \A v \in Node : graph.out[v] \in Seq(Node)
    BY <1>1, GraphFacts
  <2>2. \A v \in Node : Len(graph.out[v]) \in Nat /\ (graph.out[v] # <<>> => Len(graph.out[v]) > 0)
    BY <2>1
  <2>3. PICK P : P = [v \in Node |-> IF graph.out[v] # <<>> THEN -Len(graph.out[v]) ELSE -1]
    OBVIOUS
  <2>4. \A v \in Node : P[v] \in Int /\ P[v] < 0
    BY <2>2, <2>3
  <2>5. /\ DOMAIN parent = Node /\ parent = [v \in Node |-> parent[v]]
        /\ \A v \in Node : parent[v] = IF v = source THEN source ELSE P[v]
    BY <1>1, <2>3 DEF InitialParent
  <2>6. \A v \in Node : parent[v] \in Int
    BY <1>4, <2>4, <2>5
  <2> QED
    BY <1>1, <2>4, <2>5, <2>6
<1>6. Visited = {source}
  <2>1. \A v \in Node : parent[v] >= 0 <=> v = source
    BY <1>4, <1>5
  <2> QED
    BY <1>1, <2>1, Zenon DEF Visited
<1>7. ParentsOK(W)
  BY <1>5, <1>6 DEF ParentsOK
<1>8. PICK f : f = [i \in 0 .. 0 |-> source]
  OBVIOUS
<1>9. f[0] = source /\ \A i \in 0 .. 0 : i = 0
  BY <1>8
<1>10. /\ queue.in = 1 /\ queue.start = 0 /\ queue.end = 1
       /\ queue.shared = [i \in 0 .. N - 1 |-> IF i = 0 THEN source ELSE N]
  BY <1>1, <1>4 DEF Slide, PushBack, EmptyQueue, Unset
<1>11. QueueType(queue) /\ queue.shared[0] = source
  <2>1. \A i \in 0 .. N - 1 : (IF i = 0 THEN source ELSE N) \in 0 .. N
    BY <1>4
  <2>2. queue.shared \in [0 .. N - 1 -> 0 .. N]
    BY <1>10, <2>1
  <2>3. queue \in [shared : [0 .. N - 1 -> 0 .. N], in : Nat, start : Nat, end : Nat]
    <3>1. PICK q : q = queue.shared
      OBVIOUS
    <3>2. queue = [shared |-> q, in |-> 1, start |-> 0, end |-> 1]
      BY <1>1, <1>10, <3>1 DEF Slide, PushBack, EmptyQueue
    <3> QED
      BY <2>2, <3>1, <3>2
  <2> QED
    BY <1>4, <1>10, <2>3 DEF QueueType
<1>12. QueueOK(f, {})
  <2>1. f \in [0 .. queue.in - 1 -> Node] /\ IsInjective(f)
    BY <1>1, <1>8, <1>9, <1>10 DEF IsInjective
  <2>2. ASSUME NEW t \in Threads
        PROVE  BufferOK(thread[t], buffer[t], queue, f) /\ Loose(thread[t], buffer[t]) = {}
    <3>1. thread[t].at = "idle" /\ buffer[t] = <<>>
      BY <1>1 DEF Idle
    <3>2. <<>> \in Seq(Node) /\ IsInjective(<<>>) /\ Elems(<<>>) = {}
      BY SeqFacts DEF IsInjective
    <3> QED
      BY <3>1, <3>2 DEF BufferOK, Loose, Flushing
  <2>3. \A i \in 0 .. queue.in - 1 : f[i] = queue.shared[i]
    BY <1>9, <1>10, <1>11
  <2>4. Ahead(f) = {}
    BY <1>10 DEF Ahead
  <2>5. DOMAIN buffer = Threads
    BY <1>1
  <2> QED
    BY <1>11, <2>1, <2>2, <2>3, <2>4, <2>5 DEF QueueOK
<1>13. InPlace(f, {source}) /\ Placed(f) \subseteq {source}
  BY <1>9, <1>10 DEF InPlace, Placed
<1>14. LoopInv({source}, {source}, f)
  BY <1>1, <1>6, <1>12, <1>13 DEF LoopInv, AllIdle
<1>15. LevelInv(W, 0, f)
  BY <1>3, <1>14 DEF LevelInv
<1> QED
  BY <1>1, <1>2, <1>4, <1>7, <1>15 DEF BfsInv

\* Every step goes from a moment of the search to a moment of the search.
LEMMA BfsStays == BfsInv /\ [BfsNext]_bfsVars => BfsInv'
<1> SUFFICES ASSUME BfsInv, [BfsNext]_bfsVars PROVE BfsInv'
  OBVIOUS
<1>1. PICK W : W = Within(source)
  OBVIOUS
<1>2. /\ kernel = "bfs" /\ graph \in Graphs /\ source \in Node /\ ParentsOK(W)
      /\ (\E k \in 0 .. N : \E f : LevelInv(W, k, f)) \/ DoneInv(W)
  BY <1>1 DEF BfsInv
<1>3. IsWithin(source, W)
  BY <1>1, <1>2, WithinLevels
<1>4. CASE BfsNext
  <2>1. kernel' = kernel /\ graph' = graph /\ source' = source
    BY <1>4, SameGraph
  <2>2. Within(source)' = W
    BY <1>1, <2>1 DEF Within
  <2>3. StepsOn(W)
    <3>1. ASSUME NEW k \in 0 .. N, NEW f, LevelInv(W, k, f) PROVE StepsOn(W)
      <4>1. PICK A, L, B : A = W[k] /\ L = AtDepth(W, k) /\ B = W[Deeper(k)]
        OBVIOUS
      <4>2. At(W, k, A, L, B)
        BY <1>2, <1>3, <4>1 DEF At
      <4>3. \/ LoopInv(W[k], AtDepth(W, k), f) \/ DownInv(A, L, B, f) \/ ToBitmapInv(A, L, f)
            \/ UpInv(A, L, B, f) \/ ToQueueInv(A, L, f)
        BY <3>1, <4>1 DEF LevelInv
      <4>4. CASE LoopInv(W[k], AtDepth(W, k), f)
        BY <1>2, <1>3, <1>4, <4>4, LoopStep
      <4>5. CASE DownInv(A, L, B, f)
        BY <1>4, <4>2, <4>5, DownStep
      <4>6. CASE ToBitmapInv(A, L, f)
        BY <1>4, <4>2, <4>6, ToBitmapStep
      <4>7. CASE UpInv(A, L, B, f)
        BY <1>4, <4>2, <4>7, UpStep
      <4>8. CASE ToQueueInv(A, L, f)
        BY <1>4, <4>2, <4>8, ToQueueStep
      <4> QED
        BY <4>3, <4>4, <4>5, <4>6, <4>7, <4>8
    <3>2. CASE DoneInv(W)
      BY <1>4, <3>2, DoneStep
    <3> QED
      BY <1>2, <3>1, <3>2
  <2> QED
    BY <1>2, <2>1, <2>2, <2>3 DEF BfsInv, StepsOn
<1>5. CASE UNCHANGED bfsVars
  <2>1. /\ kernel' = kernel /\ graph' = graph /\ source' = source /\ step' = step /\ todo' = todo
        /\ thread' = thread /\ queue' = queue /\ buffer' = buffer /\ parent' = parent
        /\ front' = front /\ curr' = curr
    BY <1>5 DEF bfsVars, teamVars, queueVars
  <2>2. Within(source)' = W
    BY <1>1, <2>1 DEF Within
  <2>3. Visited' = Visited /\ Window(queue)' = Window(queue) /\ ParentsOK(W)'
    BY <1>2, <2>1, SameParents DEF Window
  <2>4. DoneInv(W) => DoneInv(W)'
    BY <2>1, <2>3 DEF DoneInv, AllIdle
  <2>5. ASSUME NEW f, NEW New, QueueOK(f, New)
        PROVE  QueueOK(f, New)'
    BY <2>1, <2>5 DEF QueueOK, Ahead, Placed
  <2>6. \A A, L, f : LoopInv(A, L, f) => LoopInv(A, L, f)'
    BY <2>1, <2>3, <2>5 DEF LoopInv, AllIdle, InPlace, Placed
  <2>7. ASSUME NEW A, NEW L, NEW B, NEW f, DownInv(A, L, B, f)
        PROVE  DownInv(A, L, B, f)'
    <3>1. PICK New : New = Visited \ A
      OBVIOUS
    <3>2. QueueOK(f, New)'
      BY <2>5, <2>7, <3>1 DEF DownInv
    <3>3. QueueOK(f, Visited \ A)'
      BY <2>3, <3>1, <3>2
    <3>4. \A t \in Threads : ExpandThread(thread[t], L)'
      BY <2>1, <2>7 DEF DownInv, ExpandThread, Expansion
    <3>5. \A u \in L : Covered(f, u)'
      BY <2>1, <2>3, <2>7 DEF DownInv, Covered, Covers
    <3> QED
      BY <2>1, <2>3, <2>7, <3>3, <3>4, <3>5 DEF DownInv, InPlace, Old
  <2>8. \A A, L, f : ToBitmapInv(A, L, f) => ToBitmapInv(A, L, f)'
    BY <2>1, <2>3, <2>5 DEF ToBitmapInv, InPlace, Placed
  <2>9. \A A, L, B, f : UpInv(A, L, B, f) => UpInv(A, L, B, f)'
    BY <2>1, <2>3, <2>5 DEF UpInv, Placed, LookThread
  <2>10. ASSUME NEW A, NEW L, NEW f, ToQueueInv(A, L, f)
         PROVE  ToQueueInv(A, L, f)'
    <3>1. PICK New : New = (front \ todo) \ Pushing
      OBVIOUS
    <3>2. QueueOK(f, New)'
      BY <2>5, <2>10, <3>1 DEF ToQueueInv
    <3>3. Pushing' = Pushing
      BY <2>1 DEF Pushing
    <3>4. QueueOK(f, (front \ todo) \ Pushing)'
      BY <2>1, <3>1, <3>2, <3>3
    <3>5. \A t \in Threads : PushThread(thread[t], L)'
      BY <2>1, <2>10 DEF ToQueueInv, PushThread
    <3> QED
      BY <2>1, <2>3, <2>10, <3>4, <3>5 DEF ToQueueInv, Old
  <2>11. \A k, f : LevelInv(W, k, f) => LevelInv(W, k, f)'
    BY <2>6, <2>7, <2>8, <2>9, <2>10 DEF LevelInv, AtDepth
  <2> QED
    BY <1>2, <2>1, <2>2, <2>3, <2>4, <2>11 DEF BfsInv
<1> QED
  BY <1>4, <1>5

LEMMA BfsAlways == BfsSpec => []BfsInv
BY BfsStarts, BfsStays, PTL DEF BfsSpec

-----------------------------------------------------------------------------
\* What the invariant says about one visited vertex.
LEMMA VisitedVertex ==
  ASSUME BfsInv, NEW v \in Visited \ {source}
  PROVE  /\ v \in DOMAIN Depth(source) /\ parent[v] \in DOMAIN Depth(source)
         /\ parent[v] \in Elems(graph.in[v])
         /\ Depth(source)[v] \in 1 .. N
         /\ Depth(source)[parent[v]] + 1 = Depth(source)[v]
<1>1. PICK W : W = Within(source)
  OBVIOUS
<1>2. graph \in Graphs /\ source \in Node /\ ParentsOK(W) /\ IsWithin(source, W)
  BY <1>1, WithinLevels DEF BfsInv
<1>3. PICK j \in 1 .. N : /\ v \in AtDepth(W, j)
                          /\ parent[v] \in AtDepth(W, j - 1)
                          /\ v \in Elems(graph.out[parent[v]])
  BY <1>2 DEF ParentsOK
<1>4. N \in Nat /\ j \in 0 .. N /\ j - 1 \in 0 .. N /\ (j - 1) + 1 = j
  BY NodeFacts
<1>5. v \in DOMAIN Depth(source) /\ Depth(source)[v] = j
  BY <1>1, <1>2, <1>3, <1>4, DepthFacts
<1>6. PICK u, i : u = parent[v] /\ i = j - 1
  OBVIOUS
<1>7. u \in DOMAIN Depth(source) /\ Depth(source)[u] = i
  BY <1>1, <1>2, <1>3, <1>4, <1>6, DepthFacts
<1>8. v \in Node /\ u \in Node
  <2>1. W[i] \in SUBSET Node /\ u \in W[i]
    BY <1>2, <1>3, <1>4, <1>6 DEF IsWithin, AtDepth
  <2> QED
    BY <2>1 DEF Visited
<1>9. u \in Elems(graph.in[v])
  BY <1>2, <1>3, <1>6, <1>8, GraphFacts
<1> QED
  BY <1>3, <1>4, <1>5, <1>6, <1>7, <1>9

(* Whatever the schedule, the graph and the direction of each level: every *)
(* parent is one level up, at every moment of the search.                  *)
THEOREM ParentsCorrect == BfsSpec => []ParentsOneLevelUp
<1>1. BfsInv => ParentsOneLevelUp
  BY VisitedVertex DEF ParentsOneLevelUp
<1> QED
  BY <1>1, BfsAlways, PTL

(* Whatever the schedule, the graph and the direction of each level:       *)
(* between two levels the window holds exactly one level, each vertex      *)
(* once, and the queue has not outgrown its places.                        *)
THEOREM FrontierCorrect == BfsSpec => []FrontierIsALevel
<1>1. ASSUME BfsInv PROVE FrontierIsALevel
  <2> SUFFICES ASSUME step = "loop" PROVE FrontierIsALevel
    BY DEF FrontierIsALevel
  <2>1. PICK W : W = Within(source)
    OBVIOUS
  <2>2. /\ graph \in Graphs /\ source \in Node /\ IsWithin(source, W)
        /\ (\E k \in 0 .. N : \E f : LevelInv(W, k, f)) \/ DoneInv(W)
    BY <1>1, <2>1, WithinLevels DEF BfsInv
  <2>3. PICK k \in 0 .. N : \E f : LoopInv(W[k], AtDepth(W, k), f)
    BY <2>2 DEF LevelInv, DownInv, ToBitmapInv, UpInv, ToQueueInv, DoneInv
  <2>4. PICK L, f : L = AtDepth(W, k) /\ LoopInv(W[k], L, f)
    BY <2>3
  <2>5. QueueOK(f, {}) /\ InPlace(f, L) /\ Visited = W[k] /\ QueueType(queue) /\ IsInjective(f)
    BY <2>4 DEF LoopInv, QueueOK
  <2>6. queue.in <= N
    BY <2>5, QueueFits
  <2>7. PICK a, b : a = queue.start /\ b = queue.end
    OBVIOUS
  <2>8. a \in Nat /\ b \in Nat /\ a <= b /\ Window(queue) = a .. b - 1
    BY <2>5, <2>7 DEF QueueType, Window
  <2>9. \A i \in a .. b - 1 : i \in 0 .. queue.in - 1 /\ queue.shared[i] = f[i]
    <3>1. \A i \in a .. b - 1 : i \in 0 .. queue.end - 1
      BY <2>7, <2>8
    <3> QED
      BY <2>5, <3>1, SharedReads
  <2>10. InWindow(queue) = {f[i] : i \in a .. b - 1} /\ InWindow(queue) = L
    BY <2>5, <2>7, <2>8, <2>9 DEF InWindow, InPlace
  <2>11. Cardinality(L) = b - a
    <3> DEFINE S == a .. b - 1
    <3>1. IsFiniteSet(S) /\ Cardinality(S) = b - a
      <4>1. PICK c : c = b - 1
        OBVIOUS
      <4>2. c \in Int /\ a \in Int /\ (IF a > c THEN 0 ELSE c - a + 1) = b - a
        BY <2>8, <4>1
      <4> QED
        BY <4>1, <4>2, FS_Interval
    <3>2. PICK g : g = [i \in S |-> f[i]]
      OBVIOUS
    <3>3. DOMAIN f = 0 .. queue.in - 1
      BY <2>5 DEF QueueOK
    <3>4. \A i, j \in S : f[i] = f[j] => i = j
      BY <2>5, <2>9, <3>3 DEF IsInjective
    <3>5. L = {f[i] : i \in S}
      BY <2>10
    <3> HIDE DEF S
    <3>6. g \in [S -> L] /\ (\A i, j \in S : g[i] = g[j] => i = j) /\ \A u \in L : \E i \in S : g[i] = u
      BY <3>2, <3>4, <3>5
    <3>7. g \in Bijection(S, L)
      BY <3>6 DEF Bijection, Injection, Surjection, IsInjective
    <3>8. Cardinality(L) = Cardinality(S)
      BY <3>1, <3>7, FS_Bijection DEF ExistsBijection
    <3> QED
      BY <3>1, <3>8
  <2>12. L = IF k = 0 THEN {source} ELSE W[k] \ W[k - 1]
    BY <2>2, <2>4 DEF AtDepth, IsWithin
  <2> QED
    BY <2>1, <2>5, <2>6, <2>7, <2>10, <2>11, <2>12 DEF FrontierIsALevel
<1> QED
  BY <1>1, BfsAlways, PTL

(* Whatever the schedule, the graph and the direction of each level: the   *)
(* parents the search returns with pass BFSVerifier.                       *)
THEOREM SearchVerifies == BfsSpec => []BfsReachesAll
<1>1. ASSUME BfsInv PROVE BfsReachesAll
  <2> SUFFICES ASSUME step = "done" PROVE BFSVerifier
    BY DEF BfsReachesAll
  <2>1. PICK W : W = Within(source)
    OBVIOUS
  <2>2. /\ graph \in Graphs /\ source \in Node /\ IsWithin(source, W) /\ ParentsOK(W)
        /\ (\E k \in 0 .. N : \E f : LevelInv(W, k, f)) \/ DoneInv(W)
    BY <1>1, <2>1, WithinLevels DEF BfsInv
  <2>3. Visited = W[N] /\ \A v \in Node \ Visited : parent[v] = -1
    BY <2>2 DEF LevelInv, LoopInv, DownInv, ToBitmapInv, UpInv, ToQueueInv, DoneInv
  <2>4. PICK depth : depth = Depth(source)
    OBVIOUS
  <2>5. DOMAIN depth = Visited
    BY <2>1, <2>3, <2>4 DEF Depth
  <2>6. source \in Visited /\ parent[source] = source /\ depth[source] = 0
    <3>1. 0 \in 0 .. N /\ source \in AtDepth(W, 0)
      BY <2>2, NodeFacts DEF AtDepth, IsWithin
    <3>2. source \in DOMAIN Depth(source) /\ Depth(source)[source] = 0
      BY <2>1, <2>2, <3>1, DepthFacts
    <3> QED
      BY <2>2, <2>4, <2>5, <3>2 DEF ParentsOK
  <2>7. \A v \in Visited \ {source} :
          /\ parent[v] \in Visited /\ parent[v] \in Elems(graph.in[v])
          /\ depth[v] \in 1 .. N /\ depth[parent[v]] + 1 = depth[v]
    BY <1>1, <2>4, <2>5, VisitedVertex
  <2>8. \A v \in Visited : v \in Node /\ parent[v] \in Node
    BY <2>2, <2>6, <2>7 DEF Visited
  <2> DEFINE DepthOf(v) == IF v \in DOMAIN depth THEN depth[v] ELSE -1
  <2>9. \A x \in Node : x # -1
    BY NodeFacts
  <2>10. ASSUME NEW u \in Node
         PROVE  IF DepthOf(u) # -1 /\ parent[u] # -1
                THEN IF u = source THEN parent[u] = u /\ depth[u] = 0
                     ELSE parent[u] \in Elems(graph.in[u]) /\ DepthOf(parent[u]) = depth[u] - 1
                ELSE DepthOf(u) = parent[u]
    <3>1. CASE u \notin Visited
      BY <2>3, <2>5, <3>1
    <3>2. CASE u = source
      BY <2>2, <2>5, <2>6, <2>9, <3>2
    <3>3. CASE u \in Visited \ {source}
      <4>1. PICK v : v = parent[u]
        OBVIOUS
      <4>2. v \in Visited /\ v # -1 /\ v \in Elems(graph.in[u])
        BY <2>7, <2>8, <2>9, <3>3, <4>1
      <4>3. DepthOf(u) = depth[u] /\ DepthOf(v) = depth[v]
        BY <2>5, <3>3, <4>2
      <4>4. depth[u] \in 1 .. N /\ depth[v] + 1 = depth[u]
        BY <2>7, <3>3, <4>1
      <4>5. depth[v] \in Nat
        <5>1. CASE v = source
          BY <2>6, <5>1
        <5>2. CASE v # source
          BY <2>7, <4>2, <5>2, NodeFacts
        <5> QED
          BY <5>1, <5>2
      <4>6. depth[u] # -1 /\ depth[v] = depth[u] - 1
        BY <4>4, <4>5, NodeFacts
      <4> HIDE DEF DepthOf
      <4> QED
        BY <3>3, <4>1, <4>2, <4>3, <4>6
    <3> QED
      BY <3>1, <3>2, <3>3
  <2> QED
    BY <2>4, <2>10 DEF BFSVerifier
<1> QED
  BY <1>1, BfsAlways, PTL

-----------------------------------------------------------------------------
(* Betweenness centrality.                                                 *)
(* Edge i of u is its i-th outgoing one; it goes down if it leads one      *)
(* level on.                                                               *)
GoesDown(W, u, i) ==
  \E j \in 0 .. N - 1 : u \in AtDepth(W, j) /\ graph.out[u][i] \in AtDepth(W, j + 1)

(* C has the numbers of shortest paths.                                    *)
Parents(W, v, j) == {u \in AtDepth(W, j) : v \in Elems(graph.out[u])}

IsPaths(s, W, C) ==
  /\ C \in [W[N] -> Nat \ {0}] /\ C[s] = 1
  /\ \A j \in 0 .. N - 1 : \A v \in AtDepth(W, j + 1) : C[v] = SumFunctionOnSet(C, Parents(W, v, j))

(* The counts of the vertices within k steps, from those within k - 1.     *)
NextCounts(s, k, C) ==
  [v \in {x \in DOMAIN Depth(s) : Depth(s)[x] <= k} |->
     IF v = s THEN 1
     ELSE IF Depth(s)[v] < k THEN C[v]
     ELSE SumFunctionOnSet(C, {u \in DOMAIN Depth(s) : Depth(s)[u] + 1 = Depth(s)[v] /\ Edge(graph, u, v)})]

-----------------------------------------------------------------------------
(* Edges, depths and path counts                                           *)

\* EdgesBefore adds up the degrees.
LEMMA EdgesBeforeFacts ==
  ASSUME graph \in Graphs
  PROVE  /\ EdgesBefore \in [0 .. N -> Nat]
         /\ \A n \in 1 .. N : EdgesBefore[n] = EdgesBefore[n - 1] + Len(graph.out[n - 1])
<1> DEFINE G == [k \in 1 .. N |-> [y \in Nat |-> y + Len(graph.out[k - 1])]]
           D == [k \in 0 .. N |-> Nat]
<1>0. N \in Nat /\ N > 0
  BY NodeFacts
<1>1. \A k \in 1 .. N : Len(graph.out[k - 1]) \in Nat
  <2>1. \A k \in 1 .. N : k - 1 \in Node
    BY <1>0 DEF Node
  <2> QED
    BY <2>1, GraphFacts
<1>2. \A k \in 1 .. N : \A y \in D[k - 1] : G[k][y] \in D[k]
  BY <1>0, <1>1
<1>3. 0 \in D[0]
  BY <1>0
<1>4. \E F : Follows(F, N, 0, G) /\ \A k \in 0 .. N : F[k] \in D[k]
  <2> HIDE DEF G, D
  <2> QED
    BY <1>0, <1>2, <1>3, Recursion
<1> DEFINE Solves(F) == F = [n \in 0 .. N |-> IF n = 0 THEN 0 ELSE F[n - 1] + Len(graph.out[n - 1])]
<1>5. \E F : Solves(F)
  <2>1. PICK F : Follows(F, N, 0, G) /\ \A k \in 0 .. N : F[k] \in D[k]
    BY <1>4
  <2>2. \A k \in 0 .. N : F[k] \in Nat
    BY <2>1
  <2>3. \A k \in 0 .. N : k # 0 => k - 1 \in 0 .. N /\ k \in 1 .. N
    BY <1>0
  <2>4. \A k \in 0 .. N : k # 0 => G[k][F[k - 1]] = F[k - 1] + Len(graph.out[k - 1])
    BY <2>2, <2>3
  <2>5. F = [k \in 0 .. N |-> IF k = 0 THEN 0 ELSE G[k][F[k - 1]]]
    BY <2>1 DEF Follows
  <2>6. Solves(F)
    <3> HIDE DEF G
    <3> QED
      BY <2>4, <2>5
  <2> QED
    BY <2>6
<1>6. PICK S : S = EdgesBefore
  OBVIOUS
<1>7. Solves(S)
  <2>1. S = CHOOSE F : Solves(F)
    BY <1>6 DEF EdgesBefore
  <2> QED
    BY <1>5, <2>1
<1>8. \A n \in 1 .. N : S[n] = S[n - 1] + Len(graph.out[n - 1])
  <2>1. \A n \in 1 .. N : n \in 0 .. N /\ n # 0
    OBVIOUS
  <2> QED
    BY <1>7, <2>1
<1>9. S[0] = 0 /\ DOMAIN S = 0 .. N /\ S = [n \in 0 .. N |-> S[n]]
  BY <1>0, <1>7
<1>10. \A n \in 0 .. N : S[n] \in Nat
  <2> DEFINE P == {n \in Nat : S[n] \in Nat}
  <2>1. 0 \in P
    BY <1>9
  <2>2. \A n \in 1 .. N : n - 1 \in P => n \in P
    <3> HIDE DEF Solves
    <3> QED
      BY <1>1, <1>8
  <2> HIDE DEF P
  <2>3. \A n \in 0 .. N : n \in P
    BY <1>0, <2>1, <2>2, UpTo
  <2> QED
    BY <2>3 DEF P
<1> QED
  BY <1>6, <1>8, <1>9, <1>10

\* Every edge has a number of its own.
LEMMA EdgeNumbersDiffer ==
  ASSUME graph \in Graphs
  PROVE  /\ \A u \in Node : \A i \in DOMAIN graph.out[u] : EdgeNumber(u, i) \in Nat
         /\ \A u, v \in Node : \A i \in DOMAIN graph.out[u], j \in DOMAIN graph.out[v] :
              EdgeNumber(u, i) = EdgeNumber(v, j) => u = v /\ i = j
<1>0. N \in Nat /\ Node = 0 .. N - 1 /\ \A u \in Node : graph.out[u] \in Seq(Node)
  BY NodeFacts, GraphFacts DEF Node
<1>1. PICK S : S = EdgesBefore
  OBVIOUS
<1>2. /\ S \in [0 .. N -> Nat]
      /\ \A n \in 1 .. N : S[n] = S[n - 1] + Len(graph.out[n - 1])
  BY <1>1, EdgesBeforeFacts
<1>3. \A u \in Node : /\ u + 1 \in 1 .. N /\ (u + 1) - 1 = u /\ u \in 0 .. N
                      /\ Len(graph.out[u]) \in Nat /\ DOMAIN graph.out[u] = 1 .. Len(graph.out[u])
  BY <1>0
<1>4. \A u \in Node : S[u] \in Nat /\ S[u + 1] = S[u] + Len(graph.out[u])
  BY <1>2, <1>3
<1>5. \A u, v \in Node : u < v => S[u + 1] <= S[v]
  <2> SUFFICES ASSUME NEW u \in Node PROVE \A v \in Node : u < v => S[u + 1] <= S[v]
    OBVIOUS
  <2> DEFINE P == {m \in Nat : m < N /\ u < m => S[u + 1] <= S[m]}
  <2>1. 0 \in P
    BY <1>0
  <2>2. \A m \in 1 .. N : m - 1 \in P => m \in P
    <3> SUFFICES ASSUME NEW m \in 1 .. N, m - 1 \in P, m < N, u < m PROVE S[u + 1] <= S[m]
      OBVIOUS
    <3>1. CASE m = u + 1
      <4>1. S[m] \in Nat
        BY <1>2
      <4> QED
        BY <3>1, <4>1
    <3>2. CASE m # u + 1
      <4>1. m - 1 \in Node /\ u < m - 1 /\ m - 1 < N /\ (m - 1) + 1 = m
        BY <1>0, <3>2
      <4>2. S[u + 1] <= S[m - 1]
        BY <1>0, <4>1
      <4>3. S[u + 1] \in Nat /\ S[m - 1] \in Nat /\ S[m] = S[m - 1] + Len(graph.out[m - 1])
        BY <1>2, <1>3, <1>4, <4>1
      <4> QED
        BY <1>3, <4>1, <4>2, <4>3
    <3> QED
      BY <3>1, <3>2
  <2> HIDE DEF P
  <2>3. \A m \in 0 .. N : m \in P
    BY <1>0, <2>1, <2>2, UpTo
  <2> QED
    BY <1>0, <2>3 DEF P
<1>6. \A u, v \in Node : \A i \in DOMAIN graph.out[u], j \in DOMAIN graph.out[v] :
        u < v => S[u] + i - 1 < S[v] + j - 1
  <2> SUFFICES ASSUME NEW u \in Node, NEW v \in Node, NEW i \in DOMAIN graph.out[u],
                      NEW j \in DOMAIN graph.out[v], u < v
               PROVE  S[u] + i - 1 < S[v] + j - 1
    OBVIOUS
  <2>0. i \in 1 .. Len(graph.out[u]) /\ j \in 1 .. Len(graph.out[v])
    BY <1>3
  <2>4. S[u] + Len(graph.out[u]) <= S[v]
    BY <1>4, <1>5
  <2>1. i \in Nat /\ j \in Nat /\ i <= Len(graph.out[u]) /\ j >= 1 /\ S[u] + Len(graph.out[u]) <= S[v]
    BY <1>3, <2>0, <2>4
  <2>2. Len(graph.out[u]) \in Nat
    BY <1>3
  <2>3. S[u] \in Nat /\ S[v] \in Nat
    BY <1>4
  <2> QED
    BY <2>1, <2>2, <2>3
<1>7. \A u \in Node : \A i \in DOMAIN graph.out[u] : S[u] + i - 1 \in Nat
  BY <1>3, <1>4
<1>8. \A u, v \in Node : \A i \in DOMAIN graph.out[u], j \in DOMAIN graph.out[v] :
        S[u] + i - 1 = S[v] + j - 1 => u = v /\ i = j
  <2> SUFFICES ASSUME NEW u \in Node, NEW v \in Node, NEW i \in DOMAIN graph.out[u],
                      NEW j \in DOMAIN graph.out[v], S[u] + i - 1 = S[v] + j - 1
               PROVE  u = v /\ i = j
    OBVIOUS
  <2>0. i \in 1 .. Len(graph.out[u]) /\ j \in 1 .. Len(graph.out[v])
    BY <1>3
  <2>4. S[u] \in Nat /\ S[v] \in Nat /\ u \in Nat /\ v \in Nat
    BY <1>4, NodeFacts
  <2>1. i \in Nat /\ j \in Nat /\ S[u] \in Nat /\ S[v] \in Nat /\ u \in Nat /\ v \in Nat
    BY <2>0, <2>4
  <2>2. ~(u < v) /\ ~(v < u)
    BY <1>6, <2>1
  <2>3. u = v
    BY <2>1, <2>2
  <2> QED
    BY <2>1, <2>3
<1> QED
  BY <1>1, <1>7, <1>8 DEF EdgeNumber

\* The depths of the vertices: Depth and the levels agree.
LEMMA DepthLevels ==
  ASSUME graph \in Graphs, NEW s \in Node, NEW W, W = Within(s)
  PROVE  /\ DOMAIN Depth(s) = W[N]
         /\ \A v \in W[N] : Depth(s)[v] \in 0 .. N - 1 /\ v \in AtDepth(W, Depth(s)[v])
         /\ \A k \in 0 .. N : W[k] = {v \in W[N] : Depth(s)[v] <= k}
         /\ \A k \in 0 .. N : AtDepth(W, k) = {v \in W[N] : Depth(s)[v] = k}
         /\ \A k \in 0 .. N : AtDepth(W, k) \subseteq W[k] /\ W[k] \subseteq W[N]
         /\ AtDepth(W, N) = {}
<1>0. IsWithin(s, W) /\ N \in Nat /\ N > 0 /\ N \in 0 .. N /\ 0 \in 0 .. N
  BY WithinLevels, NodeFacts
<1>1. DOMAIN Depth(s) = W[N]
  BY DEF Depth
<1>2. \A k \in 0 .. N : AtDepth(W, k) \subseteq W[k] /\ W[k] \subseteq W[N]
  <2>1. \A k \in 0 .. N : W[k] \subseteq W[N]
    BY <1>0, WithinGrows
  <2> QED
    BY <2>1 DEF AtDepth
<1>3. ASSUME NEW k \in 0 .. N, NEW v \in W[k]
      PROVE  \E j \in 0 .. k : v \in AtDepth(W, j)
  <2> DEFINE S == {j \in 0 .. k : v \in W[j]}
  <2>1. S \in SUBSET Nat /\ S # {}
    OBVIOUS
  <2> HIDE DEF S
  <2>2. PICK j \in S : \A e \in S : j <= e
    BY <2>1, LeastNumber
  <2>3. j \in 0 .. k /\ v \in W[j] /\ (j # 0 => v \notin W[j - 1])
    BY <2>2 DEF S
  <2> QED
    BY <2>3 DEF AtDepth
<1>4. AtDepth(W, N) = {}
  BY <1>0, WithinEnds DEF AtDepth
<1>5. \A j \in 0 .. N : \A v \in AtDepth(W, j) : Depth(s)[v] = j
  BY DepthFacts
<1>6. \A v \in W[N] : Depth(s)[v] \in 0 .. N - 1 /\ v \in AtDepth(W, Depth(s)[v])
  <2> SUFFICES ASSUME NEW v \in W[N]
               PROVE  Depth(s)[v] \in 0 .. N - 1 /\ v \in AtDepth(W, Depth(s)[v])
    OBVIOUS
  <2>1. PICK j \in 0 .. N : v \in AtDepth(W, j)
    BY <1>0, <1>3
  <2>2. j # N
    BY <1>4, <2>1
  <2> QED
    BY <1>0, <1>5, <2>1, <2>2
<1>7. ASSUME NEW k \in 0 .. N PROVE W[k] = {v \in W[N] : Depth(s)[v] <= k}
  <2>1. \A v \in W[k] : v \in W[N] /\ Depth(s)[v] <= k
    <3> SUFFICES ASSUME NEW v \in W[k] PROVE v \in W[N] /\ Depth(s)[v] <= k
      OBVIOUS
    <3>1. PICK j \in 0 .. k : v \in AtDepth(W, j)
      BY <1>3
    <3>2. j \in 0 .. N
      BY <1>0
    <3> QED
      BY <1>2, <1>5, <3>1, <3>2
  <2>2. \A v \in W[N] : Depth(s)[v] <= k => v \in W[k]
    <3> SUFFICES ASSUME NEW v \in W[N], Depth(s)[v] <= k PROVE v \in W[k]
      OBVIOUS
    <3>1. PICK j \in 0 .. N : j = Depth(s)[v]
      BY <1>0, <1>6
    <3>2. W[j] \subseteq W[k]
      BY <1>0, <3>1, WithinGrows
    <3> QED
      BY <1>2, <1>6, <3>1, <3>2
  <2> QED
    BY <2>1, <2>2
<1>8. ASSUME NEW k \in 0 .. N PROVE AtDepth(W, k) = {v \in W[N] : Depth(s)[v] = k}
  BY <1>2, <1>5, <1>6
<1> QED
  BY <1>1, <1>2, <1>4, <1>6, <1>7, <1>8

\* What the vertices within k - 1 steps count gives the counts of those
\* within k: a vertex of level k has a parent.
LEMMA NextCountsFacts ==
  ASSUME graph \in Graphs, NEW s \in Node, NEW W, W = Within(s), NEW k \in 1 .. N,
         NEW C \in [W[k - 1] -> Nat \ {0}]
  PROVE  /\ NextCounts(s, k, C) \in [W[k] -> Nat \ {0}]
         /\ NextCounts(s, k, C)[s] = 1
         /\ \A v \in W[k - 1] \ {s} : NextCounts(s, k, C)[v] = C[v]
         /\ \A v \in AtDepth(W, k) : NextCounts(s, k, C)[v] = SumFunctionOnSet(C, Parents(W, v, k - 1))
<1>0. /\ IsWithin(s, W) /\ N \in Nat /\ N > 0 /\ k \in 0 .. N /\ k - 1 \in 0 .. N /\ k \in Nat
      /\ 0 \in 0 .. N
  BY WithinLevels, NodeFacts
<1>1. PICK depth : depth = Depth(s)
  OBVIOUS
<1>2. /\ DOMAIN depth = W[N] /\ \A v \in W[N] : depth[v] \in Nat
      /\ \A j \in 0 .. N : W[j] = {v \in W[N] : depth[v] <= j}
      /\ \A j \in 0 .. N : AtDepth(W, j) = {v \in W[N] : depth[v] = j}
  <2>1. /\ DOMAIN depth = W[N] /\ \A v \in W[N] : depth[v] \in 0 .. N - 1
        /\ \A j \in 0 .. N : W[j] = {v \in W[N] : depth[v] <= j}
        /\ \A j \in 0 .. N : AtDepth(W, j) = {v \in W[N] : depth[v] = j}
    BY <1>1, DepthLevels
  <2>2. 0 .. N - 1 \subseteq Nat
    BY <1>0
  <2> QED
    BY <2>1, <2>2
<1>3. PICK P : P = NextCounts(s, k, C)
  OBVIOUS
<1>4. P = [v \in W[k] |-> IF v = s THEN 1 ELSE IF depth[v] < k THEN C[v]
           ELSE SumFunctionOnSet(C, {u \in W[N] : depth[u] + 1 = depth[v] /\ Edge(graph, u, v)})]
  <2>1. {x \in DOMAIN Depth(s) : Depth(s)[x] <= k} = W[k]
    BY <1>0, <1>1, <1>2
  <2>2. W[N] = DOMAIN Depth(s)
    BY <1>1, <1>2
  <2> QED
    BY <1>1, <1>3, <2>1, <2>2 DEF NextCounts
<1>5. s \in W[k - 1] /\ W[k - 1] \subseteq W[k] /\ AtDepth(W, k) = W[k] \ W[k - 1] /\ W[k] \subseteq W[N]
  <2>1. s \in W[0] /\ W[0] \subseteq W[k - 1]
    <3>1. s \in W[0]
      BY <1>0 DEF IsWithin
    <3>2. 0 <= k - 1
      BY <1>0
    <3> QED
      BY <1>0, <3>1, <3>2, WithinGrows
  <2> QED
    BY <1>0, <2>1, WithinGrows DEF AtDepth
<1>6. \A v \in W[k - 1] : depth[v] < k
  <2>1. \A v \in W[k - 1] : depth[v] <= k - 1 /\ depth[v] \in Nat
    BY <1>0, <1>2
  <2> QED
    BY <1>0, <2>1
<1>7. \A v \in W[k - 1] \ {s} : P[v] = C[v]
  BY <1>4, <1>5, <1>6
<1>8. P[s] = 1
  BY <1>4, <1>5
<1>9. ASSUME NEW v \in AtDepth(W, k)
      PROVE  /\ P[v] = SumFunctionOnSet(C, Parents(W, v, k - 1))
             /\ P[v] \in Nat \ {0}
  <2>1. v \in W[k] /\ v # s /\ depth[v] = k /\ v \in W[N]
    BY <1>0, <1>2, <1>5, <1>9
  <2>2. {u \in W[N] : depth[u] + 1 = depth[v] /\ Edge(graph, u, v)} = Parents(W, v, k - 1)
    <3>1. \A u \in W[N] : depth[u] + 1 = depth[v] <=> depth[u] = k - 1
      BY <1>0, <1>2, <2>1
    <3>2. AtDepth(W, k - 1) = {u \in W[N] : depth[u] = k - 1}
      BY <1>0, <1>2
    <3> QED
      BY <3>1, <3>2 DEF Parents, Edge
  <2>3. P[v] = SumFunctionOnSet(C, Parents(W, v, k - 1))
    BY <1>0, <1>4, <2>1, <2>2
  <2>4. PICK S : S = Parents(W, v, k - 1)
    OBVIOUS
  <2>5. S \subseteq W[k - 1] /\ S \subseteq Node /\ IsFiniteSet(S)
    <3>1. S \subseteq AtDepth(W, k - 1)
      BY <2>4 DEF Parents
    <3>2. AtDepth(W, k - 1) \subseteq W[k - 1] /\ W[k - 1] \subseteq Node
      BY <1>0 DEF AtDepth, IsWithin
    <3>3. S \subseteq W[k - 1] /\ S \subseteq Node
      BY <3>1, <3>2
    <3> QED
      BY <3>3, NodeFacts, FS_Subset
  <2>6. PICK u : u \in S
    <3>1. v \in W[k - 1] \cup Succ(W[k - 1]) /\ v \notin W[k - 1]
      BY <1>0, <1>5, <1>9 DEF IsWithin
    <3>2. PICK u \in W[k - 1] : v \in Elems(graph.out[u])
      BY <3>1 DEF Succ
    <3>3. u \in AtDepth(W, k - 1)
      <4>1. Ring(s, W[k - 1], AtDepth(W, k - 1), W[Deeper(k - 1)])
        BY <1>0, RingFacts
      <4> QED
        BY <3>1, <3>2, <4>1 DEF Ring
    <3> QED
      BY <2>4, <3>2, <3>3 DEF Parents
  <2>7. \A x \in S : C[x] \in Nat /\ C[x] # 0
    BY <2>5
  <2>8. SumFunctionOnSet(C, S) \in Nat /\ C[u] <= SumFunctionOnSet(C, S)
    BY <2>5, <2>6, <2>7, SumNat
  <2>9. SumFunctionOnSet(C, S) \in Nat \ {0}
    <3>1. PICK total : total = SumFunctionOnSet(C, S)
      OBVIOUS
    <3>2. total \in Nat /\ C[u] <= total /\ C[u] \in Nat /\ C[u] # 0
      BY <2>6, <2>7, <2>8, <3>1
    <3>3. total # 0
      BY <3>2
    <3> QED
      BY <3>1, <3>2, <3>3
  <2> QED
    BY <2>3, <2>4, <2>9
<1>10. \A v \in W[k] : P[v] \in Nat \ {0}
  BY <1>5, <1>7, <1>8, <1>9
<1>11. P \in [W[k] -> Nat \ {0}]
  BY <1>4, <1>10
<1> QED
  BY <1>3, <1>7, <1>8, <1>9, <1>11

\* ShortestPaths counts the paths level by level.
LEMMA PathsFacts ==
  ASSUME graph \in Graphs, NEW s \in Node, NEW W, W = Within(s)
  PROVE  IsPaths(s, W, ShortestPaths(s))
<1>0. /\ IsWithin(s, W) /\ N \in Nat /\ N > 0 /\ 0 \in 0 .. N /\ N \in 0 .. N /\ W[0] = {s}
  BY WithinLevels, NodeFacts DEF IsWithin
<1> DEFINE D == [k \in 0 .. N |-> [W[k] -> Nat \ {0}]]
           first == [v \in {s} |-> 1]
           G == [k \in 1 .. N |-> [C \in D[k - 1] |-> NextCounts(s, k, C)]]
           Solves(F) == F = [k \in 0 .. N |-> NextCounts(s, k, F[k - 1])]
<1>1. first \in D[0]
  BY <1>0
<1>2. \A k \in 1 .. N : \A C \in D[k - 1] : NextCounts(s, k, C) \in D[k] /\ G[k][C] = NextCounts(s, k, C)
  <2> SUFFICES ASSUME NEW k \in 1 .. N, NEW C \in D[k - 1]
               PROVE  NextCounts(s, k, C) \in D[k] /\ G[k][C] = NextCounts(s, k, C)
    OBVIOUS
  <2>1. k \in 0 .. N /\ k - 1 \in 0 .. N
    BY <1>0
  <2>2. C \in [W[k - 1] -> Nat \ {0}]
    BY <2>1
  <2>3. NextCounts(s, k, C) \in [W[k] -> Nat \ {0}]
    BY <2>2, NextCountsFacts
  <2> QED
    BY <2>1, <2>3
<1>3. \E F : Follows(F, N, first, G) /\ \A k \in 0 .. N : F[k] \in D[k]
  <2>1. \A k \in 1 .. N : \A C \in D[k - 1] : G[k][C] \in D[k]
    BY <1>2
  <2> HIDE DEF G, D, first
  <2> QED
    BY <1>0, <1>1, <2>1, Recursion
<1>4. \A C : NextCounts(s, 0, C) = first
  <2> SUFFICES ASSUME NEW C PROVE NextCounts(s, 0, C) = first
    OBVIOUS
  <2>1. {x \in DOMAIN Depth(s) : Depth(s)[x] <= 0} = {s}
    <3>1. DOMAIN Depth(s) = W[N] /\ W[0] = {x \in W[N] : Depth(s)[x] <= 0}
      BY <1>0, DepthLevels
    <3> QED
      BY <1>0, <3>1
  <2> QED
    BY <2>1 DEF NextCounts
<1>5. \E F : Solves(F)
  <2> HIDE DEF D, first
  <2>1. PICK F : Follows(F, N, first, G) /\ \A k \in 0 .. N : F[k] \in D[k]
    BY <1>3
  <2> HIDE DEF G
  <2>2. F = [k \in 0 .. N |-> IF k = 0 THEN first ELSE G[k][F[k - 1]]]
    BY <2>1 DEF Follows
  <2>3. \A k \in 0 .. N : k # 0 => k - 1 \in 0 .. N /\ k \in 1 .. N
    BY <1>0
  <2>4. \A k \in 0 .. N : (IF k = 0 THEN first ELSE G[k][F[k - 1]]) = NextCounts(s, k, F[k - 1])
    BY <1>2, <1>4, <2>1, <2>3
  <2>5. Solves(F)
    BY <2>2, <2>4
  <2> QED
    BY <2>5
<1>6. PICK F : F = CHOOSE H : Solves(H)
  OBVIOUS
<1>7. ShortestPaths(s) = F[N]
  BY <1>6 DEF ShortestPaths, NextCounts
<1>8. Solves(F)
  BY <1>5, <1>6
<1>9. \A k \in 0 .. N : F[k] = NextCounts(s, k, F[k - 1])
  BY <1>8
<1> HIDE DEF Solves
<1>10. \A k \in 0 .. N : F[k] \in [W[k] -> Nat \ {0}]
  <2> DEFINE P == {k \in 0 .. N : F[k] \in D[k]}
  <2>1. 0 \in P
    <3>1. F[0] = first
      BY <1>0, <1>4, <1>9
    <3> QED
      BY <1>0, <1>1, <3>1
  <2>2. ASSUME NEW k \in 1 .. N, k - 1 \in P PROVE k \in P
    <3>1. F[k] = NextCounts(s, k, F[k - 1]) /\ F[k - 1] \in D[k - 1] /\ k \in 0 .. N
      BY <1>0, <1>9, <2>2
    <3>2. NextCounts(s, k, F[k - 1]) \in D[k]
      <4> HIDE DEF D
      <4> QED
        BY <1>2, <3>1
    <3> QED
      BY <3>1, <3>2
  <2> HIDE DEF P
  <2>3. \A k \in 0 .. N : k \in P
    BY <1>0, <2>1, <2>2, UpTo
  <2> QED
    BY <2>3 DEF P
<1>11. \A k \in 1 .. N : /\ F[k][s] = 1
                         /\ \A v \in W[k - 1] \ {s} : F[k][v] = F[k - 1][v]
                         /\ \A v \in AtDepth(W, k) :
                              F[k][v] = SumFunctionOnSet(F[k - 1], Parents(W, v, k - 1))
  <2> SUFFICES ASSUME NEW k \in 1 .. N
               PROVE  /\ F[k][s] = 1
                      /\ \A v \in W[k - 1] \ {s} : F[k][v] = F[k - 1][v]
                      /\ \A v \in AtDepth(W, k) :
                           F[k][v] = SumFunctionOnSet(F[k - 1], Parents(W, v, k - 1))
    OBVIOUS
  <2>1. PICK C : C = F[k - 1]
    OBVIOUS
  <2>2. C \in [W[k - 1] -> Nat \ {0}] /\ F[k] = NextCounts(s, k, C)
    BY <1>0, <1>9, <1>10, <2>1
  <2> QED
    BY <2>1, <2>2, NextCountsFacts
<1>12. F[0][s] = 1
  <2>1. F[0] = first
    BY <1>0, <1>4, <1>9
  <2> QED
    BY <2>1
<1>13. ASSUME NEW j \in 0 .. N, NEW v \in W[j]
       PROVE  \A k \in 0 .. N : j <= k => F[k][v] = F[j][v]
  <2> DEFINE P == {k \in 0 .. N : j <= k => F[k][v] = F[j][v]}
  <2>1. 0 \in P
    BY <1>0
  <2>2. ASSUME NEW k \in 1 .. N, k - 1 \in P PROVE k \in P
    <3>1. SUFFICES ASSUME j <= k PROVE F[k][v] = F[j][v]
      BY <1>0
    <3>2. CASE j = k
      BY <3>2
    <3>3. CASE j # k
      <4>1. j <= k - 1 /\ k - 1 \in 0 .. N /\ F[k - 1][v] = F[j][v]
        BY <1>0, <2>2, <3>1, <3>3
      <4>2. v \in W[k - 1]
        BY <1>0, <4>1, WithinGrows
      <4>3. CASE v # s
        BY <1>11, <4>1, <4>2, <4>3
      <4>4. CASE v = s
        <5>1. F[k][s] = 1
          BY <1>11
        <5>2. F[j][s] = 1
          <6>1. j = 0 \/ j \in 1 .. N
            BY <1>0
          <6> QED
            BY <1>11, <1>12, <6>1
        <5> QED
          BY <4>4, <5>1, <5>2
      <4> QED
        BY <4>3, <4>4
    <3> QED
      BY <3>2, <3>3
  <2> HIDE DEF P
  <2>3. \A k \in 0 .. N : k \in P
    BY <1>0, <2>1, <2>2, UpTo
  <2> QED
    BY <2>3 DEF P
<1>14. ASSUME NEW j \in 0 .. N - 1, NEW v \in AtDepth(W, j + 1)
       PROVE  F[N][v] = SumFunctionOnSet(F[N], Parents(W, v, j))
  <2>1. j + 1 \in 1 .. N /\ (j + 1) - 1 = j /\ j \in 0 .. N /\ j + 1 \in 0 .. N /\ j + 1 <= N /\ j <= N
    BY <1>0
  <2>2. v \in W[j + 1]
    BY <1>14 DEF AtDepth
  <2>3. F[N][v] = F[j + 1][v]
    BY <1>0, <1>13, <2>1, <2>2
  <2>4. F[j + 1][v] = SumFunctionOnSet(F[j], Parents(W, v, j))
    BY <1>11, <2>1
  <2>5. PICK S : S = Parents(W, v, j)
    OBVIOUS
  <2>6. S \subseteq W[j] /\ IsFiniteSet(S)
    <3>1. S \subseteq W[j] /\ W[j] \subseteq Node
      BY <2>1, <2>5, <1>0 DEF Parents, AtDepth, IsWithin
    <3> QED
      BY <3>1, NodeFacts, FS_Subset
  <2>7. \A x \in S : F[j][x] \in Int /\ F[N][x] = F[j][x]
    <3>1. \A x \in S : F[N][x] = F[j][x]
      BY <1>0, <1>13, <2>1, <2>6
    <3>2. F[j] \in [W[j] -> Nat \ {0}]
      BY <1>10, <2>1
    <3> QED
      BY <2>6, <3>1, <3>2
  <2>8. SumFunctionOnSet(F[N], S) = SumFunctionOnSet(F[j], S)
    BY <2>6, <2>7, SumSame
  <2> QED
    BY <2>3, <2>4, <2>5, <2>8
<1>15. F[N][s] = 1 /\ F[N] \in [W[N] -> Nat \ {0}]
  <2>1. N \in 1 .. N
    BY <1>0
  <2> QED
    BY <1>0, <1>10, <1>11, <2>1
<1> QED
  BY <1>7, <1>14, <1>15 DEF IsPaths

-----------------------------------------------------------------------------
(* The invariant of Brandes. Of each vertex of the level that is expanded, *)
(* pos[u] edges are done with; f is the queue as in the search above, and  *)
(* C has the numbers of shortest paths.                                    *)
Found == {v \in Node : depths[v] # -1}

(* The ranges of the queue that hold the first m levels.                   *)
IndexOK(index, m, W, f) ==
  /\ index \in Seq(Nat) /\ Len(index) = m + 2
  /\ \A d \in DOMAIN index : index[d] <= queue.end
  /\ \A j \in 0 .. m - 1 : {f[i] : i \in index[j + 2] .. index[j + 3] - 1} = AtDepth(W, j)

(* A thread of the search: on which edge it is, and what it knows of it.   *)
EdgePlaces == {"readDepth", "claimDepth", "testDepth", "readBits", "swapBits", "addPaths"}
OnLevel == {"readBits", "swapBits", "addPaths"}
IsCounting(w) == w.at \in EdgePlaces

Counting(w, A, L) ==
  /\ w.u \in L /\ w.i \in DOMAIN graph.out[w.u]
  /\ w.at \in OnLevel \cup {"testDepth"} => graph.out[w.u][w.i] \in Found
  /\ w.at \in OnLevel => graph.out[w.u][w.i] \notin A

PathThread(th, A, L) ==
  /\ th.at \in {"idle", "joined", "reserve", "copy"} \cup EdgePlaces
  /\ th.at = "idle" => th = Idle
  /\ th.at = "joined" => th = Joined
  /\ Flushing(th) => th.next \in {Idle, Joined} \/ th.next.at = "testDepth"
  /\ IsCounting(Work(th)) => Counting(Work(th), A, L)

PathQueue(W, k, f) ==
  /\ QueueOK(f, Found \ W[k]) /\ InPlace(f, AtDepth(W, k)) /\ Old(f) \subseteq W[k]
  /\ IndexOK(Append(depthIndex, queue.start), k, W, f)

PathTeam(A, L) ==
  /\ todo \subseteq Window(queue) /\ DOMAIN thread = Threads
  /\ \A t \in Threads : PathThread(thread[t], A, L)
  /\ \A t \in Threads : Work(thread[t]) = Joined => todo = {}

(* Of each vertex of the level, either all edges are done with, or one     *)
(* thread is at the next of them, or the vertex is still to be taken.      *)
WorksOn(t, u) == IsCounting(Work(thread[t])) /\ Work(thread[t]).u = u

PosOK(L, f, pos) ==
  /\ pos \in [L -> Nat]
  /\ \A u \in L : pos[u] <= Len(graph.out[u])
  /\ \A i \in todo : pos[f[i]] = 0
  /\ \A t \in Threads : \A u \in L : WorksOn(t, u) =>
       /\ pos[u] = Work(thread[t]).i - 1
       /\ \A i \in todo : f[i] # u
       /\ \A r \in Threads : WorksOn(r, u) => r = t
  /\ \A u \in L : \/ pos[u] = Len(graph.out[u])
                  \/ \E i \in todo : f[i] = u
                  \/ \E t \in Threads : WorksOn(t, u)
  /\ \A u \in L : \A i \in 1 .. pos[u] : graph.out[u][i] \in Found

PathDepths(W, k) ==
  /\ Found \subseteq W[Deeper(k)]
  /\ \A j \in 0 .. k : \A v \in AtDepth(W, j) : depths[v] = j
  /\ \A v \in Node \ W[k] : depths[v] \in {-1, k + 1}

(* Those a path to v has been counted from.                                *)
Counted(L, pos, v) == {u \in L : \E i \in 1 .. pos[u] : graph.out[u][i] = v}

PathCounts(A, L, C, pos) ==
  /\ \A v \in A : pathCounts[v] = C[v]
  /\ \A v \in Node \ A : pathCounts[v] = SumFunctionOnSet(C, Counted(L, pos, v))

(* The edges that are marked in succ.                                      *)
Adding(u, i) == \E t \in Threads : /\ Work(thread[t]).at = "addPaths"
                                   /\ Work(thread[t]).u = u /\ Work(thread[t]).i = i

Marked(W, A, L, pos, u, i) ==
  \/ u \in A \ L /\ GoesDown(W, u, i)
  \/ u \in L /\ graph.out[u][i] \notin A /\ (i <= pos[u] \/ Adding(u, i))

PathBits(W, A, L, pos) ==
  \A u \in Node : \A i \in DOMAIN graph.out[u] : EdgeNumber(u, i) \in succ <=> Marked(W, A, L, pos, u, i)

PathsInv(W, C, k, f, pos) ==
  /\ step = "paths" /\ AtDepth(W, k) # {} /\ level = k + 1
  /\ PathQueue(W, k, f)
  /\ PathTeam(W[k], AtDepth(W, k))
  /\ PosOK(AtDepth(W, k), f, pos)
  /\ PathDepths(W, k)
  /\ PathCounts(W[k], AtDepth(W, k), C, pos)
  /\ PathBits(W, W[k], AtDepth(W, k), pos)

(* From the end of the search to the next source.                          *)
BackInv(W, C, k, f) ==
  /\ step = "back" /\ W[k] = W[N] /\ AllIdle
  /\ QueueOK(f, {}) /\ IndexOK(depthIndex, k + 1, W, f)
  /\ todo \subseteq 0 .. queue.in - 1 /\ back <= k + 1
  /\ \A j \in 0 .. k : \A v \in AtDepth(W, j) : depths[v] = j
  /\ \A v \in Node \ W[N] : depths[v] = -1
  /\ \A v \in W[N] : pathCounts[v] = C[v]
  /\ \A u \in Node : \A i \in DOMAIN graph.out[u] : EdgeNumber(u, i) \in succ <=> GoesDown(W, u, i)

PickInv == /\ step \in {"pick", "done"} /\ todo = {} /\ AllIdle
           /\ QueueType(queue) /\ queue.in <= N /\ buffer = [t \in Threads |-> <<>>]

SourceInv(s) == \E k \in 0 .. N : \E f :
  \/ \E pos : PathsInv(Within(s), ShortestPaths(s), k, f, pos)
  \/ BackInv(Within(s), ShortestPaths(s), k, f)

BcTypes ==
  /\ kernel = "bc" /\ graph \in Graphs
  /\ sources \in Seq(Node) /\ Len(sources) <= NumIters
  /\ buffer \in [Threads -> Seq(Node)]
  /\ depths \in [Node -> -1 .. N] /\ level \in 0 .. N
  /\ pathCounts \in [Node -> Nat] /\ succ \subseteq Nat
  /\ depthIndex \in Seq(0 .. N) /\ back \in Nat
  /\ deltas \in [Node -> Nat] /\ scores \in [Node -> Nat]

BcInv == BcTypes /\ (PickInv \/ (sources # <<>> /\ SourceInv(sources[Len(sources)])))

-----------------------------------------------------------------------------
(* A step of the search for shortest paths                                 *)

(* What the steps are proved from: the sets of level k.                    *)
OnDepth(s, W, C, k, A, L) ==
  /\ graph \in Graphs /\ s \in Node /\ W = Within(s) /\ C = ShortestPaths(s)
  /\ k \in 0 .. N /\ A = W[k] /\ L = AtDepth(W, k) /\ L # {}
  /\ depths \in [Node -> -1 .. N] /\ pathCounts \in [Node -> Nat] /\ succ \subseteq Nat

\* What OnDepth says of the levels around k.
LEMMA OnDepthFacts ==
  ASSUME NEW s, NEW W, NEW C, NEW k, NEW A, NEW L, OnDepth(s, W, C, k, A, L)
  PROVE  /\ IsWithin(s, W) /\ IsPaths(s, W, C) /\ Ring(s, A, L, W[Deeper(k)])
         /\ k < N /\ Deeper(k) = k + 1 /\ k + 1 \in 0 .. N /\ k \in Nat
         /\ A \subseteq Node /\ L \subseteq A /\ L \subseteq Node /\ A \subseteq W[N]
<1>1. IsWithin(s, W) /\ IsPaths(s, W, C)
  BY WithinLevels, PathsFacts DEF OnDepth
<1>2. k \in 0 .. N /\ graph \in Graphs /\ s \in Node /\ A = W[k] /\ L = AtDepth(W, k)
  BY DEF OnDepth
<1>3. Ring(s, A, L, W[Deeper(k)])
  BY <1>1, <1>2, RingFacts
<1>4. k # N
  BY DepthLevels DEF OnDepth
<1>5. k < N /\ Deeper(k) = k + 1 /\ k + 1 \in 0 .. N /\ k \in Nat
  BY <1>2, <1>4, NodeFacts DEF Deeper
<1>6. A \subseteq Node /\ L \subseteq A
  BY <1>3 DEF Ring
<1>7. A \subseteq W[N]
  BY <1>2, DepthLevels DEF OnDepth
<1> QED
  BY <1>1, <1>3, <1>5, <1>6, <1>7

\* Facts about the edges of a vertex.
LEMMA OutFacts ==
  ASSUME graph \in Graphs, NEW u \in Node
  PROVE  /\ Len(graph.out[u]) \in Nat /\ DOMAIN graph.out[u] = 1 .. Len(graph.out[u])
         /\ \A i \in DOMAIN graph.out[u] : graph.out[u][i] \in Node /\ graph.out[u][i] \in Elems(graph.out[u])
         /\ IsInjective(graph.out[u])
<1>1. graph.out[u] \in Seq(Node)
  BY GraphFacts
<1>2. IsInjective(graph.out[u])
  BY KernelAssumption DEF NoRepetition
<1> QED
  BY <1>1, <1>2 DEF Elems

\* What the edge a thread is on leads to.
LEMMA EdgeTarget ==
  ASSUME NEW s, NEW W, NEW C, NEW k, NEW A, NEW L, OnDepth(s, W, C, k, A, L),
         NEW u \in L, NEW i \in DOMAIN graph.out[u], NEW v, v = graph.out[u][i]
  PROVE  /\ u \in Node /\ u \in A /\ v \in Node /\ v \in W[Deeper(k)] /\ v \in Elems(graph.out[u])
         /\ i \in Nat /\ i >= 1 /\ i <= Len(graph.out[u]) /\ Len(graph.out[u]) \in Nat
<1>1. Ring(s, A, L, W[Deeper(k)]) /\ u \in Node /\ u \in A
  BY OnDepthFacts
<1>2. v \in Node /\ v \in Elems(graph.out[u]) /\ i \in 1 .. Len(graph.out[u]) /\ Len(graph.out[u]) \in Nat
  BY <1>1, OutFacts DEF OnDepth
<1>3. v \in W[Deeper(k)]
  BY <1>1, <1>2 DEF Ring
<1> QED
  BY <1>1, <1>2, <1>3

\* The depths that are known during level k.
LEMMA KnownDepths ==
  ASSUME NEW s, NEW W, NEW C, NEW k, NEW A, NEW L, OnDepth(s, W, C, k, A, L), PathDepths(W, k)
  PROVE  /\ A \subseteq Found
         /\ \A v \in Node : \/ v \in A /\ depths[v] \in 0 .. k
                            \/ v \notin A /\ depths[v] = -1 /\ v \notin Found
                            \/ v \notin A /\ depths[v] = k + 1 /\ v \in Found
<1>0. /\ IsWithin(s, W) /\ A \subseteq Node /\ k \in Nat /\ A = W[k] /\ k \in 0 .. N
      /\ graph \in Graphs /\ s \in Node /\ W = Within(s)
  BY OnDepthFacts DEF OnDepth
<1>1. ASSUME NEW v \in A PROVE depths[v] \in 0 .. k
  <2>1. v \in W[N] /\ Depth(s)[v] \in 0 .. k /\ v \in AtDepth(W, Depth(s)[v])
    <3>1. v \in W[N] /\ Depth(s)[v] <= k
      BY <1>0, DepthLevels
    <3>2. Depth(s)[v] \in 0 .. N - 1 /\ v \in AtDepth(W, Depth(s)[v])
      BY <1>0, <3>1, DepthLevels
    <3> QED
      BY <1>0, <3>1, <3>2
  <2> QED
    BY <2>1 DEF PathDepths
<1>2. \A v \in A : depths[v] # -1
  BY <1>0, <1>1
<1>3. \A v \in Node \ A : depths[v] \in {-1, k + 1}
  BY <1>0 DEF PathDepths
<1>4. k + 1 # -1
  BY <1>0
<1> QED
  BY <1>0, <1>1, <1>2, <1>3, <1>4 DEF Found

\* The next edge of u, or none.
LEMMA NextEdgeFacts ==
  ASSUME NEW u, NEW i \in Nat, Len(graph.out[u]) \in Nat, NEW x, x = NextEdge(u, i)
  PROVE  /\ \/ i > Len(graph.out[u]) /\ x = Idle /\ ~IsCounting(x)
            \/ /\ i <= Len(graph.out[u]) /\ IsCounting(x)
               /\ x.at = "readDepth" /\ x.u = u /\ x.i = i
         /\ Work(x) = x /\ x # Joined /\ ~Flushing(x) /\ x.at # "joined"
         /\ x.at # "addPaths" /\ x.at \in {"idle", "readDepth"}
<1>1. \/ i > Len(graph.out[u]) /\ x = Idle
      \/ i <= Len(graph.out[u]) /\ x = OnEdge("readDepth", u, i, {})
  BY DEF NextEdge
<1>2. CASE i > Len(graph.out[u]) /\ x = Idle
  <2>1. x.at = "idle"
    BY <1>2 DEF Idle
  <2> QED
    BY <1>2, <2>1 DEF IsCounting, EdgePlaces, Work, Flushing, Joined
<1>3. CASE i <= Len(graph.out[u]) /\ x = OnEdge("readDepth", u, i, {})
  <2>1. x.at = "readDepth" /\ x.u = u /\ x.i = i
    BY <1>3 DEF OnEdge
  <2> QED
    BY <1>3, <2>1 DEF IsCounting, EdgePlaces, Work, Flushing, Joined
<1> QED
  BY <1>1, <1>2, <1>3

\* A thread at an edge is neither idle nor joined, and flushes nothing.
LEMMA OnEdgeFacts ==
  ASSUME NEW at \in EdgePlaces, NEW u, NEW i, NEW word, NEW x, x = OnEdge(at, u, i, word)
  PROVE  /\ x.at = at /\ x.u = u /\ x.i = i /\ x.word = word /\ IsCounting(x)
         /\ Work(x) = x /\ x # Joined /\ ~Flushing(x) /\ x.at # "joined" /\ x # Idle /\ x.at # "idle"
<1>1. x.at = at /\ x.u = u /\ x.i = i /\ x.word = word
  BY DEF OnEdge
<1> QED
  BY <1>1 DEF IsCounting, EdgePlaces, Work, Flushing, Joined, Idle

\* The parts of the invariant that a step of thread t keeps.
LEMMA TeamKept ==
  ASSUME NEW A, NEW L, PathTeam(A, L), NEW t \in Threads, NEW x, thread' = [thread EXCEPT ![t] = x],
         graph' = graph, todo' \subseteq todo, queue'.start = queue.start, queue'.end = queue.end,
         Found \subseteq Found', PathThread(x, A, L)', Work(x) = Joined => todo' = {}
  PROVE  PathTeam(A, L)'
<1>1. /\ todo \subseteq Window(queue) /\ DOMAIN thread = Threads
      /\ \A s \in Threads : PathThread(thread[s], A, L) /\ (Work(thread[s]) = Joined => todo = {})
  BY DEF PathTeam
<1>2. /\ DOMAIN thread' = Threads /\ thread'[t] = x
      /\ \A s \in Threads : s # t => thread'[s] = thread[s]
  BY <1>1
<1>3. ASSUME NEW s \in Threads
      PROVE  PathThread(thread[s], A, L)' /\ (Work(thread'[s]) = Joined => todo' = {})
  <2>1. CASE s = t
    BY <1>2, <2>1
  <2>2. CASE s # t
    <3>1. PICK th : th = thread[s]
      OBVIOUS
    <3>2. PathThread(th, A, L) /\ thread'[s] = th /\ (Work(th) = Joined => todo = {})
      BY <1>1, <1>2, <2>2, <3>1
    <3>3. PathThread(th, A, L)'
      BY <3>2 DEF PathThread, Counting
    <3> QED
      BY <3>2, <3>3
  <2> QED
    BY <2>1, <2>2
<1>4. todo' \subseteq Window(queue)'
  BY <1>1 DEF Window
<1> QED
  BY <1>2, <1>3, <1>4 DEF PathTeam

\* The queue stays right when no vertex is found.
LEMMA PathQueueKept ==
  ASSUME NEW W, NEW k \in 0 .. N, NEW f, NEW g, PathQueue(W, k, f), QueueOK(g, Found \ W[k])',
         \A i \in 0 .. queue.in - 1 : g[i] = f[i],
         queue'.start = queue.start, queue'.end = queue.end, depthIndex' = depthIndex
  PROVE  PathQueue(W, k, g)'
<1>1. PICK start \in Nat, end \in Nat, in \in Nat :
        start = queue.start /\ end = queue.end /\ in = queue.in /\ start <= end /\ end <= in
  BY DEF PathQueue, QueueOK, QueueType
<1>2. PICK index : index = Append(depthIndex, queue.start)
  OBVIOUS
<1>3. \A i \in 0 .. end - 1 : g[i] = f[i]
  <2>1. \A i \in 0 .. end - 1 : i \in 0 .. in - 1
    BY <1>1
  <2> QED
    BY <1>1, <2>1
<1>4. InPlace(g, AtDepth(W, k))' /\ Old(g)' \subseteq W[k]
  <2>1. \A i \in start .. end - 1 : i \in 0 .. end - 1
    BY <1>1
  <2>2. {g[i] : i \in start .. end - 1} = {f[i] : i \in start .. end - 1}
    BY <1>3, <2>1
  <2>3. {g[i] : i \in 0 .. end - 1} = {f[i] : i \in 0 .. end - 1}
    BY <1>3
  <2> QED
    BY <1>1, <2>2, <2>3 DEF PathQueue, InPlace, Old
<1>5. IndexOK(index, k, W, f)
  BY <1>2 DEF PathQueue
<1>6. IndexOK(index, k, W, g)'
  <2>1. index \in Seq(Nat) /\ Len(index) = k + 2 /\ \A d \in DOMAIN index : index[d] <= end
    BY <1>1, <1>5 DEF IndexOK
  <2>2. ASSUME NEW j \in 0 .. k - 1
        PROVE  {g[i] : i \in index[j + 2] .. index[j + 3] - 1} = AtDepth(W, j)
    <3>1. j + 2 \in DOMAIN index /\ j + 3 \in DOMAIN index
      BY <2>1
    <3>0. \A d \in DOMAIN index : index[d] \in Nat /\ index[d] <= end
      BY <2>1
    <3>2. PICK a \in Nat, b \in Nat : a = index[j + 2] /\ b = index[j + 3] /\ b <= end
      <4>1. index[j + 2] \in Nat /\ index[j + 3] \in Nat /\ index[j + 3] <= end
        BY <3>0, <3>1
      <4> QED
        BY <4>1
    <3>3. \A i \in a .. b - 1 : i \in 0 .. end - 1
      BY <1>1, <3>2
    <3>4. {g[i] : i \in a .. b - 1} = {f[i] : i \in a .. b - 1}
      BY <1>3, <3>3
    <3>5. {f[i] : i \in a .. b - 1} = AtDepth(W, j)
      BY <1>5, <3>2 DEF IndexOK
    <3> QED
      BY <3>2, <3>4, <3>5
  <2> QED
    BY <1>1, <2>1, <2>2 DEF IndexOK
<1>7. index = Append(depthIndex, queue.start)'
  BY <1>2
<1> QED
  BY <1>4, <1>6, <1>7 DEF PathQueue

\* What is known of the depths stays, if no depth is written.
LEMMA DepthsKept ==
  ASSUME NEW W, NEW k, PathDepths(W, k), depths' = depths
  PROVE  PathDepths(W, k)' /\ Found' = Found
BY DEF PathDepths, Found

\* So do the path counts.
LEMMA CountsKept ==
  ASSUME NEW A, NEW L, NEW C, NEW pos, PathCounts(A, L, C, pos), pathCounts' = pathCounts, graph' = graph
  PROVE  PathCounts(A, L, C, pos)'
BY DEF PathCounts, Counted

\* The marks, when no edge is done with and none begins or ends to be added.
LEMMA BitsKept ==
  ASSUME NEW W, NEW A, NEW L, NEW pos, PathBits(W, A, L, pos), DOMAIN thread = Threads,
         NEW t \in Threads, NEW x, thread' = [thread EXCEPT ![t] = x],
         graph' = graph, succ' = succ,
         Work(x) = Work(thread[t]) \/ (Work(x).at # "addPaths" /\ Work(thread[t]).at # "addPaths")
  PROVE  PathBits(W, A, L, pos)'
<1>1. /\ DOMAIN thread' = Threads /\ thread'[t] = x
      /\ \A s \in Threads : s # t => thread'[s] = thread[s]
  OBVIOUS
<1>2. \A u, i : Adding(u, i)' <=> Adding(u, i)
  <2>1. SUFFICES ASSUME NEW u, NEW i
                 PROVE  (\E s \in Threads : /\ Work(thread'[s]).at = "addPaths"
                                            /\ Work(thread'[s]).u = u /\ Work(thread'[s]).i = i)
                        <=> (\E s \in Threads : /\ Work(thread[s]).at = "addPaths"
                                                /\ Work(thread[s]).u = u /\ Work(thread[s]).i = i)
    BY DEF Adding, Work, Flushing
  <2>2. ASSUME NEW s \in Threads
        PROVE  (/\ Work(thread'[s]).at = "addPaths"
                /\ Work(thread'[s]).u = u /\ Work(thread'[s]).i = i)
                 <=> (/\ Work(thread[s]).at = "addPaths"
                      /\ Work(thread[s]).u = u /\ Work(thread[s]).i = i)
    BY <1>1
  <2> QED
    BY <2>2
<1>3. \A u, i : EdgeNumber(u, i)' = EdgeNumber(u, i) /\ GoesDown(W, u, i)' = GoesDown(W, u, i)
  BY DEF EdgeNumber, EdgesBefore, GoesDown, AtDepth
<1>4. \A u, i : Marked(W, A, L, pos, u, i)' <=> Marked(W, A, L, pos, u, i)
  BY <1>2, <1>3 DEF Marked
<1> QED
  BY <1>3, <1>4 DEF PathBits

\* The places, when the thread stays on its edge or off any.
LEMMA PosKept ==
  ASSUME NEW L, NEW f, NEW g, NEW pos, PosOK(L, f, pos), DOMAIN thread = Threads,
         NEW t \in Threads, NEW x, thread' = [thread EXCEPT ![t] = x], todo' = todo, graph' = graph,
         Found \subseteq Found', \A i \in todo : g[i] = f[i],
         NEW w, w = Work(thread[t]), NEW y, y = Work(x), IsCounting(w) <=> IsCounting(y),
         IsCounting(w) => y.u = w.u /\ y.i = w.i
  PROVE  PosOK(L, g, pos)'
<1>1. /\ DOMAIN thread' = Threads /\ thread'[t] = x
      /\ \A s \in Threads : s # t => thread'[s] = thread[s]
  OBVIOUS
<1>2. ASSUME NEW s \in Threads, NEW u
      PROVE  /\ WorksOn(s, u)' <=> WorksOn(s, u)
             /\ WorksOn(s, u) => Work(thread'[s]).i = Work(thread[s]).i
  <2>1. CASE s = t
    BY <1>1, <2>1 DEF WorksOn, IsCounting, Work, Flushing
  <2>2. CASE s # t
    BY <1>1, <2>2 DEF WorksOn, IsCounting, Work, Flushing
  <2> QED
    BY <2>1, <2>2
<1>3. /\ pos \in [L -> Nat] /\ \A u \in L : pos[u] <= Len(graph'.out[u])
      /\ \A i \in todo' : pos[g[i]] = 0
  BY DEF PosOK
<1>4. ASSUME NEW s \in Threads, NEW u \in L, WorksOn(s, u)'
      PROVE  /\ pos[u] = Work(thread'[s]).i - 1
             /\ \A i \in todo' : g[i] # u
             /\ \A r \in Threads : WorksOn(r, u)' => r = s
  BY <1>2, <1>4 DEF PosOK
<1>5. ASSUME NEW u \in L
      PROVE  \/ pos[u] = Len(graph'.out[u])
             \/ \E i \in todo' : g[i] = u
             \/ \E s \in Threads : WorksOn(s, u)'
  BY <1>2 DEF PosOK
<1>6. \A u \in L : \A i \in 1 .. pos[u] : graph'.out[u][i] \in Found'
  BY DEF PosOK
<1> QED
  BY <1>3, <1>4, <1>5, <1>6 DEF PosOK

PosAfter(L, pos, u, i, p) == p \in [L -> Nat] /\ p = [pos EXCEPT ![u] = i]

\* Where a thread is in its vertex.
LEMMA PosHere ==
  ASSUME NEW L, NEW f, NEW pos, PosOK(L, f, pos), NEW t \in Threads,
         IsCounting(Work(thread[t])), Work(thread[t]).u \in L
  PROVE  /\ pos \in [L -> Nat]
         /\ pos[Work(thread[t]).u] = Work(thread[t]).i - 1
BY DEF PosOK, WorksOn

\* The places, when the thread has gone to the next edge of its vertex, or
\* off it when there is none.
LEMMA PosNext ==
  ASSUME NEW L, NEW f, NEW pos, PosOK(L, f, pos), DOMAIN thread = Threads,
         NEW t \in Threads, NEW x, thread' = [thread EXCEPT ![t] = x], todo' = todo, graph' = graph,
         depths' = depths, NEW w, w = Work(thread[t]), IsCounting(w), NEW u \in L, u = w.u,
         NEW i \in Nat, i = w.i, i <= Len(graph.out[u]), Len(graph.out[u]) \in Nat,
         graph.out[u][i] \in Found, NEW n, n = i + 1, x = NextEdge(u, n),
         NEW p, PosAfter(L, pos, u, i, p)
  PROVE  PosOK(L, f, p)'
<1>1. /\ DOMAIN thread' = Threads /\ thread'[t] = x
      /\ \A s \in Threads : s # t => thread'[s] = thread[s]
  OBVIOUS
<1>2. WorksOn(t, u) /\ \A v : WorksOn(t, v) => v = u
  BY DEF WorksOn
<1>3. pos \in [L -> Nat] /\ pos[u] = i - 1 /\ (\A j \in todo : f[j] # u)
  BY <1>2 DEF PosOK
<1>5. p \in [L -> Nat] /\ p[u] = i /\ \A v \in L : v # u => p[v] = pos[v]
  BY <1>3 DEF PosAfter
<1>6. /\ \/ i + 1 > Len(graph.out[u]) /\ x = Idle /\ ~IsCounting(x)
         \/ i + 1 <= Len(graph.out[u]) /\ IsCounting(x) /\ x.u = u /\ x.i = i + 1
      /\ Work(x) = x
  <2>1. i + 1 \in Nat
    OBVIOUS
  <2> QED
    BY <2>1, NextEdgeFacts
<1>7. ASSUME NEW s \in Threads, s # t, NEW v
      PROVE  /\ WorksOn(s, v)' <=> WorksOn(s, v)
             /\ Work(thread'[s]) = Work(thread[s])
  BY <1>1, <1>7 DEF WorksOn, IsCounting, Work, Flushing
<1>8. ASSUME NEW v
      PROVE  /\ WorksOn(t, v)' => v = u /\ i + 1 <= Len(graph.out[u]) /\ Work(thread'[t]).i = i + 1
             /\ WorksOn(t, u)' \/ i = Len(graph.out[u])
  <2>1. Work(thread'[t]) = x
    BY <1>1, <1>6
  <2>2. WorksOn(t, v)' => IsCounting(x) /\ x.u = v
    BY <2>1 DEF WorksOn, IsCounting, Work, Flushing
  <2>3. IsCounting(x) /\ x.u = u => WorksOn(t, u)'
    BY <2>1 DEF WorksOn, IsCounting, Work, Flushing
  <2>4. ~(i + 1 <= Len(graph.out[u])) => i = Len(graph.out[u])
    OBVIOUS
  <2>5. ~(i + 1 <= Len(graph.out[u])) => ~IsCounting(x)
    BY <1>6
  <2>6. IsCounting(x) => x.u = u /\ i + 1 <= Len(graph.out[u]) /\ x.i = i + 1
    BY <1>6
  <2>7. i + 1 <= Len(graph.out[u]) => IsCounting(x) /\ x.u = u
    BY <1>6
  <2> QED
    BY ONLY <2>1, <2>2, <2>3, <2>4, <2>5, <2>6, <2>7
<1>9. \A s \in Threads : WorksOn(s, u) => s = t
  BY <1>2 DEF PosOK
<1>10. Found' = Found
  BY DEF Found
<1>11. \A v \in L : p[v] <= Len(graph'.out[v])
  <2>1. (\A v \in L : pos[v] <= Len(graph.out[v])) /\ i <= Len(graph.out[u])
    BY DEF PosOK
  <2>2. graph' = graph
    OBVIOUS
  <2> QED
    BY ONLY <1>5, <2>1, <2>2
<1>12. \A j \in todo' : p[f[j]] = 0
  <2> SUFFICES ASSUME NEW j \in todo PROVE p[f[j]] = 0
    OBVIOUS
  <2>1. pos[f[j]] = 0 /\ f[j] # u
    BY <1>3 DEF PosOK
  <2> QED
    BY <1>3, <2>1 DEF PosAfter
<1>13. ASSUME NEW s \in Threads, NEW v \in L, WorksOn(s, v)'
       PROVE  /\ p[v] = Work(thread'[s]).i - 1
              /\ \A j \in todo' : f[j] # v
              /\ \A r \in Threads : WorksOn(r, v)' => r = s
  <2>1. CASE s = t
    <3>1. v = u /\ Work(thread'[s]).i = i + 1
      BY <1>8, <1>13, <2>1
    <3>2. \A r \in Threads : WorksOn(r, v)' => r = s
      BY <1>7, <1>9, <2>1, <3>1
    <3> QED
      BY <1>3, <1>5, <3>1, <3>2
  <2>2. CASE s # t
    <3>1. WorksOn(s, v) /\ Work(thread'[s]) = Work(thread[s])
      BY <1>7, <1>13, <2>2
    <3>2. v # u
      BY <1>9, <2>2, <3>1
    <3>3. \A r \in Threads : WorksOn(r, v)' => r = s
      <4>1. ~WorksOn(t, v)'
        BY <1>8, <3>2
      <4>2. \A r \in Threads : WorksOn(r, v) => r = s
        BY <3>1 DEF PosOK
      <4> QED
        BY <1>7, <4>1, <4>2
    <3>4. pos[v] = Work(thread[s]).i - 1 /\ \A j \in todo' : f[j] # v
      BY <3>1 DEF PosOK
    <3> QED
      BY <1>5, <3>1, <3>2, <3>3, <3>4
  <2> QED
    BY <2>1, <2>2
<1>14. ASSUME NEW v \in L
       PROVE  \/ p[v] = Len(graph'.out[v])
              \/ \E j \in todo' : f[j] = v
              \/ \E s \in Threads : WorksOn(s, v)'
  <2>1. CASE v = u
    BY <1>5, <1>8, <2>1
  <2>2. CASE v # u
    <3>1. p[v] = pos[v]
      BY <1>5, <2>2
    <3>2. \A s \in Threads : WorksOn(s, v) => s # t
      BY <1>2, <2>2
    <3>3. \A s \in Threads : WorksOn(s, v) => WorksOn(s, v)'
      BY <1>7, <3>2
    <3> QED
      BY <3>1, <3>3 DEF PosOK
  <2> QED
    BY <2>1, <2>2
<1>15. ASSUME NEW v \in L, NEW j \in 1 .. p[v] PROVE graph'.out[v][j] \in Found'
  <2>1. CASE v = u
    <3>1. j = i \/ j \in 1 .. pos[u]
      BY <1>3, <1>5, <1>15, <2>1
    <3> QED
      BY <1>10, <2>1, <3>1 DEF PosOK
  <2>2. CASE v # u
    BY <1>5, <1>10, <1>15, <2>2 DEF PosOK
  <2> QED
    BY <2>1, <2>2
<1> QED
  BY <1>5, <1>11, <1>12, <1>13, <1>14, <1>15 DEF PosOK

\* The places, when the thread takes vertex u.
LEMMA PosTaken ==
  ASSUME NEW L, NEW f, NEW pos, PosOK(L, f, pos), DOMAIN thread = Threads,
         NEW t \in Threads, NEW x, thread' = [thread EXCEPT ![t] = x], graph' = graph, depths' = depths,
         NEW n \in todo, todo' = todo \ {n}, NEW u \in L, u = f[n],
         \A j \in todo : f[j] = u => j = n,
         ~IsCounting(Work(thread[t])), Len(graph.out[u]) \in Nat, NEW e, e = 1, x = NextEdge(u, e)
  PROVE  PosOK(L, f, pos)'
<1>1. /\ DOMAIN thread' = Threads /\ thread'[t] = x
      /\ \A s \in Threads : s # t => thread'[s] = thread[s]
  OBVIOUS
<1>3. pos \in [L -> Nat] /\ pos[u] = 0 /\ (\A j \in todo' : f[j] # u)
  BY DEF PosOK
<1>6. /\ \/ 1 > Len(graph.out[u]) /\ x = Idle /\ ~IsCounting(x)
         \/ 1 <= Len(graph.out[u]) /\ IsCounting(x) /\ x.u = u /\ x.i = 1
      /\ Work(x) = x
  BY NextEdgeFacts
<1>7. ASSUME NEW s \in Threads, s # t, NEW v
      PROVE  /\ WorksOn(s, v)' <=> WorksOn(s, v)
             /\ Work(thread'[s]) = Work(thread[s])
  BY <1>1, <1>7 DEF WorksOn, IsCounting, Work, Flushing
<1>8. ASSUME NEW v
      PROVE  /\ WorksOn(t, v)' => v = u /\ Work(thread'[t]).i = 1
             /\ WorksOn(t, u)' \/ Len(graph.out[u]) = 0
  <2>1. Work(thread'[t]) = x
    BY <1>1, <1>6
  <2>2. WorksOn(t, v)' => IsCounting(x) /\ x.u = v
    BY <2>1 DEF WorksOn, IsCounting, Work, Flushing
  <2>3. IsCounting(x) /\ x.u = u => WorksOn(t, u)'
    BY <2>1 DEF WorksOn, IsCounting, Work, Flushing
  <2>4. 1 > Len(graph.out[u]) => Len(graph.out[u]) = 0
    OBVIOUS
  <2> QED
    BY <1>6, <2>1, <2>2, <2>3, <2>4
<1>9. \A s \in Threads : ~WorksOn(s, u)
  BY DEF PosOK
<1>10. Found' = Found
  BY DEF Found
<1>11. (\A v \in L : pos[v] <= Len(graph'.out[v])) /\ (\A j \in todo' : pos[f[j]] = 0)
  BY DEF PosOK
<1>13. ASSUME NEW s \in Threads, NEW v \in L, WorksOn(s, v)'
       PROVE  /\ pos[v] = Work(thread'[s]).i - 1
              /\ \A j \in todo' : f[j] # v
              /\ \A r \in Threads : WorksOn(r, v)' => r = s
  <2>1. CASE s = t
    <3>1. v = u /\ Work(thread'[s]).i = 1
      BY <1>8, <1>13, <2>1
    <3>2. \A r \in Threads : WorksOn(r, v)' => r = s
      BY <1>7, <1>9, <2>1, <3>1
    <3> QED
      BY <1>3, <3>1, <3>2
  <2>2. CASE s # t
    <3>1. WorksOn(s, v) /\ Work(thread'[s]) = Work(thread[s])
      BY <1>7, <1>13, <2>2
    <3>2. v # u
      BY <1>9, <3>1
    <3>3. \A r \in Threads : WorksOn(r, v)' => r = s
      <4>1. ~WorksOn(t, v)'
        BY <1>8, <3>2
      <4>2. \A r \in Threads : WorksOn(r, v) => r = s
        BY <3>1 DEF PosOK
      <4> QED
        BY <1>7, <4>1, <4>2
    <3>4. pos[v] = Work(thread[s]).i - 1 /\ \A j \in todo' : f[j] # v
      BY <3>1 DEF PosOK
    <3> QED
      BY <3>1, <3>3, <3>4
  <2> QED
    BY <2>1, <2>2
<1>14. ASSUME NEW v \in L
       PROVE  \/ pos[v] = Len(graph'.out[v])
              \/ \E j \in todo' : f[j] = v
              \/ \E s \in Threads : WorksOn(s, v)'
  <2>1. CASE v = u
    BY <1>3, <1>8, <2>1
  <2>2. CASE v # u
    <3>1. \A j \in todo : f[j] = v => j \in todo'
      BY <2>2
    <3>2. \A s \in Threads : WorksOn(s, v) => s # t
      BY DEF WorksOn
    <3>3. \A s \in Threads : WorksOn(s, v) => WorksOn(s, v)'
      BY <1>7, <3>2
    <3> QED
      BY <3>1, <3>3 DEF PosOK
  <2> QED
    BY <2>1, <2>2
<1>15. \A v \in L : \A j \in 1 .. pos[v] : graph'.out[v][j] \in Found'
  BY <1>10 DEF PosOK
<1> QED
  BY <1>3, <1>11, <1>13, <1>14, <1>15 DEF PosOK

\* The parts of the invariant at the step of one thread.
LEMMA PathsParts ==
  ASSUME NEW s, NEW W, NEW C, NEW k, NEW A, NEW L, OnDepth(s, W, C, k, A, L)
  PROVE  /\ \A f, pos : PathsInv(W, C, k, f, pos) =>
              /\ step = "paths" /\ level = k + 1
              /\ PathQueue(W, k, f) /\ PathTeam(A, L) /\ PosOK(L, f, pos) /\ PathDepths(W, k)
              /\ PathCounts(A, L, C, pos) /\ PathBits(W, A, L, pos)
              /\ QueueOK(f, Found \ A) /\ InPlace(f, L) /\ Old(f) \subseteq A
              /\ todo \subseteq Window(queue) /\ DOMAIN thread = Threads
              /\ \A t \in Threads : PathThread(thread[t], A, L)
         /\ \A f, pos :
              /\ step' = "paths" /\ level' = k + 1
              /\ PathQueue(W, k, f)' /\ PathTeam(A, L)' /\ PosOK(L, f, pos)' /\ PathDepths(W, k)'
              /\ PathCounts(A, L, C, pos)' /\ PathBits(W, A, L, pos)'
              => PathsInv(W, C, k, f, pos)'
<1>1. A = W[k] /\ L = AtDepth(W, k) /\ L # {}
  BY DEF OnDepth
<1> QED
  BY <1>1 DEF PathsInv, PathQueue, PathTeam, AtDepth

\* A step that stays on the edge and changes what the thread knows.
LEMMA EdgeStays ==
  ASSUME NEW s, NEW W, NEW C, NEW k, NEW A, NEW L, OnDepth(s, W, C, k, A, L),
         NEW f, NEW pos, PathsInv(W, C, k, f, pos),
         NEW t \in Threads, IsCounting(thread[t]),
         NEW x, thread' = [thread EXCEPT ![t] = x], x.at \in EdgePlaces,
         x.u = thread[t].u, x.i = thread[t].i, Counting(x, A, L)',
         kernel' = kernel, graph' = graph, step' = step, todo' = todo, queue' = queue, buffer' = buffer,
         level' = level, depths' = depths, pathCounts' = pathCounts,
         depthIndex' = depthIndex, PathBits(W, A, L, pos)'
  PROVE  PathsInv(W, C, k, f, pos)'
<1>1. /\ step = "paths" /\ level = k + 1
      /\ PathQueue(W, k, f) /\ PathTeam(A, L) /\ PosOK(L, f, pos) /\ PathDepths(W, k)
      /\ PathCounts(A, L, C, pos)
      /\ QueueOK(f, Found \ A) /\ DOMAIN thread = Threads
  BY PathsParts
<1>2. PICK th : th = thread[t]
  OBVIOUS
<1>3. /\ IsCounting(th) /\ Work(th) = th /\ ~Flushing(th)
      /\ IsCounting(x) /\ Work(x) = x /\ ~Flushing(x) /\ x.at # "joined" /\ x # Joined
  BY <1>2 DEF IsCounting, EdgePlaces, Work, Flushing, Joined
<1>4. PathDepths(W, k)' /\ Found' = Found
  BY <1>1, DepthsKept
<1>5. PathCounts(A, L, C, pos)'
  BY <1>1, CountsKept
<1>7. PosOK(L, f, pos)'
  BY <1>1, <1>2, <1>3, <1>4, PosKept
<1>8. PathThread(x, A, L)'
  BY <1>3 DEF PathThread, IsCounting, EdgePlaces
<1>9. PathTeam(A, L)'
  BY <1>1, <1>3, <1>4, <1>8, TeamKept
<1>10. PICK New : New = Found \ A
  OBVIOUS
<1>11. QueueOK(f, New)'
  BY <1>1, <1>2, <1>3, <1>10, QuietQueue
<1>12. QueueOK(f, Found \ W[k])'
  BY <1>4, <1>10, <1>11 DEF OnDepth
<1>13. PathQueue(W, k, f)'
  BY <1>1, <1>12, PathQueueKept DEF OnDepth
<1> QED
  BY <1>1, <1>4, <1>5, <1>7, <1>9, <1>13, PathsParts

\* A step that stays on the edge and only changes what the thread knows.
LEMMA SameEdge ==
  ASSUME NEW s, NEW W, NEW C, NEW k, NEW A, NEW L, OnDepth(s, W, C, k, A, L),
         NEW f, NEW pos, PathsInv(W, C, k, f, pos),
         NEW t \in Threads, IsCounting(thread[t]), thread[t].at # "addPaths",
         NEW x, thread' = [thread EXCEPT ![t] = x], x.at \in EdgePlaces, x.at # "addPaths",
         x.u = thread[t].u, x.i = thread[t].i, Counting(x, A, L)',
         kernel' = kernel, graph' = graph, step' = step, todo' = todo, queue' = queue, buffer' = buffer,
         level' = level, depths' = depths, pathCounts' = pathCounts, succ' = succ,
         depthIndex' = depthIndex
  PROVE  PathsInv(W, C, k, f, pos)'
<1>1. DOMAIN thread = Threads /\ PathBits(W, A, L, pos)
  BY PathsParts
<1>2. PICK th : th = thread[t]
  OBVIOUS
<1>3. Work(th) = th /\ Work(x) = x
  BY <1>2 DEF IsCounting, EdgePlaces, Work, Flushing
<1>4. PathBits(W, A, L, pos)'
  BY <1>1, <1>2, <1>3, BitsKept
<1> QED
  BY <1>4, EdgeStays

\* What is known of a thread on an edge.
LEMMA AtEdgeFacts ==
  ASSUME NEW A, NEW L, NEW th, PathThread(th, A, L), th.at \in EdgePlaces
  PROVE  /\ IsCounting(th) /\ Work(th) = th /\ ~Flushing(th) /\ Counting(th, A, L)
         /\ th.u \in L /\ th.i \in DOMAIN graph.out[th.u]
BY DEF PathThread, IsCounting, EdgePlaces, Work, Flushing, Counting

\* Reading the depth of the target.
LEMMA ReadDepthStep ==
  ASSUME NEW s, NEW W, NEW C, NEW k, NEW A, NEW L, OnDepth(s, W, C, k, A, L),
         NEW f, NEW pos, PathsInv(W, C, k, f, pos), NEW t \in Threads, ReadDepth(t)
  PROVE  PathsInv(W, C, k, f, pos)'
<1>1. PICK th, u, i, v : th = thread[t] /\ u = th.u /\ i = th.i /\ v = graph.out[u][i]
  OBVIOUS
<1>2. PICK at : at = IF depths[v] = -1 THEN "claimDepth" ELSE "testDepth"
  OBVIOUS
<1>3. PICK x : x = OnEdge(at, u, i, {})
  OBVIOUS
<1>4. /\ th.at = "readDepth" /\ thread' = [thread EXCEPT ![t] = x]
      /\ kernel' = kernel /\ graph' = graph /\ step' = step /\ todo' = todo /\ queue' = queue /\ buffer' = buffer
      /\ level' = level /\ depths' = depths /\ pathCounts' = pathCounts /\ succ' = succ
      /\ depthIndex' = depthIndex
  BY <1>1, <1>2, <1>3 DEF ReadDepth, Goes, queueVars, pathVars
<1>5. PathThread(th, A, L)
  BY <1>1, PathsParts
<1>6. IsCounting(th) /\ Counting(th, A, L) /\ u \in L /\ i \in DOMAIN graph.out[u]
  BY <1>1, <1>4, <1>5, AtEdgeFacts DEF EdgePlaces
<1>7. at \in EdgePlaces /\ at # "addPaths" /\ at \notin OnLevel /\ (at = "testDepth" => depths[v] # -1)
  BY <1>2 DEF EdgePlaces, OnLevel
<1>8. x.at = at /\ x.u = u /\ x.i = i
  BY <1>3, <1>7, OnEdgeFacts
<1>9. v \in Node
  BY <1>1, <1>6, EdgeTarget
<1>10. Counting(x, A, L)'
  <2>1. at = "testDepth" => v \in Found'
    BY <1>4, <1>7, <1>9 DEF Found
  <2> QED
    BY <1>1, <1>4, <1>6, <1>7, <1>8, <2>1 DEF Counting
<1> QED
  BY <1>1, <1>4, <1>6, <1>7, <1>8, <1>10, SameEdge

\* Reading the word of succ.
LEMMA ReadBitsStep ==
  ASSUME NEW s, NEW W, NEW C, NEW k, NEW A, NEW L, OnDepth(s, W, C, k, A, L),
         NEW f, NEW pos, PathsInv(W, C, k, f, pos), NEW t \in Threads, ReadBits(t)
  PROVE  PathsInv(W, C, k, f, pos)'
<1>1. PICK th, u, i, v : th = thread[t] /\ u = th.u /\ i = th.i /\ v = graph.out[u][i]
  OBVIOUS
<1>3. PICK x : x = OnEdge("swapBits", u, i, succ \cap Word(EdgeNumber(u, i)))
  OBVIOUS
<1>4. /\ th.at = "readBits" /\ thread' = [thread EXCEPT ![t] = x]
      /\ kernel' = kernel /\ graph' = graph /\ step' = step /\ todo' = todo /\ queue' = queue /\ buffer' = buffer
      /\ level' = level /\ depths' = depths /\ pathCounts' = pathCounts /\ succ' = succ
      /\ depthIndex' = depthIndex
  BY <1>1, <1>3 DEF ReadBits, Goes, queueVars, pathVars
<1>5. PathThread(th, A, L)
  BY <1>1, PathsParts
<1>6. IsCounting(th) /\ Counting(th, A, L) /\ u \in L /\ i \in DOMAIN graph.out[u]
  BY <1>1, <1>4, <1>5, AtEdgeFacts DEF EdgePlaces
<1>7. "swapBits" \in EdgePlaces
  BY DEF EdgePlaces
<1>8. x.at = "swapBits" /\ x.u = u /\ x.i = i
  BY <1>3, <1>7, OnEdgeFacts
<1>9. v \in Found /\ v \notin A
  BY <1>1, <1>4, <1>6 DEF Counting, OnLevel
<1>10. Counting(x, A, L)'
  <2>1. v \in Found'
    BY <1>4, <1>9 DEF Found
  <2> QED
    BY <1>1, <1>4, <1>6, <1>8, <1>9, <2>1 DEF Counting
<1> QED
  BY <1>1, <1>4, <1>6, <1>7, <1>8, <1>10, SameEdge

\* The thread is done with edge i of u.
LEMMA EdgeLeft ==
  ASSUME NEW s, NEW W, NEW C, NEW k, NEW A, NEW L, OnDepth(s, W, C, k, A, L),
         NEW f, NEW pos, PathsInv(W, C, k, f, pos), NEW t \in Threads,
         NEW th, th = thread[t], th.at \in EdgePlaces, NEW u, u = th.u, NEW i, i = th.i,
         graph.out[u][i] \in Found, NEW x, x = NextEdge(u, i + 1), thread' = [thread EXCEPT ![t] = x],
         kernel' = kernel, graph' = graph, step' = step, todo' = todo, queue' = queue, buffer' = buffer,
         level' = level, depths' = depths, depthIndex' = depthIndex,
         NEW p, PosAfter(L, pos, u, i, p), PathCounts(A, L, C, p)', PathBits(W, A, L, p)'
  PROVE  PathsInv(W, C, k, f, p)'
<1>1. /\ step = "paths" /\ level = k + 1
      /\ PathQueue(W, k, f) /\ PathTeam(A, L) /\ PosOK(L, f, pos) /\ PathDepths(W, k)
      /\ QueueOK(f, Found \ A) /\ DOMAIN thread = Threads /\ PathThread(th, A, L)
  BY PathsParts
<1>2. IsCounting(th) /\ Work(th) = th /\ ~Flushing(th) /\ u \in L /\ i \in DOMAIN graph.out[u]
  BY <1>1, AtEdgeFacts
<1>3. i \in Nat /\ i <= Len(graph.out[u]) /\ Len(graph.out[u]) \in Nat /\ i + 1 \in Nat
  BY <1>2, EdgeTarget
<1>4. /\ \/ x = Idle /\ ~IsCounting(x)
         \/ i + 1 <= Len(graph.out[u]) /\ IsCounting(x) /\ x.at = "readDepth" /\ x.u = u /\ x.i = i + 1
      /\ Work(x) = x /\ x # Joined /\ ~Flushing(x) /\ x.at # "joined"
      /\ x.at \in {"idle", "readDepth"}
  BY <1>3, NextEdgeFacts
<1>5. PathDepths(W, k)' /\ Found' = Found
  BY <1>1, DepthsKept
<1>6. PosOK(L, f, p)'
  <2>1. PICK w : w = Work(thread[t])
    OBVIOUS
  <2>2. IsCounting(w) /\ u = w.u /\ i = w.i
    BY <1>2, <2>1
  <2> QED
    <3>1. /\ PosOK(L, f, pos) /\ DOMAIN thread = Threads /\ u \in L /\ i \in Nat
          /\ i <= Len(graph.out[u]) /\ Len(graph.out[u]) \in Nat
      BY <1>1, <1>2, <1>3
    <3>2. PICK n : n = i + 1
      OBVIOUS
    <3> QED
      BY <2>1, <2>2, <3>1, <3>2, PosNext
<1>7. PathThread(x, A, L)'
  <2>1. CASE x = Idle /\ ~IsCounting(x)
    BY <1>4, <2>1 DEF PathThread, Idle, Joined
  <2>2. CASE i + 1 <= Len(graph.out[u]) /\ IsCounting(x) /\ x.at = "readDepth" /\ x.u = u /\ x.i = i + 1
    <3>1. i + 1 \in DOMAIN graph.out[u]
      <4>1. u \in Node /\ graph \in Graphs
        BY <1>2, OnDepthFacts DEF OnDepth
      <4>2. DOMAIN graph.out[u] = 1 .. Len(graph.out[u])
        BY <4>1, OutFacts
      <4> QED
        BY <1>3, <2>2, <4>2
    <3> QED
      BY <1>2, <1>4, <2>2, <3>1 DEF PathThread, Counting, OnLevel, EdgePlaces
  <2> QED
    BY <1>4, <2>1, <2>2
<1>8. PathTeam(A, L)'
  BY <1>1, <1>4, <1>5, <1>7, TeamKept
<1>10. PICK New : New = Found \ A
  OBVIOUS
<1>11. QueueOK(f, New)'
  BY <1>1, <1>2, <1>4, <1>10, QuietQueue
<1>12. QueueOK(f, Found \ W[k])'
  BY <1>5, <1>10, <1>11 DEF OnDepth
<1>13. PathQueue(W, k, f)'
  BY <1>1, <1>12, PathQueueKept DEF OnDepth
<1> QED
  BY <1>1, <1>5, <1>6, <1>8, <1>13, PathsParts

\* One more edge of u is done with.
LEMMA PosMore ==
  ASSUME NEW L, NEW pos \in [L -> Nat], NEW u \in L, NEW i \in Nat, pos[u] = i - 1,
         NEW p, PosAfter(L, pos, u, i, p)
  PROVE  /\ p \in [L -> Nat] /\ \A y \in L : y # u => p[y] = pos[y]
         /\ \A y \in L : \A j \in Nat : j <= pos[y] => j <= p[y]
         /\ \A y \in L : \A j \in Nat : j <= p[y] => j <= pos[y] \/ (y = u /\ j = i)
         /\ p[u] = i /\ ~(i <= pos[u])
<1>1. p \in [L -> Nat] /\ p[u] = i /\ \A y \in L : y # u => p[y] = pos[y]
  BY DEF PosAfter
<1>2. pos[u] \in Nat
  OBVIOUS
<1>3. \A j \in Nat : j <= i => j <= i - 1 \/ j = i
  OBVIOUS
<1>4. \A y \in L : \A j \in Nat : j <= p[y] => j <= pos[y] \/ (y = u /\ j = i)
  BY <1>1, <1>3
<1>5. \A j \in Nat : j <= i - 1 => j <= i
  OBVIOUS
<1>6. \A y \in L : \A j \in Nat : j <= pos[y] => j <= p[y]
  BY <1>1, <1>5
<1> QED
  BY <1>1, <1>4, <1>6

\* The marks, when the thread is done with its edge: one that leads to a
\* vertex found earlier, or one whose paths have been added.
LEMMA BitsLeft ==
  ASSUME graph \in Graphs, NEW W, NEW A, NEW L, L \subseteq Node, NEW pos \in [L -> Nat],
         PathBits(W, A, L, pos), DOMAIN thread = Threads,
         NEW t \in Threads, NEW x, thread' = [thread EXCEPT ![t] = x], graph' = graph, succ' = succ,
         NEW th, th = thread[t], Work(th) = th, NEW u \in L, u = th.u, NEW i \in Nat, i = th.i,
         pos[u] = i - 1, NEW p, PosAfter(L, pos, u, i, p), Work(x).at # "addPaths",
         graph.out[u][i] \in A \/ th.at = "addPaths"
  PROVE  PathBits(W, A, L, p)'
<1>1. /\ DOMAIN thread' = Threads /\ thread'[t] = x
      /\ \A s \in Threads : s # t => thread'[s] = thread[s]
  OBVIOUS
<1>2. \A y, j : Adding(y, j)' => Adding(y, j)
  <2>1. SUFFICES ASSUME NEW y, NEW j, NEW s \in Threads,
                        Work(thread'[s]).at = "addPaths", Work(thread'[s]).u = y, Work(thread'[s]).i = j
                 PROVE  Adding(y, j)
    BY DEF Adding, Work, Flushing
  <2>2. s # t
    BY <1>1, <2>1
  <2> QED
    BY <1>1, <2>1, <2>2 DEF Adding
<1>3. \A y, j : Adding(y, j) => Adding(y, j)' \/ (y = u /\ j = i)
  <2>1. SUFFICES ASSUME NEW y, NEW j, NEW s \in Threads,
                        Work(thread[s]).at = "addPaths", Work(thread[s]).u = y, Work(thread[s]).i = j
                 PROVE  Adding(y, j)' \/ (y = u /\ j = i)
    BY DEF Adding
  <2>2. CASE s = t
    BY <2>1, <2>2
  <2>3. CASE s # t
    <3>1. thread'[s] = thread[s]
      BY <1>1, <2>3
    <3> QED
      BY <2>1, <3>1 DEF Adding, Work, Flushing
  <2> QED
    BY <2>2, <2>3
<1>4. th.at = "addPaths" => Adding(u, i)
  BY DEF Adding
<1>5. /\ \A y \in L : \A j \in Nat : j <= pos[y] => j <= p[y]
      /\ \A y \in L : \A j \in Nat : j <= p[y] => j <= pos[y] \/ (y = u /\ j = i)
      /\ p[u] = i
  BY PosMore
<1>6. \A y, j : EdgeNumber(y, j)' = EdgeNumber(y, j) /\ GoesDown(W, y, j)' = GoesDown(W, y, j)
  BY DEF EdgeNumber, EdgesBefore, GoesDown, AtDepth
<1>7. ASSUME NEW y \in Node, NEW j \in DOMAIN graph.out[y]
      PROVE  Marked(W, A, L, p, y, j)' <=> Marked(W, A, L, pos, y, j)
  <2>1. j \in Nat
    BY OutFacts
  <2>2. CASE y \in L
    <3>1. graph.out[y][j] \notin A => ((j <= p[y] \/ Adding(y, j)') <=> (j <= pos[y] \/ Adding(y, j)))
      <4>1. SUFFICES ASSUME graph.out[y][j] \notin A
                     PROVE  (j <= p[y] \/ Adding(y, j)') <=> (j <= pos[y] \/ Adding(y, j))
        OBVIOUS
      <4>2. CASE y = u /\ j = i
        <5>1. Adding(y, j)
          BY <1>4, <4>1, <4>2
        <5>2. j <= p[y]
          BY <1>5, <4>2
        <5> QED
          BY <5>1, <5>2
      <4>3. CASE ~(y = u /\ j = i)
        <5>1. Adding(y, j)' <=> Adding(y, j)
          BY <1>2, <1>3, <4>3
        <5>2. j <= p[y] <=> j <= pos[y]
          BY <1>5, <2>1, <2>2, <4>3
        <5> QED
          BY <5>1, <5>2
      <4> QED
        BY <4>2, <4>3
    <3> QED
      BY <1>6, <2>2, <3>1 DEF Marked
  <2>3. CASE y \notin L
    BY <1>6, <2>3 DEF Marked
  <2> QED
    BY <2>2, <2>3
<1> QED
  BY <1>6, <1>7 DEF PathBits

\* The counts, when the edge leads to a vertex found earlier.
LEMMA CountsSkipped ==
  ASSUME graph \in Graphs, NEW A, NEW L, L \subseteq Node, NEW C, NEW pos \in [L -> Nat],
         PathCounts(A, L, C, pos),
         graph' = graph, pathCounts' = pathCounts, NEW u \in L, NEW i \in Nat,
         pos[u] = i - 1, NEW p, PosAfter(L, pos, u, i, p), graph.out[u][i] \in A
  PROVE  PathCounts(A, L, C, p)'
<1>1. /\ \A y \in L : \A j \in Nat : j <= pos[y] => j <= p[y]
      /\ \A y \in L : \A j \in Nat : j <= p[y] => j <= pos[y] \/ (y = u /\ j = i)
      /\ p \in [L -> Nat]
  BY PosMore
<1>2. ASSUME NEW v, v \notin A PROVE Counted(L, p, v)' = Counted(L, pos, v)
  <2>1. ASSUME NEW y \in L PROVE (\E j \in 1 .. p[y] : graph.out[y][j] = v) <=> (\E j \in 1 .. pos[y] : graph.out[y][j] = v)
    <3>1. ASSUME NEW j \in 1 .. p[y], graph.out[y][j] = v PROVE j \in 1 .. pos[y]
      <4>1. ~(y = u /\ j = i)
        BY <1>2, <3>1
      <4>2. j \in Nat /\ j <= p[y] /\ 1 <= j /\ pos[y] \in Nat
        BY <1>1
      <4>3. j <= pos[y]
        BY <1>1, <4>1, <4>2
      <4> QED
        BY <4>2, <4>3
    <3>2. ASSUME NEW j \in 1 .. pos[y] PROVE j \in 1 .. p[y]
      <4>1. j \in Nat /\ j <= pos[y] /\ 1 <= j /\ p[y] \in Nat
        BY <1>1
      <4>2. j <= p[y]
        BY <1>1, <4>1
      <4> QED
        BY <4>1, <4>2
    <3> QED
      BY <3>1, <3>2
  <2> QED
    BY <2>1 DEF Counted
<1> QED
  BY <1>2 DEF PathCounts

\* The counts, when those of u have been added to the target v.
LEMMA CountsAdded ==
  ASSUME graph \in Graphs, NEW A, NEW L, L \subseteq Node, L \subseteq A, A \subseteq Node,
         NEW C, \A y \in A : C[y] \in Nat,
         NEW pos \in [L -> Nat], PathCounts(A, L, C, pos), pathCounts \in [Node -> Nat],
         graph' = graph, NEW u \in L, NEW i \in Nat, i \in DOMAIN graph.out[u], pos[u] = i - 1,
         NEW p, PosAfter(L, pos, u, i, p), NEW v \in Node \ A, graph.out[u][i] = v,
         pathCounts' = [pathCounts EXCEPT ![v] = @ + pathCounts[u]]
  PROVE  PathCounts(A, L, C, p)'
<1>0. i \in Nat /\ i >= 1 /\ u \in Node /\ IsInjective(graph.out[u]) /\ v \notin A /\ v \in Node
      /\ Len(graph.out[u]) \in Nat /\ DOMAIN graph.out[u] = 1 .. Len(graph.out[u])
  <2>1. u \in Node
    OBVIOUS
  <2>2. /\ Len(graph.out[u]) \in Nat /\ DOMAIN graph.out[u] = 1 .. Len(graph.out[u])
        /\ IsInjective(graph.out[u])
    BY <2>1, OutFacts
  <2> QED
    BY <2>1, <2>2
<1>1. /\ \A y \in L : \A j \in Nat : j <= pos[y] => j <= p[y]
      /\ \A y \in L : \A j \in Nat : j <= p[y] => j <= pos[y] \/ (y = u /\ j = i)
      /\ p \in [L -> Nat] /\ p[u] = i
  BY PosMore
<1>2. \A y \in L : pos[y] \in Nat /\ p[y] \in Nat
  BY <1>1
<1>3. \A y \in L : \A j : j \in 1 .. p[y] <=> j \in 1 .. pos[y] \/ (y = u /\ j = i)
  <2> SUFFICES ASSUME NEW y \in L, NEW j PROVE j \in 1 .. p[y] <=> j \in 1 .. pos[y] \/ (y = u /\ j = i)
    OBVIOUS
  <2>1. ASSUME j \in 1 .. p[y] PROVE j \in 1 .. pos[y] \/ (y = u /\ j = i)
    <3>1. j \in Nat /\ j <= p[y] /\ 1 <= j
      BY <1>2, <2>1
    <3>2. j <= pos[y] \/ (y = u /\ j = i)
      BY <1>1, <3>1
    <3> QED
      BY <1>2, <3>1, <3>2
  <2>2. ASSUME j \in 1 .. pos[y] PROVE j \in 1 .. p[y]
    <3>1. j \in Nat /\ j <= pos[y] /\ 1 <= j
      BY <1>2, <2>2
    <3>2. j <= p[y]
      BY <1>1, <3>1
    <3> QED
      BY <1>2, <3>1, <3>2
  <2>3. ASSUME y = u, j = i PROVE j \in 1 .. p[y]
    BY <1>0, <1>1, <2>3
  <2> QED
    BY <2>1, <2>2, <2>3
<1>4. \A y : y # v => Counted(L, p, y)' = Counted(L, pos, y)
  BY <1>3 DEF Counted
<1>5. Counted(L, p, v)' = Counted(L, pos, v) \cup {u}
  BY <1>3 DEF Counted
<1>6. u \notin Counted(L, pos, v)
  <2>1. SUFFICES ASSUME NEW j \in 1 .. pos[u], graph.out[u][j] = v PROVE FALSE
    BY DEF Counted
  <2>2. j \in DOMAIN graph.out[u] /\ j # i
    <3>1. j \in Nat /\ 1 <= j /\ j <= i - 1
      BY <1>2
    <3>2. i <= Len(graph.out[u])
      BY <1>0
    <3> QED
      BY <1>0, <3>1, <3>2
  <2> QED
    BY <1>0, <2>1, <2>2 DEF IsInjective
<1>7. PICK S : S = Counted(L, pos, v)
  OBVIOUS
<1>8. S \subseteq L /\ IsFiniteSet(S) /\ IsFiniteSet(S \cup {u}) /\ u \notin S
  <2>1. S \subseteq L
    BY <1>7 DEF Counted
  <2>2. S \subseteq Node /\ S \cup {u} \subseteq Node
    BY <2>1
  <2> QED
    BY <1>6, <1>7, <2>1, <2>2, NodeFacts, FS_Subset
<1>9. SumFunctionOnSet(C, S \cup {u}) = C[u] + SumFunctionOnSet(C, S) /\ SumFunctionOnSet(C, S) \in Int
  <2>1. PICK T : T = S \cup {u}
    OBVIOUS
  <2>2. T \ {u} = S /\ u \in T /\ IsFiniteSet(T)
    BY <1>8, <2>1
  <2>3. \A y \in T : C[y] \in Int
    BY <1>8, <2>1
  <2>4. \A y \in S : C[y] \in Int
    BY <1>8
  <2>5. SumFunctionOnSet(C, T) = C[u] + SumFunctionOnSet(C, T \ {u})
    BY <2>2, <2>3, SumSplit
  <2>6. SumFunctionOnSet(C, S) \in Int
    BY <1>8, <2>4, SumSplit
  <2> QED
    BY <2>1, <2>2, <2>5, <2>6
<1>10. /\ pathCounts'[v] = pathCounts[v] + pathCounts[u] /\ pathCounts[u] = C[u]
       /\ pathCounts[v] = SumFunctionOnSet(C, S) /\ C[u] \in Nat
       /\ \A y \in Node : y # v => pathCounts'[y] = pathCounts[y]
  <2>1. pathCounts[u] = C[u] /\ C[u] \in Nat
    BY <1>0 DEF PathCounts
  <2>2. pathCounts[v] = SumFunctionOnSet(C, S)
    BY <1>0, <1>7 DEF PathCounts
  <2> QED
    BY <1>0, <2>1, <2>2
<1>11. pathCounts'[v] = SumFunctionOnSet(C, S \cup {u})
  BY <1>9, <1>10
<1>12. \A y \in A : pathCounts'[y] = C[y]
  BY <1>0, <1>10 DEF PathCounts
<1>13. \A y \in Node \ A : pathCounts'[y] = SumFunctionOnSet(C, Counted(L, p, y)')
  <2> SUFFICES ASSUME NEW y \in Node \ A PROVE pathCounts'[y] = SumFunctionOnSet(C, Counted(L, p, y)')
    OBVIOUS
  <2>1. CASE y = v
    BY <1>5, <1>7, <1>11, <2>1
  <2>2. CASE y # v
    <3>1. pathCounts'[y] = pathCounts[y] /\ Counted(L, p, y)' = Counted(L, pos, y)
      BY <1>4, <1>10, <2>2
    <3> QED
      BY <3>1 DEF PathCounts
  <2> QED
    BY <2>1, <2>2
<1> QED
  BY <1>12, <1>13 DEF PathCounts

-----------------------------------------------------------------------------
(* The other steps of the search                                           *)

\* The test whether the target is on the next level: if not, the edge is
\* done with.
LEMMA TestDepthStep ==
  ASSUME NEW s, NEW W, NEW C, NEW k, NEW A, NEW L, OnDepth(s, W, C, k, A, L),
         NEW f, NEW pos, PathsInv(W, C, k, f, pos), NEW t \in Threads, TestDepth(t)
  PROVE  \E p : PathsInv(W, C, k, f, p)'
<1>1. PICK th, u, i, v : th = thread[t] /\ u = th.u /\ i = th.i /\ v = graph.out[u][i]
  OBVIOUS
<1>3. PICK x : x = IF depths[v] = level THEN OnEdge("readBits", u, i, {}) ELSE NextEdge(u, i + 1)
  OBVIOUS
<1>4. /\ th.at = "testDepth" /\ thread' = [thread EXCEPT ![t] = x]
      /\ kernel' = kernel /\ graph' = graph /\ step' = step /\ todo' = todo /\ queue' = queue /\ buffer' = buffer
      /\ level' = level /\ depths' = depths /\ pathCounts' = pathCounts /\ succ' = succ
      /\ depthIndex' = depthIndex
  BY <1>1, <1>3 DEF TestDepth, Goes, queueVars, pathVars
<1>5. /\ PathThread(th, A, L) /\ level = k + 1 /\ PathDepths(W, k) /\ PosOK(L, f, pos)
      /\ PathCounts(A, L, C, pos) /\ PathBits(W, A, L, pos) /\ DOMAIN thread = Threads
  BY <1>1, PathsParts
<1>6. /\ IsCounting(th) /\ Work(th) = th /\ Counting(th, A, L) /\ u \in L /\ i \in DOMAIN graph.out[u]
      /\ v \in Found
  BY <1>1, <1>4, <1>5, AtEdgeFacts DEF EdgePlaces, Counting
<1>7. v \in Node /\ i \in Nat /\ Len(graph.out[u]) \in Nat
  BY <1>1, <1>6, EdgeTarget
<1>8. (v \in A => depths[v] # level) /\ (v \notin A => depths[v] = level)
  <2>1. k \in Nat
    BY OnDepthFacts
  <2> QED
    BY <1>5, <1>6, <1>7, <2>1, KnownDepths
<1>9. CASE v \notin A
  <2>1. "readBits" \in EdgePlaces
    BY DEF EdgePlaces
  <2>2. x.at = "readBits" /\ x.u = u /\ x.i = i
    BY <1>3, <1>8, <1>9, <2>1, OnEdgeFacts
  <2>3. Counting(x, A, L)'
    <3>1. v \in Found'
      BY <1>4, <1>6 DEF Found
    <3> QED
      BY <1>1, <1>4, <1>6, <1>9, <2>2, <3>1 DEF Counting
  <2>4. PathsInv(W, C, k, f, pos)'
    BY <1>1, <1>4, <1>6, <2>1, <2>2, <2>3, SameEdge
  <2> QED
    BY <2>4
<1>10. CASE v \in A
  <2>1. x = NextEdge(u, i + 1)
    BY <1>3, <1>8, <1>10
  <2>2. pos \in [L -> Nat] /\ pos[u] = i - 1
    BY <1>1, <1>5, <1>6, PosHere
  <2>3. PICK p : PosAfter(L, pos, u, i, p)
    BY <1>7, <2>2 DEF PosAfter
  <2>4. L \subseteq Node /\ graph \in Graphs
    BY OnDepthFacts DEF OnDepth
  <2>5. PathCounts(A, L, C, p)'
    BY <1>1, <1>4, <1>5, <1>6, <1>7, <1>10, <2>2, <2>3, <2>4, CountsSkipped
  <2>6. Work(x).at # "addPaths"
    <3>1. PICK n \in Nat : n = i + 1
      BY <1>7
    <3> QED
      BY <1>7, <2>1, <3>1, NextEdgeFacts
  <2>7. PathBits(W, A, L, p)'
    BY <1>1, <1>4, <1>5, <1>6, <1>7, <1>10, <2>2, <2>3, <2>4, <2>6, BitsLeft
  <2>8. PathsInv(W, C, k, f, p)'
    BY <1>1, <1>4, <1>6, <2>1, <2>3, <2>5, <2>7, EdgeLeft DEF EdgePlaces
  <2> QED
    BY <2>8
<1> QED
  BY <1>9, <1>10

\* The paths are added: the edge is done with.
LEMMA AddPathsStep ==
  ASSUME NEW s, NEW W, NEW C, NEW k, NEW A, NEW L, OnDepth(s, W, C, k, A, L),
         NEW f, NEW pos, PathsInv(W, C, k, f, pos), NEW t \in Threads, AddPaths(t)
  PROVE  \E p : PathsInv(W, C, k, f, p)'
<1>1. PICK th, u, i, v : th = thread[t] /\ u = th.u /\ i = th.i /\ v = graph.out[u][i]
  OBVIOUS
<1>3. PICK x : x = NextEdge(u, i + 1)
  OBVIOUS
<1>4. /\ th.at = "addPaths" /\ thread' = [thread EXCEPT ![t] = x]
      /\ kernel' = kernel /\ graph' = graph /\ step' = step /\ todo' = todo /\ queue' = queue /\ buffer' = buffer
      /\ level' = level /\ depths' = depths /\ succ' = succ
      /\ depthIndex' = depthIndex
      /\ pathCounts' = [pathCounts EXCEPT ![v] = @ + pathCounts[u]]
  BY <1>1, <1>3 DEF AddPaths, Goes, queueVars
<1>5. /\ PathThread(th, A, L) /\ PosOK(L, f, pos)
      /\ PathCounts(A, L, C, pos) /\ PathBits(W, A, L, pos) /\ DOMAIN thread = Threads
  BY <1>1, PathsParts
<1>6. /\ IsCounting(th) /\ Work(th) = th /\ Counting(th, A, L) /\ u \in L /\ i \in DOMAIN graph.out[u]
      /\ v \in Found /\ v \notin A
  BY <1>1, <1>4, <1>5, AtEdgeFacts DEF EdgePlaces, Counting, OnLevel
<1>7. v \in Node /\ i \in Nat /\ Len(graph.out[u]) \in Nat
  BY <1>1, <1>6, EdgeTarget
<1>8. pos \in [L -> Nat] /\ pos[u] = i - 1
  BY <1>1, <1>5, <1>6, PosHere
<1>9. PICK p : PosAfter(L, pos, u, i, p)
  BY <1>7, <1>8 DEF PosAfter
<1>10. /\ L \subseteq Node /\ L \subseteq A /\ A \subseteq Node /\ graph \in Graphs
       /\ pathCounts \in [Node -> Nat]
  BY OnDepthFacts DEF OnDepth
<1>11. \A y \in A : C[y] \in Nat
  BY OnDepthFacts DEF IsPaths
<1>12. PathCounts(A, L, C, p)'
  <2>1. v \in Node \ A
    BY <1>6, <1>7
  <2> QED
    BY <1>1, <1>4, <1>5, <1>6, <1>7, <1>8, <1>9, <1>10, <1>11, <2>1, CountsAdded
<1>13. Work(x).at # "addPaths"
  <2>1. PICK n \in Nat : n = i + 1
    BY <1>7
  <2> QED
    BY <1>3, <1>7, <2>1, NextEdgeFacts
<1>14. PathBits(W, A, L, p)'
  BY <1>1, <1>4, <1>5, <1>6, <1>7, <1>8, <1>9, <1>10, <1>13, BitsLeft
<1>15. PathsInv(W, C, k, f, p)'
  BY <1>1, <1>3, <1>4, <1>6, <1>9, <1>12, <1>14, EdgeLeft DEF EdgePlaces
<1> QED
  BY <1>15

\* A vertex of the level is taken.
LEMMA TakePathStep ==
  ASSUME NEW s, NEW W, NEW C, NEW k, NEW A, NEW L, OnDepth(s, W, C, k, A, L),
         NEW f, NEW pos, PathsInv(W, C, k, f, pos), NEW t \in Threads,
         NEW i \in todo, TakePathVertex(t, i)
  PROVE  PathsInv(W, C, k, f, pos)'
<1>1. PICK u, x : u = queue.shared[i] /\ x = NextEdge(u, 1)
  OBVIOUS
<1>2. /\ thread[t] = Idle /\ todo' = todo \ {i} /\ thread' = [thread EXCEPT ![t] = x]
      /\ kernel' = kernel /\ graph' = graph /\ step' = step /\ queue' = queue /\ buffer' = buffer
      /\ level' = level /\ depths' = depths /\ pathCounts' = pathCounts /\ succ' = succ
      /\ depthIndex' = depthIndex
  BY <1>1 DEF TakePathVertex, Take, queueVars, pathVars
<1>3. /\ step = "paths" /\ level = k + 1
      /\ PathQueue(W, k, f) /\ PathTeam(A, L) /\ PosOK(L, f, pos) /\ PathDepths(W, k)
      /\ PathCounts(A, L, C, pos) /\ PathBits(W, A, L, pos)
      /\ QueueOK(f, Found \ A) /\ InPlace(f, L)
      /\ todo \subseteq Window(queue) /\ DOMAIN thread = Threads
  BY PathsParts
<1>4. QueueType(queue) /\ IsInjective(f) /\ DOMAIN f = 0 .. queue.in - 1
  BY <1>3 DEF QueueOK
<1>5. \A j \in todo : j \in queue.start .. queue.end - 1 /\ j \in 0 .. queue.end - 1 /\ j \in DOMAIN f
  BY <1>3, <1>4 DEF Window, QueueType
<1>6. u = f[i] /\ u \in L
  <2>1. u = f[i]
    BY <1>1, <1>3, <1>5, SharedReads
  <2> QED
    BY <1>3, <1>5, <2>1 DEF InPlace
<1>7. \A j \in todo : f[j] = u => j = i
  BY <1>4, <1>5, <1>6 DEF IsInjective
<1>8. u \in Node /\ graph \in Graphs /\ Len(graph.out[u]) \in Nat
  <2>1. u \in Node /\ graph \in Graphs
    BY <1>6, OnDepthFacts DEF OnDepth
  <2> QED
    BY <2>1, OutFacts
<1>9. /\ \/ x = Idle
         \/ 1 <= Len(graph.out[u]) /\ IsCounting(x) /\ x.at = "readDepth" /\ x.u = u /\ x.i = 1
      /\ Work(x) = x /\ x # Joined /\ ~Flushing(x) /\ x.at # "joined" /\ x.at # "addPaths"
  BY <1>1, <1>8, NextEdgeFacts
<1>10. /\ Work(thread[t]) = Idle /\ ~IsCounting(Work(thread[t])) /\ ~Flushing(thread[t])
       /\ Work(thread[t]).at # "addPaths"
  BY <1>2 DEF Work, Flushing, Idle, IsCounting, EdgePlaces
<1>11. PosOK(L, f, pos)'
  <2>1. /\ PosOK(L, f, pos) /\ DOMAIN thread = Threads
        /\ thread' = [thread EXCEPT ![t] = x] /\ graph' = graph /\ depths' = depths
        /\ todo' = todo \ {i} /\ u \in L /\ u = f[i]
    BY <1>2, <1>3, <1>6
  <2>2. /\ ~IsCounting(Work(thread[t])) /\ Len(graph.out[u]) \in Nat /\ x = NextEdge(u, 1)
        /\ \A j \in todo : f[j] = u => j = i
    BY <1>1, <1>7, <1>8, <1>10
  <2>3. PICK e : e = 1
    OBVIOUS
  <2>4. x = NextEdge(u, e)
    BY <2>2, <2>3
  <2> QED
    BY <2>1, <2>2, <2>3, <2>4, PosTaken
<1>12. PathDepths(W, k)' /\ Found' = Found
  BY <1>2, <1>3, DepthsKept
<1>13. PathCounts(A, L, C, pos)'
  BY <1>2, <1>3, CountsKept
<1>14. PathBits(W, A, L, pos)'
  BY <1>2, <1>3, <1>9, <1>10, BitsKept
<1>15. PathThread(x, A, L)'
  <2>1. CASE x = Idle
    BY <2>1 DEF PathThread, Idle, Joined, Work, Flushing, IsCounting, EdgePlaces
  <2>2. CASE 1 <= Len(graph.out[u]) /\ IsCounting(x) /\ x.at = "readDepth" /\ x.u = u /\ x.i = 1
    <3>1. 1 \in DOMAIN graph.out[u]
      BY <1>8, <2>2, OutFacts
    <3> QED
      BY <1>2, <1>6, <1>9, <2>2, <3>1 DEF PathThread, Counting, OnLevel, EdgePlaces
  <2> QED
    BY <1>9, <2>1, <2>2
<1>16. PathTeam(A, L)'
  <2>1. todo' \subseteq todo
    BY <1>2
  <2> QED
    BY <1>2, <1>3, <1>9, <1>12, <1>15, <2>1, TeamKept
<1>17. PICK New : New = Found \ A
  OBVIOUS
<1>18. QueueOK(f, New)'
  BY <1>2, <1>3, <1>9, <1>10, <1>17, QuietQueue
<1>19. QueueOK(f, Found \ W[k])'
  BY <1>12, <1>17, <1>18 DEF OnDepth
<1>20. PathQueue(W, k, f)'
  BY <1>2, <1>3, <1>19, PathQueueKept DEF OnDepth
<1> QED
  BY <1>2, <1>3, <1>11, <1>12, <1>13, <1>14, <1>16, <1>20, PathsParts

\* The marks, when a thread sets the bit of its edge.
LEMMA BitSet ==
  ASSUME graph \in Graphs, NEW W, NEW A, NEW L, L \subseteq Node, NEW pos,
         PathBits(W, A, L, pos), DOMAIN thread = Threads,
         NEW t \in Threads, NEW x, thread' = [thread EXCEPT ![t] = x], graph' = graph,
         NEW th, th = thread[t], Work(th) = th, th.at = "swapBits", NEW u \in L, u = th.u, NEW i, i = th.i,
         i \in DOMAIN graph.out[u], graph.out[u][i] \notin A,
         Work(x) = x, x.at = "addPaths", x.u = u, x.i = i,
         succ' = succ \cup {EdgeNumber(u, i)}
  PROVE  PathBits(W, A, L, pos)'
<1>1. /\ DOMAIN thread' = Threads /\ thread'[t] = x
      /\ \A r \in Threads : r # t => thread'[r] = thread[r]
  OBVIOUS
<1>2. \A y, j : Adding(y, j) => Adding(y, j)'
  <2>1. SUFFICES ASSUME NEW y, NEW j, NEW r \in Threads,
                        Work(thread[r]).at = "addPaths", Work(thread[r]).u = y, Work(thread[r]).i = j
                 PROVE  Adding(y, j)'
    BY DEF Adding
  <2>2. r # t
    BY <2>1
  <2>3. thread'[r] = thread[r]
    BY <1>1, <2>2
  <2> QED
    BY <2>1, <2>3 DEF Adding, Work, Flushing
<1>3. \A y, j : Adding(y, j)' => Adding(y, j) \/ (y = u /\ j = i)
  <2>1. SUFFICES ASSUME NEW y, NEW j, NEW r \in Threads,
                        Work(thread'[r]).at = "addPaths", Work(thread'[r]).u = y, Work(thread'[r]).i = j
                 PROVE  Adding(y, j) \/ (y = u /\ j = i)
    BY DEF Adding, Work, Flushing
  <2>2. CASE r = t
    BY <1>1, <2>1, <2>2
  <2>3. CASE r # t
    BY <1>1, <2>1, <2>3 DEF Adding
  <2> QED
    BY <2>2, <2>3
<1>4. Adding(u, i)'
  <2>1. Work(thread'[t]) = x
    BY <1>1
  <2> QED
    BY <2>1 DEF Adding, Work, Flushing
<1>5. \A y, j : EdgeNumber(y, j)' = EdgeNumber(y, j) /\ GoesDown(W, y, j)' = GoesDown(W, y, j)
  BY DEF EdgeNumber, EdgesBefore, GoesDown, AtDepth
<1>6. ASSUME NEW y \in Node, NEW j \in DOMAIN graph.out[y]
      PROVE  EdgeNumber(y, j) \in succ' <=> Marked(W, A, L, pos, y, j)'
  <2>1. CASE y = u /\ j = i
    <3>1. EdgeNumber(y, j) \in succ'
      BY <2>1
    <3>2. Marked(W, A, L, pos, y, j)'
      BY <1>4, <2>1 DEF Marked
    <3> QED
      BY <3>1, <3>2
  <2>2. CASE ~(y = u /\ j = i)
    <3>1. EdgeNumber(y, j) # EdgeNumber(u, i)
      BY <2>2, EdgeNumbersDiffer
    <3>2. EdgeNumber(y, j) \in succ' <=> Marked(W, A, L, pos, y, j)
      BY <3>1 DEF PathBits
    <3>3. Adding(y, j)' <=> Adding(y, j)
      BY <1>2, <1>3, <2>2
    <3>4. Marked(W, A, L, pos, y, j)' <=> Marked(W, A, L, pos, y, j)
      BY <1>5, <3>3 DEF Marked
    <3> QED
      BY <3>2, <3>4
  <2> QED
    BY <2>1, <2>2
<1> QED
  BY <1>5, <1>6 DEF PathBits

\* The compare-and-swap on the word of succ.
LEMMA SwapBitsStep ==
  ASSUME NEW s, NEW W, NEW C, NEW k, NEW A, NEW L, OnDepth(s, W, C, k, A, L),
         NEW f, NEW pos, PathsInv(W, C, k, f, pos), NEW t \in Threads, SwapBits(t)
  PROVE  PathsInv(W, C, k, f, pos)'
<1>1. PICK th, u, i, v : th = thread[t] /\ u = th.u /\ i = th.i /\ v = graph.out[u][i]
  OBVIOUS
<1>4. /\ th.at = "swapBits"
      /\ kernel' = kernel /\ graph' = graph /\ step' = step /\ todo' = todo /\ queue' = queue /\ buffer' = buffer
      /\ level' = level /\ depths' = depths /\ pathCounts' = pathCounts
      /\ depthIndex' = depthIndex
  BY <1>1 DEF SwapBits, Goes, queueVars
<1>5. PathThread(th, A, L) /\ PathBits(W, A, L, pos) /\ DOMAIN thread = Threads
  BY <1>1, PathsParts
<1>6. /\ IsCounting(th) /\ Work(th) = th /\ Counting(th, A, L) /\ u \in L /\ i \in DOMAIN graph.out[u]
      /\ v \in Found /\ v \notin A
  BY <1>1, <1>4, <1>5, AtEdgeFacts DEF EdgePlaces, Counting, OnLevel
<1>7. v \in Found' /\ L \subseteq Node /\ graph \in Graphs
  BY <1>4, <1>6, OnDepthFacts DEF Found, OnDepth
<1>8. "addPaths" \in EdgePlaces /\ "readBits" \in EdgePlaces
  BY DEF EdgePlaces
<1>9. CASE succ \cap Word(EdgeNumber(u, i)) = th.word
  <2>1. PICK x : x = OnEdge("addPaths", u, i, {})
    OBVIOUS
  <2>2. thread' = [thread EXCEPT ![t] = x] /\ succ' = succ \cup {EdgeNumber(u, i)}
    BY <1>1, <1>9, <2>1 DEF SwapBits, Goes
  <2>3. x.at = "addPaths" /\ x.u = u /\ x.i = i /\ Work(x) = x
    BY <1>8, <2>1, OnEdgeFacts
  <2>4. PathBits(W, A, L, pos)'
    BY <1>1, <1>4, <1>5, <1>6, <1>7, <2>2, <2>3, BitSet
  <2>5. Counting(x, A, L)'
    BY <1>1, <1>4, <1>6, <1>7, <2>3 DEF Counting
  <2> QED
    BY <1>1, <1>4, <1>6, <1>8, <2>2, <2>3, <2>4, <2>5, EdgeStays
<1>10. CASE succ \cap Word(EdgeNumber(u, i)) # th.word
  <2>1. PICK x : x = OnEdge("readBits", u, i, {})
    OBVIOUS
  <2>2. thread' = [thread EXCEPT ![t] = x] /\ succ' = succ
    BY <1>1, <1>10, <2>1 DEF SwapBits, Goes
  <2>3. x.at = "readBits" /\ x.u = u /\ x.i = i
    BY <1>8, <2>1, OnEdgeFacts
  <2>4. Counting(x, A, L)'
    BY <1>1, <1>4, <1>6, <1>7, <2>3 DEF Counting
  <2> QED
    BY <1>1, <1>4, <1>6, <1>8, <2>2, <2>3, <2>4, SameEdge
<1> QED
  BY <1>9, <1>10

\* The depths, when a vertex of the next level is found.
LEMMA DepthSet ==
  ASSUME NEW s, NEW W, NEW C, NEW k, NEW A, NEW L, OnDepth(s, W, C, k, A, L), PathDepths(W, k),
         NEW v \in Node, v \notin A, v \in W[Deeper(k)], level = k + 1,
         depths' = [depths EXCEPT ![v] = level]
  PROVE  PathDepths(W, k)' /\ Found' = Found \cup {v}
<1>1. /\ k \in Nat /\ A = W[k] /\ depths \in [Node -> -1 .. N] /\ IsWithin(s, W)
      /\ k \in 0 .. N
  BY OnDepthFacts DEF OnDepth
<1>2. depths'[v] = k + 1 /\ \A y \in Node : y # v => depths'[y] = depths[y]
  BY <1>1
<1>3. k + 1 # -1
  BY <1>1
<1>4. Found' = Found \cup {v}
  BY <1>2, <1>3 DEF Found
<1>5. Found' \subseteq W[Deeper(k)]
  BY <1>4 DEF PathDepths
<1>6. ASSUME NEW j \in 0 .. k, NEW y \in AtDepth(W, j) PROVE depths'[y] = j
  <2>1. j \in 0 .. N /\ j <= k
    BY <1>1, NodeFacts
  <2>2. y \in W[j]
    BY DEF AtDepth
  <2>3. y \in A
    BY <1>1, <2>1, <2>2, WithinGrows
  <2>4. y \in Node
    BY <2>3, OnDepthFacts
  <2>5. y # v
    BY <2>3
  <2> QED
    BY <1>2, <2>4, <2>5 DEF PathDepths
<1>7. \A y \in Node \ W[k] : depths'[y] \in {-1, k + 1}
  BY <1>2 DEF PathDepths
<1> QED
  BY <1>4, <1>5, <1>6, <1>7 DEF PathDepths, AtDepth

\* The compare-and-swap on the depth: one thread finds the vertex.
LEMMA ClaimDepthStep ==
  ASSUME NEW s, NEW W, NEW C, NEW k, NEW A, NEW L, OnDepth(s, W, C, k, A, L),
         NEW f, NEW pos, PathsInv(W, C, k, f, pos), NEW t \in Threads, ClaimDepth(t)
  PROVE  PathsInv(W, C, k, f, pos)'
<1>1. PICK th, u, i, v : th = thread[t] /\ u = th.u /\ i = th.i /\ v = graph.out[u][i]
  OBVIOUS
<1>2. PICK next : next = OnEdge("testDepth", u, i, {})
  OBVIOUS
<1>3. "testDepth" \in EdgePlaces
  BY DEF EdgePlaces
<1>4. /\ next.at = "testDepth" /\ next.u = u /\ next.i = i /\ IsCounting(next)
      /\ Work(next) = next /\ next # Joined /\ ~Flushing(next) /\ next.at # "joined"
  BY <1>2, <1>3, OnEdgeFacts
<1>5. /\ th.at = "claimDepth"
      /\ kernel' = kernel /\ graph' = graph /\ step' = step /\ todo' = todo /\ queue' = queue
      /\ level' = level /\ pathCounts' = pathCounts /\ succ' = succ
      /\ depthIndex' = depthIndex
  BY <1>1 DEF ClaimDepth, Goes, BufferPush
<1>6. /\ step = "paths" /\ level = k + 1
      /\ PathQueue(W, k, f) /\ PathTeam(A, L) /\ PosOK(L, f, pos) /\ PathDepths(W, k)
      /\ PathCounts(A, L, C, pos) /\ PathBits(W, A, L, pos)
      /\ QueueOK(f, Found \ A) /\ Old(f) \subseteq A /\ DOMAIN thread = Threads
      /\ PathThread(th, A, L)
  BY <1>1, PathsParts
<1>7. /\ IsCounting(th) /\ Work(th) = th /\ ~Flushing(th) /\ u \in L /\ i \in DOMAIN graph.out[u]
  BY <1>1, <1>3, <1>5, <1>6, AtEdgeFacts DEF EdgePlaces
<1>8. v \in Node /\ v \in W[Deeper(k)]
  BY <1>1, <1>7, EdgeTarget
<1>9. CASE depths[v] = -1
  <2>1. v \notin A /\ v \notin Found
    BY <1>6, <1>8, <1>9, KnownDepths DEF Found
  <2>2. depths' = [depths EXCEPT ![v] = level] /\ BufferPush(t, v, next)
    BY <1>1, <1>2, <1>9 DEF ClaimDepth
  <2>3. PathDepths(W, k)' /\ Found' = Found \cup {v}
    BY <1>6, <1>8, <2>1, <2>2, DepthSet
  <2>4. PICK New : New = Found \ A
    OBVIOUS
  <2>5. QueueOK(f, New \cup {v})'
    <3>1. QueueOK(f, New) /\ v \notin New /\ v \notin Old(f) /\ ~Flushing(thread[t])
      BY <1>1, <1>6, <1>7, <2>1, <2>4
    <3> QED
      BY <1>4, <1>5, <1>6, <1>8, <2>2, <3>1, PushedQueue
  <2>6. QueueOK(f, Found \ W[k])'
    <3>1. New \cup {v} = Found' \ W[k]
      BY <2>1, <2>3, <2>4 DEF OnDepth
    <3> QED
      BY <2>5, <3>1
  <2>7. PICK x : /\ x = next \/ (x.at = "reserve" /\ x.next = next)
                 /\ thread' = [thread EXCEPT ![t] = x]
    <3>1. PICK y : y = [at |-> "reserve", held |-> <<v>>, next |-> next]
      OBVIOUS
    <3>2. y.at = "reserve" /\ y.next = next
      BY <3>1
    <3>3. thread' = [thread EXCEPT ![t] = y] \/ thread' = [thread EXCEPT ![t] = next]
      BY <2>2, <3>1 DEF BufferPush, Goes
    <3> QED
      BY <3>2, <3>3
  <2>8. Work(x) = next /\ (x # next => Flushing(x))
    BY <1>4, <2>7 DEF Work, Flushing
  <2>9. Counting(next, A, L)'
    <3>1. v \in Found'
      BY <2>3
    <3> QED
      BY <1>1, <1>4, <1>5, <1>7, <3>1 DEF Counting, OnLevel
  <2>10. PathThread(x, A, L)'
    <3>1. CASE x = next
      BY <1>4, <2>9, <3>1 DEF PathThread, EdgePlaces
    <3>2. CASE x # next
      BY <1>4, <2>7, <2>8, <2>9, <3>2 DEF PathThread
    <3> QED
      BY <3>1, <3>2
  <2>11. PathTeam(A, L)'
    <3>1. Found \subseteq Found' /\ todo' \subseteq todo
      BY <1>5, <2>3
    <3> QED
      BY <1>4, <1>5, <1>6, <2>7, <2>8, <2>10, <3>1, TeamKept
  <2>12. PosOK(L, f, pos)'
    <3>1. PICK w, y : w = Work(thread[t]) /\ y = Work(x)
      OBVIOUS
    <3>2. IsCounting(w) /\ IsCounting(y) /\ y.u = w.u /\ y.i = w.i
      BY <1>1, <1>4, <1>7, <2>8, <3>1
    <3>3. Found \subseteq Found'
      BY <2>3
    <3> QED
      BY <1>5, <1>6, <2>7, <3>1, <3>2, <3>3, PosKept
  <2>13. PathCounts(A, L, C, pos)'
    BY <1>5, <1>6, CountsKept
  <2>14. PathBits(W, A, L, pos)'
    <3>1. Work(x).at # "addPaths" /\ Work(thread[t]).at # "addPaths"
      BY <1>1, <1>4, <1>5, <1>7, <2>8
    <3> QED
      BY <1>5, <1>6, <2>7, <3>1, BitsKept
  <2>15. PathQueue(W, k, f)'
    BY <1>5, <1>6, <2>6, PathQueueKept DEF OnDepth
  <2> QED
    BY <1>5, <1>6, <2>3, <2>11, <2>12, <2>13, <2>14, <2>15, PathsParts
<1>10. CASE depths[v] # -1
  <2>1. depths' = depths /\ thread' = [thread EXCEPT ![t] = next] /\ buffer' = buffer
    BY <1>1, <1>2, <1>10 DEF ClaimDepth, Goes
  <2>2. v \in Found'
    BY <1>8, <1>10, <2>1 DEF Found
  <2>3. Counting(next, A, L)'
    BY <1>1, <1>4, <1>5, <1>7, <2>2 DEF Counting, OnLevel
  <2> QED
    BY <1>1, <1>3, <1>4, <1>5, <1>7, <2>1, <2>3, SameEdge
<1> QED
  BY <1>9, <1>10

\* Reserving, copying out and the last flush.
LEMMA PathFlushes ==
  ASSUME NEW s, NEW W, NEW C, NEW k, NEW A, NEW L, OnDepth(s, W, C, k, A, L),
         NEW f, NEW pos, PathsInv(W, C, k, f, pos), NEW t \in Threads,
         Flush(t), UNCHANGED pathVars
  PROVE  \E g : PathsInv(W, C, k, g, pos)'
<1>2. PICK th : th = thread[t]
  OBVIOUS
<1>3. /\ graph' = graph /\ step' = step /\ todo' = todo
      /\ level' = level /\ depths' = depths /\ pathCounts' = pathCounts /\ succ' = succ
      /\ depthIndex' = depthIndex
  BY DEF Flush, Reserve, CopyOut, LastFlush, Goes, pathVars
<1>4. /\ step = "paths" /\ level = k + 1
      /\ PathQueue(W, k, f) /\ PathTeam(A, L) /\ PosOK(L, f, pos) /\ PathDepths(W, k)
      /\ PathCounts(A, L, C, pos) /\ PathBits(W, A, L, pos)
      /\ QueueOK(f, Found \ A) /\ DOMAIN thread = Threads /\ todo \subseteq Window(queue)
      /\ PathThread(th, A, L)
  BY <1>2, PathsParts
<1>5. PICK New : New = Found \ A
  OBVIOUS
<1>6. QueueOK(f, New) /\ QueueType(queue) /\ (Work(th) = Joined => todo = {})
  BY <1>2, <1>4, <1>5 DEF QueueOK, PathTeam
<1>7. PathDepths(W, k)' /\ Found' = Found
  BY <1>3, <1>4, DepthsKept
<1>8. ASSUME NEW g, QueueOK(g, New)', \A i \in 0 .. queue.in - 1 : g[i] = f[i],
             queue'.start = queue.start, queue'.end = queue.end,
             NEW x, thread' = [thread EXCEPT ![t] = x], PathThread(x, A, L)',
             Work(x) = Work(th) \/ (th = Idle /\ todo = {} /\ Work(x) = Joined)
      PROVE  PathsInv(W, C, k, g, pos)'
  <2>1. QueueOK(g, Found \ W[k])'
    BY <1>5, <1>7, <1>8 DEF OnDepth
  <2>2. PathQueue(W, k, g)'
    BY <1>3, <1>4, <1>8, <2>1, PathQueueKept DEF OnDepth
  <2>3. Work(x) = Joined => todo' = {}
    BY <1>3, <1>6, <1>8
  <2>4. PathTeam(A, L)'
    BY <1>3, <1>4, <1>7, <1>8, <2>3, TeamKept
  <2>5. Work(x) = Work(th) \/ (~IsCounting(Work(th)) /\ ~IsCounting(Work(x))
                               /\ Work(x).at # "addPaths" /\ Work(th).at # "addPaths")
    BY <1>8 DEF Work, Flushing, Idle, Joined, IsCounting, EdgePlaces
  <2>6. PosOK(L, g, pos)'
    <3>1. PICK w, y : w = Work(thread[t]) /\ y = Work(x)
      OBVIOUS
    <3>2. /\ IsCounting(w) <=> IsCounting(y)
          /\ IsCounting(w) => y.u = w.u /\ y.i = w.i
      BY <1>2, <2>5, <3>1
    <3>3. \A i \in todo : g[i] = f[i]
      BY <1>4, <1>6, <1>8 DEF Window, QueueType
    <3> QED
      BY <1>3, <1>4, <1>7, <1>8, <3>1, <3>2, <3>3, PosKept
  <2>7. PathCounts(A, L, C, pos)'
    BY <1>3, <1>4, CountsKept
  <2>8. PathBits(W, A, L, pos)'
    BY <1>2, <1>3, <1>4, <1>8, <2>5, BitsKept
  <2> QED
    BY <1>3, <1>4, <1>7, <2>2, <2>4, <2>6, <2>7, <2>8, PathsParts
<1>9. CASE Reserve(t)
  <2>1. PICK g : QueueOK(g, New)' /\ \A i \in 0 .. queue.in - 1 : g[i] = f[i]
    BY <1>4, <1>6, <1>9, ReservedQueue
  <2>2. /\ th.at = "reserve" /\ queue' = [queue EXCEPT !.in = @ + Len(buffer[t])]
    BY <1>2, <1>9 DEF Reserve
  <2>3. queue'.start = queue.start /\ queue'.end = queue.end
    BY <1>6, <2>2 DEF QueueType
  <2>4. PICK x : x = [at |-> "copy", held |-> th.held, next |-> th.next, base |-> queue.in]
    OBVIOUS
  <2>5. x.at = "copy" /\ x.next = th.next /\ thread' = [thread EXCEPT ![t] = x]
    BY <1>2, <1>9, <2>4 DEF Reserve, Goes
  <2>6. Work(x) = Work(th) /\ Work(th) = th.next
    BY <2>2, <2>5 DEF Work, Flushing
  <2>7. PathThread(x, A, L)'
    BY <1>3, <1>4, <1>7, <2>2, <2>5, <2>6 DEF PathThread, Counting, Flushing
  <2>8. PathsInv(W, C, k, g, pos)'
    BY <1>8, <2>1, <2>3, <2>5, <2>6, <2>7
  <2> QED
    BY <2>8
<1>10. CASE CopyOut(t)
  <2>1. /\ th.at = "copy" /\ thread' = [thread EXCEPT ![t] = th.next]
    BY <1>2, <1>10 DEF CopyOut, Goes
  <2>2. /\ th.next \in {Idle, Joined} \/ th.next.at = "testDepth"
        /\ Work(th) = th.next /\ (IsCounting(th.next) => Counting(th.next, A, L))
    BY <1>4, <2>1 DEF PathThread, Flushing, Work
  <2>3. /\ ~Flushing(th.next) /\ (th.next.at = "joined" => th.next = Joined)
        /\ (th.next.at = "idle" => th.next = Idle) /\ Work(th.next) = th.next
        /\ th.next.at \in {"idle", "joined", "testDepth"}
    BY <2>2 DEF Flushing, Idle, Joined, Work
  <2>4. QueueOK(f, New)'
    BY <1>2, <1>4, <1>6, <1>10, <2>3, CopiedQueue
  <2>5. queue'.start = queue.start /\ queue'.end = queue.end
    <3>1. \E X : queue' = [queue EXCEPT !.shared = X]
      BY <1>10 DEF CopyOut
    <3> QED
      BY <1>6, <3>1 DEF QueueType
  <2>6. PathThread(th.next, A, L)'
    BY <1>3, <1>7, <2>2, <2>3 DEF PathThread, Counting, EdgePlaces
  <2>7. PathsInv(W, C, k, f, pos)'
    BY <1>8, <2>1, <2>2, <2>3, <2>4, <2>5, <2>6
  <2> QED
    BY <2>7
<1>11. CASE LastFlush(t)
  <2>1. PICK x : x = [at |-> "reserve", held |-> <<>>, next |-> Joined]
    OBVIOUS
  <2>2. /\ th = Idle /\ todo = {} /\ thread' = [thread EXCEPT ![t] = x] /\ queue' = queue
        /\ x.at = "reserve" /\ x.next = Joined
    BY <1>2, <1>11, <2>1 DEF LastFlush, Goes, queueVars
  <2>3. QueueOK(f, New)'
    BY <1>4, <1>6, <1>11, LastFlushQueue
  <2>4. Work(x) = Joined
    BY <2>2 DEF Work, Flushing
  <2>5. PathThread(x, A, L)'
    BY <2>2, <2>4 DEF PathThread, IsCounting, EdgePlaces, Joined
  <2>6. PathsInv(W, C, k, f, pos)'
    BY <1>8, <2>2, <2>3, <2>4, <2>5
  <2> QED
    BY <2>6
<1> QED
  BY <1>9, <1>10, <1>11 DEF Flush

-----------------------------------------------------------------------------
(* The end of a level                                                      *)

\* Which edges of level k go down, and of those before.
LEMMA DownFacts ==
  ASSUME NEW s, NEW W, NEW C, NEW k, NEW A, NEW L, OnDepth(s, W, C, k, A, L)
  PROVE  /\ \A u \in L : \A i \in DOMAIN graph.out[u] : GoesDown(W, u, i) <=> graph.out[u][i] \notin A
         /\ \A u \in Node \ W[N] : \A i : ~GoesDown(W, u, i)
<1>1. /\ graph \in Graphs /\ s \in Node /\ W = Within(s) /\ k \in 0 .. N
      /\ A = W[k] /\ L = AtDepth(W, k)
  BY DEF OnDepth
<1>2. k < N /\ k \in 0 .. N - 1 /\ k \in Nat /\ k + 1 \in 0 .. N /\ Deeper(k) = k + 1
  BY OnDepthFacts, NodeFacts
<1>3. /\ \A j \in 0 .. N : AtDepth(W, j) = {v \in W[N] : Depth(s)[v] = j}
      /\ \A j \in 0 .. N : AtDepth(W, j) \subseteq W[N]
  BY <1>1, DepthLevels
<1>4. AtDepth(W, k + 1) = W[k + 1] \ A
  <2>1. AtDepth(W, Deeper(k)) = W[Deeper(k)] \ W[k]
    BY <1>1, OnDepthFacts, RingFacts
  <2> QED
    BY <1>1, <1>2, <2>1
<1>5. ASSUME NEW u \in L, NEW i \in DOMAIN graph.out[u]
      PROVE  GoesDown(W, u, i) <=> graph.out[u][i] \notin A
  <2>1. graph.out[u][i] \in W[k + 1]
    BY <1>2, EdgeTarget
  <2>2. ASSUME graph.out[u][i] \notin A PROVE GoesDown(W, u, i)
    BY <1>1, <1>2, <1>4, <2>1, <2>2 DEF GoesDown
  <2>3. ASSUME GoesDown(W, u, i) PROVE graph.out[u][i] \notin A
    <3>1. PICK j \in 0 .. N - 1 : u \in AtDepth(W, j) /\ graph.out[u][i] \in AtDepth(W, j + 1)
      BY <2>3 DEF GoesDown
    <3>2. j \in 0 .. N
      BY <1>2, NodeFacts
    <3>3. j = k
      BY <1>1, <1>3, <3>1, <3>2
    <3> QED
      BY <1>4, <3>1, <3>3
  <2> QED
    BY <2>2, <2>3
<1>6. ASSUME NEW u \in Node \ W[N], NEW i PROVE ~GoesDown(W, u, i)
  <2>1. SUFFICES ASSUME NEW j \in 0 .. N - 1, u \in AtDepth(W, j) PROVE FALSE
    BY DEF GoesDown
  <2>2. j \in 0 .. N
    BY NodeFacts
  <2> QED
    BY <1>3, <2>1, <2>2
<1> QED
  BY <1>5, <1>6

\* The index, when the place where the window ends has been appended.
LEMMA IndexGrows ==
  ASSUME NEW W, NEW k \in Nat, NEW f, QueueType(queue), InPlace(f, AtDepth(W, k)), QueueType(queue)',
         NEW index, index = Append(depthIndex, queue.start), IndexOK(index, k, W, f),
         queue.end <= queue'.end, NEW longer, longer = Append(index, queue.end)
  PROVE  /\ IndexOK(longer, k + 1, W, f)'
         /\ Len(index) = k + 2 /\ longer \in Seq(Nat) /\ Len(longer) = k + 3
         /\ \A d \in DOMAIN longer : longer[d] \in Nat /\ longer[d] <= queue.end
<1>1. PICK start \in Nat, end \in Nat, after \in Nat :
        start = queue.start /\ end = queue.end /\ after = queue'.end /\ start <= end /\ end <= after
  BY DEF QueueType
<1>2. /\ index \in Seq(Nat) /\ Len(index) = k + 2
      /\ \A d \in DOMAIN index : index[d] <= end
  BY <1>1 DEF IndexOK
<1>3. index[k + 2] = start
  BY <1>1, <1>2
<1>4. longer \in Seq(Nat) /\ Len(longer) = k + 3 /\ longer[k + 3] = end
      /\ \A d \in 1 .. k + 2 : longer[d] = index[d]
  BY <1>1, <1>2
<1>5. \A d \in DOMAIN longer : longer[d] \in Nat /\ longer[d] <= end /\ longer[d] <= after
  <2>0. \A d \in DOMAIN index : index[d] \in Nat
    BY <1>2
  <2>1. \A d \in 1 .. k + 2 : longer[d] \in Nat /\ longer[d] <= end
    <3>1. DOMAIN index = 1 .. k + 2
      BY <1>2
    <3> QED
      BY ONLY <1>2, <1>4, <2>0, <3>1
  <2>2. DOMAIN longer = 1 .. k + 3
    BY <1>4
  <2>3. \A d \in DOMAIN longer : d \in 1 .. k + 2 \/ d = k + 3
    BY <2>2
  <2>4. \A d \in DOMAIN longer : longer[d] \in Nat /\ longer[d] <= end
    BY ONLY <1>4, <2>1, <2>3
  <2>5. end \in Nat /\ after \in Nat /\ end <= after
    BY <1>1
  <2> QED
    BY ONLY <2>4, <2>5
<1>6. ASSUME NEW j \in 0 .. (k + 1) - 1
      PROVE  {f[i] : i \in longer[j + 2] .. longer[j + 3] - 1} = AtDepth(W, j)
  <2>1. CASE j = k
    <3>1. longer[j + 2] = start /\ longer[j + 3] = end
      BY <1>3, <1>4, <2>1
    <3> QED
      BY <1>1, <2>1, <3>1 DEF InPlace
  <2>2. CASE j # k
    <3>1. j \in 0 .. k - 1 /\ j + 2 \in 1 .. k + 2 /\ j + 3 \in 1 .. k + 2
      BY <2>2
    <3>2. longer[j + 2] = index[j + 2] /\ longer[j + 3] = index[j + 3]
      BY <1>4, <3>1
    <3> QED
      BY <3>1, <3>2 DEF IndexOK
  <2> QED
    BY <2>1, <2>2
<1>7. IndexOK(longer, k + 1, W, f)'
  <2>1. Len(longer) = (k + 1) + 2
    BY <1>4
  <2> QED
    BY <1>1, <1>4, <1>5, <1>6, <2>1 DEF IndexOK, AtDepth
<1> QED
  BY <1>1, <1>2, <1>4, <1>5, <1>7

\* What the level has become when all threads have joined: all edges of its
\* vertices are done with.
LevelDone(W, C, k, B, New) ==
  /\ B = W[Deeper(k)] /\ New = B \ W[k] /\ New = AtDepth(W, k + 1) /\ B = W[k + 1]
  /\ Found = B
  /\ \A j \in 0 .. k + 1 : \A v \in AtDepth(W, j) : depths[v] = j
  /\ \A v \in B : pathCounts[v] = C[v]
  /\ \A v \in Node \ B : pathCounts[v] = SumFunctionOnSet(C, {})
  /\ \A u \in Node : \A i \in DOMAIN graph.out[u] :
       EdgeNumber(u, i) \in succ <=> u \in W[k] /\ GoesDown(W, u, i)

\* When all threads have joined, the next level is complete.
LEMMA LevelIsDone ==
  ASSUME NEW s, NEW W, NEW C, NEW k, NEW A, NEW L, OnDepth(s, W, C, k, A, L),
         NEW f, NEW pos, PathsInv(W, C, k, f, pos), AllJoined
  PROVE  \E B, New : LevelDone(W, C, k, B, New)
<1>1. PICK B, New : B = W[Deeper(k)] /\ New = B \ A
  OBVIOUS
<1>2. /\ Ring(s, A, L, B) /\ IsPaths(s, W, C) /\ IsWithin(s, W) /\ k \in 0 .. N - 1 /\ k \in Nat
      /\ Deeper(k) = k + 1 /\ k + 1 \in 0 .. N /\ A = W[k] /\ L = AtDepth(W, k)
      /\ graph \in Graphs /\ s \in Node
      /\ A \subseteq Node /\ L \subseteq A /\ L \subseteq Node /\ A \subseteq B /\ B \subseteq Node
  <2>1. /\ Ring(s, A, L, B) /\ IsPaths(s, W, C) /\ IsWithin(s, W) /\ k < N /\ k \in Nat
        /\ Deeper(k) = k + 1 /\ k + 1 \in 0 .. N /\ A \subseteq Node /\ L \subseteq A /\ L \subseteq Node
    BY <1>1, OnDepthFacts
  <2>2. k \in 0 .. N - 1
    BY <2>1, NodeFacts
  <2> QED
    BY <2>1, <2>2 DEF OnDepth, Ring
<1>3. New = AtDepth(W, k + 1) /\ B = W[k + 1]
  <2>1. AtDepth(W, Deeper(k)) = W[Deeper(k)] \ W[k]
    <3>1. k \in 0 .. N
      BY DEF OnDepth
    <3> QED
      BY <1>2, <3>1, RingFacts
  <2> QED
    BY <1>1, <1>2, <2>1
<1>4. /\ PathTeam(A, L) /\ PosOK(L, f, pos) /\ PathDepths(W, k)
      /\ PathCounts(A, L, C, pos) /\ PathBits(W, A, L, pos)
  BY PathsParts
<1>5. \A t \in Threads : Work(thread[t]) = Joined /\ ~IsCounting(Work(thread[t])) /\ Work(thread[t]).at # "addPaths"
  BY DEF AllJoined, Work, Flushing, Joined, IsCounting, EdgePlaces
<1>6. todo = {}
  <2>1. PICK t \in Threads : TRUE
    BY KernelAssumption
  <2> QED
    BY <1>4, <1>5, <2>1 DEF PathTeam
<1>7. pos \in [L -> Nat] /\ \A u \in L : pos[u] = Len(graph.out[u])
  BY <1>4, <1>5, <1>6 DEF PosOK, WorksOn
<1>8. ASSUME NEW u \in L
      PROVE  DOMAIN graph.out[u] = 1 .. pos[u] /\ \A i \in 1 .. pos[u] : graph.out[u][i] \in Found
  <2>1. u \in Node
    BY <1>2
  <2> QED
    BY <1>2, <1>4, <1>7, <2>1, OutFacts DEF PosOK
<1>9. Found = B
  <2>1. Found \subseteq B /\ A \subseteq Found
    BY <1>1, <1>4, KnownDepths DEF PathDepths
  <2>2. ASSUME NEW v \in B \ A PROVE v \in Found
    <3>1. PICK u \in L : v \in Elems(graph.out[u])
      BY <1>2 DEF Ring
    <3>2. PICK i \in DOMAIN graph.out[u] : v = graph.out[u][i]
      BY <3>1 DEF Elems
    <3> QED
      BY <1>8, <3>2
  <2> QED
    BY <2>1, <2>2
<1>10. ASSUME NEW j \in 0 .. k + 1, NEW v \in AtDepth(W, j) PROVE depths[v] = j
  <2>1. CASE j = k + 1
    <3>1. v \in B /\ v \notin A /\ v \in Found /\ v \in Node
      BY <1>1, <1>2, <1>3, <1>9, <2>1
    <3> QED
      BY <1>4, <2>1, <3>1, KnownDepths
  <2>2. CASE j # k + 1
    <3>1. j \in 0 .. k
      BY <1>2, <2>2
    <3> QED
      BY <1>4, <3>1 DEF PathDepths
  <2> QED
    BY <2>1, <2>2
<1>11. \A v : Counted(L, pos, v) = Parents(W, v, k)
  <2> SUFFICES ASSUME NEW v PROVE Counted(L, pos, v) = Parents(W, v, k)
    OBVIOUS
  <2>1. ASSUME NEW u \in L PROVE (\E i \in 1 .. pos[u] : graph.out[u][i] = v) <=> v \in Elems(graph.out[u])
    BY <1>8 DEF Elems
  <2> QED
    BY <1>2, <2>1 DEF Counted, Parents
<1>12. ASSUME NEW v \in B PROVE pathCounts[v] = C[v]
  <2>1. CASE v \in A
    BY <1>4, <2>1 DEF PathCounts
  <2>2. CASE v \notin A
    <3>1. v \in Node \ A /\ v \in AtDepth(W, k + 1)
      BY <1>1, <1>2, <1>3, <2>2
    <3>2. pathCounts[v] = SumFunctionOnSet(C, Counted(L, pos, v))
      BY <1>4, <3>1 DEF PathCounts
    <3>3. C[v] = SumFunctionOnSet(C, Parents(W, v, k))
      BY <1>2, <3>1 DEF IsPaths
    <3>4. Counted(L, pos, v) = Parents(W, v, k)
      BY <1>11
    <3> QED
      BY <3>2, <3>3, <3>4
  <2> QED
    BY <2>1, <2>2
<1>13. ASSUME NEW v \in Node \ B PROVE pathCounts[v] = SumFunctionOnSet(C, {})
  <2>1. v \in Node \ A /\ v \notin Found
    BY <1>2, <1>9
  <2>2. Counted(L, pos, v) = {}
    BY <1>8, <2>1 DEF Counted
  <2>3. pathCounts[v] = SumFunctionOnSet(C, Counted(L, pos, v))
    BY <1>4, <2>1 DEF PathCounts
  <2> QED
    BY <2>2, <2>3
<1>14. ASSUME NEW u \in Node, NEW i \in DOMAIN graph.out[u]
       PROVE  EdgeNumber(u, i) \in succ <=> u \in A /\ GoesDown(W, u, i)
  <2>1. EdgeNumber(u, i) \in succ <=> Marked(W, A, L, pos, u, i)
    BY <1>4 DEF PathBits
  <2>2. CASE u \in L
    <3>1. i \in 1 .. pos[u]
      BY <1>8, <2>2
    <3>2. i <= pos[u]
      BY <1>7, <2>2, <3>1
    <3>3. GoesDown(W, u, i) <=> graph.out[u][i] \notin A
      BY <2>2, DownFacts
    <3> QED
      BY <1>2, <2>1, <2>2, <3>2, <3>3 DEF Marked
  <2>3. CASE u \notin L
    BY <2>1, <2>3 DEF Marked
  <2> QED
    BY <2>2, <2>3
<1>15. LevelDone(W, C, k, B, New)
  <2>1. New = B \ W[k] /\ \A u \in Node : \A i \in DOMAIN graph.out[u] :
          EdgeNumber(u, i) \in succ <=> u \in W[k] /\ GoesDown(W, u, i)
    BY <1>1, <1>2, <1>14
  <2> QED
    BY <1>1, <1>3, <1>9, <1>10, <1>12, <1>13, <2>1 DEF LevelDone
<1> QED
  BY <1>15

\* The barrier at the end of a level: the next one, or the walk back.
LEMMA EndLevelStep ==
  ASSUME NEW s, NEW W, NEW C, NEW k, NEW A, NEW L, OnDepth(s, W, C, k, A, L),
         NEW f, NEW pos, PathsInv(W, C, k, f, pos), EndLevel
  PROVE  (\E j \in 0 .. N : \E p : PathsInv(W, C, j, f, p)') \/ BackInv(W, C, k, f)'
<1>1. PICK index, slid, longer : /\ index = Append(depthIndex, queue.start) /\ slid = Slide(queue)
                                 /\ longer = Append(index, queue.end)
  OBVIOUS
<1>2. /\ AllJoined /\ queue' = slid /\ buffer' = buffer /\ graph' = graph /\ thread' = [t \in Threads |-> Idle]
      /\ depths' = depths /\ pathCounts' = pathCounts /\ succ' = succ
  BY <1>1 DEF EndLevel, BeginLoop
<1>3. PICK B, New : LevelDone(W, C, k, B, New)
  BY <1>2, LevelIsDone
<1>4. /\ Ring(s, A, L, B) /\ IsPaths(s, W, C) /\ IsWithin(s, W) /\ k \in 0 .. N - 1 /\ k \in Nat /\ k \in 0 .. N
      /\ Deeper(k) = k + 1 /\ k + 1 \in 0 .. N /\ A = W[k] /\ L = AtDepth(W, k)
      /\ graph \in Graphs /\ s \in Node /\ W = Within(s)
      /\ A \subseteq Node /\ L \subseteq A /\ L \subseteq Node /\ A \subseteq B /\ B \subseteq Node
      /\ B \subseteq W[N]
  <2>1. /\ Ring(s, A, L, B) /\ IsPaths(s, W, C) /\ IsWithin(s, W) /\ k < N /\ k \in Nat
        /\ Deeper(k) = k + 1 /\ k + 1 \in 0 .. N /\ A \subseteq Node /\ L \subseteq A /\ L \subseteq Node
    BY <1>3, OnDepthFacts DEF LevelDone
  <2>2. k \in 0 .. N - 1 /\ N \in 0 .. N /\ k + 1 <= N
    BY <2>1, NodeFacts
  <2>3. B \subseteq W[N]
    BY <1>3, <2>1, <2>2, WithinGrows DEF LevelDone
  <2> QED
    BY <2>1, <2>2, <2>3 DEF OnDepth, Ring
<1>5. /\ B = W[Deeper(k)] /\ New = B \ W[k] /\ New = AtDepth(W, k + 1) /\ B = W[k + 1]
      /\ Found = B /\ New = Found \ A
  BY <1>3, <1>4 DEF LevelDone
<1>6. /\ PathQueue(W, k, f) /\ QueueOK(f, New) /\ InPlace(f, L) /\ Old(f) \subseteq A /\ level = k + 1
  <2>1. /\ PathQueue(W, k, f) /\ QueueOK(f, Found \ A) /\ InPlace(f, L) /\ Old(f) \subseteq A
        /\ level = k + 1
    BY PathsParts
  <2> QED
    BY <1>5, <2>1
<1>7. QueueType(queue) /\ slid.start = queue.end /\ slid.end = queue.in /\ slid.in = queue.in
  BY <1>1, <1>6 DEF QueueOK, QueueType, Slide
<1>8. /\ QueueOK(f, {})' /\ InPlace(f, New)'
      /\ Placed(f)' = Placed(f) /\ Placed(f) = Old(f) \cup New
  <2>1. \A t \in Threads : buffer[t] = <<>> /\ ~Flushing(thread[t])
    BY <1>2, <1>6, JoinedBuffers
  <2> QED
    BY <1>1, <1>2, <1>6, <2>1, SlidQueue
<1>9. /\ IndexOK(longer, k + 1, W, f)' /\ Len(index) = k + 2
  <2>1. QueueType(queue)' /\ queue.end <= queue'.end
    BY <1>2, <1>7, <1>8 DEF QueueOK, QueueType
  <2>2. IndexOK(index, k, W, f)
    BY <1>1, <1>6 DEF PathQueue
  <2> QED
    BY <1>1, <1>4, <1>6, <1>7, <2>1, <2>2, IndexGrows
<1>10. \A t \in Threads : /\ Work(thread'[t]) = Idle /\ ~IsCounting(Work(thread'[t])) /\ thread'[t] = Idle
                          /\ Work(thread'[t]).at # "addPaths" /\ Work(thread'[t]) # Joined
  BY <1>2 DEF Work, Flushing, Idle, IsCounting, EdgePlaces, Joined
<1>11. Found' = Found
  BY <1>2 DEF Found
<1>12. \A u, i : EdgeNumber(u, i)' = EdgeNumber(u, i) /\ GoesDown(W, u, i)' = GoesDown(W, u, i)
  BY <1>2 DEF EdgeNumber, EdgesBefore, GoesDown, AtDepth
<1>13. CASE QueueEmpty(slid)
  <2>1. /\ depthIndex' = longer /\ back' = k + 1 /\ step' = "back"
        /\ todo' = queue.start .. queue.end - 1
    <3>1. /\ depthIndex' = Append(index, slid.start) /\ back' = Len(index) - 1 /\ step' = "back"
          /\ todo' = queue.start .. slid.start - 1
      BY <1>1, <1>13 DEF EndLevel, BeginLoop
    <3>2. Len(index) - 1 = k + 1
      BY <1>4, <1>9
    <3> QED
      BY <1>1, <1>7, <3>1, <3>2
  <2>2. New = {} /\ A = B
    <3>1. queue'.start .. queue'.end - 1 = {}
      <4>1. queue'.start = queue'.end /\ queue'.end \in Nat
        BY <1>2, <1>7, <1>13 DEF QueueEmpty, QueueType
      <4> QED
        BY <4>1
    <3>2. New = {}
      BY <1>8, <3>1 DEF InPlace
    <3> QED
      BY <1>4, <1>5, <3>2
  <2>3. W[k] = W[N]
    <3>1. AtDepth(W, k + 1) = {} => W[k + 1] = W[N]
      BY <1>4, RingFacts
    <3> QED
      BY <1>4, <1>5, <2>2, <3>1
  <2>4. todo' \subseteq 0 .. queue'.in - 1 /\ back' <= k + 1
    <3>1. back' <= k + 1
      BY <1>4, <2>1
    <3>2. todo' \subseteq 0 .. queue'.in - 1
      BY <1>2, <1>7, <2>1 DEF QueueType
    <3> QED
      BY <3>1, <3>2
  <2>5. \A j \in 0 .. k : \A v \in AtDepth(W, j) : depths'[v] = j
    <3>1. \A j \in 0 .. k : j \in 0 .. k + 1
      BY <1>4
    <3> QED
      BY <1>2, <1>3, <3>1 DEF LevelDone
  <2>6. \A v \in Node \ W[N] : depths'[v] = -1
    BY <1>2, <1>4, <1>5, <2>2, <2>3 DEF Found
  <2>7. \A v \in W[N] : pathCounts'[v] = C[v]
    BY <1>2, <1>3, <1>4, <2>2, <2>3 DEF LevelDone
  <2>8. ASSUME NEW u \in Node, NEW i \in DOMAIN graph.out[u]
        PROVE  EdgeNumber(u, i)' \in succ' <=> GoesDown(W, u, i)'
    <3>1. EdgeNumber(u, i) \in succ <=> u \in W[k] /\ GoesDown(W, u, i)
      BY <1>3 DEF LevelDone
    <3>2. u \notin W[N] => ~GoesDown(W, u, i)
      BY DownFacts
    <3>3. EdgeNumber(u, i) \in succ <=> GoesDown(W, u, i)
      BY <2>3, <3>1, <3>2
    <3> QED
      BY <1>2, <1>12, <3>3
  <2>9. IndexOK(depthIndex, k + 1, W, f)'
    BY <1>9, <2>1
  <2>10. AllIdle'
    BY <1>10 DEF AllIdle
  <2>11. BackInv(W, C, k, f)'
    <3>1. \A j \in 0 .. k : \A v \in AtDepth(W, j)' : depths'[v] = j
      BY <2>5 DEF AtDepth
    <3>2. \A u \in Node : \A i \in DOMAIN graph'.out[u] : EdgeNumber(u, i)' \in succ' <=> GoesDown(W, u, i)'
      BY <1>2, <2>8
    <3> QED
      BY <1>8, <2>1, <2>3, <2>4, <2>6, <2>7, <2>9, <2>10, <3>1, <3>2 DEF BackInv
  <2> QED
    BY <2>11
<1>14. CASE ~QueueEmpty(slid)
  <2>1. /\ depthIndex' = index /\ level' = level + 1 /\ step' = "paths"
        /\ todo' = queue'.start .. queue'.end - 1
    BY <1>1, <1>2, <1>14 DEF EndLevel, BeginLoop, Window
  <2>2. New # {}
    <3>1. queue'.start \in queue'.start .. queue'.end - 1
      BY <1>2, <1>7, <1>14 DEF QueueEmpty, QueueType
    <3> QED
      BY <1>8, <3>1 DEF InPlace
  <2>3. PICK m : m = k + 1
    OBVIOUS
  <2>4. m \in 0 .. N /\ m \in Nat /\ New = AtDepth(W, m) /\ B = W[m] /\ New \subseteq B
    BY <1>4, <1>5, <2>3
  <2>5. PICK zero \in [New -> Nat] : \A u \in New : zero[u] = 0
    <3>1. [u \in New |-> 0] \in [New -> Nat] /\ \A u \in New : [x \in New |-> 0][u] = 0
      OBVIOUS
    <3> QED
      BY <3>1
  <2>6. PathQueue(W, m, f)'
    <3>1. Found' \ W[m] = {}
      BY <1>5, <1>11, <2>4
    <3>2. Old(f)' \subseteq W[m]
      <4>1. Old(f)' \subseteq Placed(f)'
        BY <1>2, <1>7 DEF Old, Placed
      <4> QED
        BY <1>4, <1>5, <1>6, <1>8, <2>4, <4>1
    <3>3. Append(depthIndex, queue.start)' = longer
      BY <1>1, <1>2, <1>7, <2>1
    <3>4. IndexOK(longer, m, W, f)'
      BY <1>9, <2>3
    <3>5. QueueOK(f, Found \ W[m])'
      BY <1>8, <3>1
    <3>6. InPlace(f, AtDepth(W, m))'
      <4>1. AtDepth(W, m)' = New
        BY <2>4 DEF AtDepth
      <4> QED
        BY <1>8, <4>1
    <3> QED
      BY <3>2, <3>3, <3>4, <3>5, <3>6 DEF PathQueue
  <2>7. PathTeam(B, New)'
    <3>1. todo' = Window(queue)' /\ DOMAIN thread' = Threads
      BY <1>2, <2>1 DEF Window
    <3>2. \A t \in Threads : PathThread(thread[t], B, New)'
      BY <1>10 DEF PathThread, Idle, Joined, Work, Flushing, IsCounting, EdgePlaces
    <3> QED
      BY <1>10, <3>1, <3>2 DEF PathTeam, Work, Flushing
  <2>8. PosOK(New, f, zero)'
    <3>1. \A t \in Threads : \A u : ~WorksOn(t, u)'
      BY <1>10 DEF WorksOn, IsCounting, Work, Flushing
    <3>2. \A u \in New : \E i \in todo' : f[i] = u
      BY <1>8, <2>1 DEF InPlace
    <3>3. \A i \in todo' : f[i] \in New
      BY <1>8, <2>1 DEF InPlace
    <3>4. \A i \in todo' : zero[f[i]] = 0
      BY <2>5, <3>3
    <3>5. \A u \in New : zero[u] <= Len(graph'.out[u])
      <4>1. \A u \in New : Len(graph'.out[u]) \in Nat
        BY <1>2, <1>4, <2>4, OutFacts
      <4> QED
        BY <2>5, <4>1
    <3>6. \A u \in New : \A i \in 1 .. zero[u] : graph'.out[u][i] \in Found'
      BY <2>5
    <3> QED
      BY <2>5, <3>1, <3>2, <3>4, <3>5, <3>6 DEF PosOK
  <2>9. PathDepths(W, m)'
    <3>1. Found' \subseteq W[Deeper(m)]
      <4>1. Ring(s, W[m], AtDepth(W, m), W[Deeper(m)])
        BY <1>4, <2>4, RingFacts
      <4> QED
        BY <1>5, <1>11, <2>4, <4>1 DEF Ring
    <3>2. \A j \in 0 .. m : \A v \in AtDepth(W, j) : depths'[v] = j
      BY <1>2, <1>3, <2>3 DEF LevelDone
    <3>3. \A v \in Node \ W[m] : depths'[v] \in {-1, m + 1}
      BY <1>5, <1>11, <2>4 DEF Found
    <3> QED
      BY <3>1, <3>2, <3>3 DEF PathDepths, AtDepth
  <2>10. PathCounts(B, New, C, zero)'
    <3>1. \A v : Counted(New, zero, v)' = {}
      BY <2>5 DEF Counted
    <3> QED
      BY <1>2, <1>3, <3>1 DEF PathCounts, LevelDone
  <2>11. PathBits(W, B, New, zero)'
    <3>1. SUFFICES ASSUME NEW u \in Node, NEW i \in DOMAIN graph.out[u]
                   PROVE  EdgeNumber(u, i) \in succ' <=> Marked(W, B, New, zero, u, i)'
      BY <1>2, <1>12 DEF PathBits
    <3>2. EdgeNumber(u, i) \in succ <=> u \in W[k] /\ GoesDown(W, u, i)
      BY <1>3 DEF LevelDone
    <3>3. \A y, j : ~Adding(y, j)'
      BY <1>10 DEF Adding, Work, Flushing
    <3>4. i \in Nat /\ i >= 1
      BY <1>4, OutFacts
    <3>5. u \in New => ~(i <= zero[u])
      BY <2>5, <3>4
    <3>6. u \in W[k] <=> u \in B \ New
      BY <1>4, <1>5
    <3> QED
      BY <1>2, <1>12, <3>2, <3>3, <3>5, <3>6 DEF Marked
  <2>12. level' = m + 1
    BY <1>4, <1>6, <2>1, <2>3
  <2>13. AtDepth(W, m)' = New /\ AtDepth(W, m) = New
    BY <2>4 DEF AtDepth
  <2>14. PathsInv(W, C, m, f, zero)'
    BY <2>1, <2>2, <2>4, <2>6, <2>7, <2>8, <2>9, <2>10, <2>11, <2>12, <2>13 DEF PathsInv
  <2> QED
    BY <2>4, <2>14
<1> QED
  BY <1>13, <1>14

-----------------------------------------------------------------------------
(* The walk back                                                           *)

\* Running totals of naturals.
LEMMA RunningTotals ==
  ASSUME NEW n \in Nat, NEW T, \A i \in 1 .. n : T[i] \in Nat
  PROVE  /\ \E F : F = [i \in 0 .. n |-> IF i = 0 THEN 0 ELSE F[i - 1] + T[i]]
         /\ \A F : F = [i \in 0 .. n |-> IF i = 0 THEN 0 ELSE F[i - 1] + T[i]] => F[n] \in Nat
<1> DEFINE G == [k \in 1 .. n |-> [y \in Nat |-> y + T[k]]]
           D == [k \in 0 .. n |-> Nat]
<1>1. \A k \in 1 .. n : \A y \in D[k - 1] : G[k][y] \in D[k]
  OBVIOUS
<1>2. 0 \in D[0]
  OBVIOUS
<1>3. \E F : Follows(F, n, 0, G) /\ \A k \in 0 .. n : F[k] \in D[k]
  <2> HIDE DEF G, D
  <2> QED
    BY <1>1, <1>2, Recursion
<1>4. \E F : F = [i \in 0 .. n |-> IF i = 0 THEN 0 ELSE F[i - 1] + T[i]]
  <2>1. PICK F : Follows(F, n, 0, G) /\ \A k \in 0 .. n : F[k] \in D[k]
    BY <1>3
  <2>2. \A k \in 0 .. n : F[k] \in Nat
    BY <2>1
  <2>3. \A k \in 0 .. n : k # 0 => k - 1 \in 0 .. n /\ k \in 1 .. n
    OBVIOUS
  <2>4. \A k \in 0 .. n : k # 0 => G[k][F[k - 1]] = F[k - 1] + T[k]
    BY <2>2, <2>3
  <2>5. F = [k \in 0 .. n |-> IF k = 0 THEN 0 ELSE G[k][F[k - 1]]]
    BY <2>1 DEF Follows
  <2>6. F = [i \in 0 .. n |-> IF i = 0 THEN 0 ELSE F[i - 1] + T[i]]
    <3> HIDE DEF G
    <3> QED
      BY <2>4, <2>5
  <2> QED
    BY <2>6
<1>5. ASSUME NEW F, F = [i \in 0 .. n |-> IF i = 0 THEN 0 ELSE F[i - 1] + T[i]] PROVE F[n] \in Nat
  <2> DEFINE P == {k \in Nat : k <= n => F[k] \in Nat}
  <2>1. F[0] = 0 /\ \A k \in 1 .. n : F[k] = F[k - 1] + T[k]
    BY <1>5
  <2>2. 0 \in P
    BY <2>1
  <2>3. \A k \in 1 .. n : k - 1 \in P => k \in P
    <3> SUFFICES ASSUME NEW k \in 1 .. n, k - 1 \in P PROVE F[k] \in Nat
      OBVIOUS
    <3>1. F[k - 1] \in Nat /\ T[k] \in Nat
      OBVIOUS
    <3>2. F[k] = F[k - 1] + T[k]
      BY <2>1
    <3> QED
      BY <3>1, <3>2
  <2> HIDE DEF P
  <2>4. \A k \in 0 .. n : k \in P
    BY <2>2, <2>3, UpTo
  <2>5. n \in P
    BY <2>4
  <2> QED
    BY <2>5 DEF P
<1> QED
  BY <1>4, <1>5

\* What the walk back adds up is a number: no divisor is zero.
LEMMA DependencyNat ==
  ASSUME graph \in Graphs, NEW s \in Node, NEW W, W = Within(s), NEW C, IsPaths(s, W, C),
         NEW k, NEW f, BackInv(W, C, k, f), pathCounts \in [Node -> Nat], deltas \in [Node -> Nat],
         NEW u \in Node
  PROVE  Dependency(u) \in Nat
<1>1. PICK n \in Nat : n = Len(graph.out[u])
  BY OutFacts
<1>2. \A i \in 1 .. n : i \in DOMAIN graph.out[u] /\ graph.out[u][i] \in Node
  BY <1>1, OutFacts
<1> DEFINE Term(i) == IF EdgeNumber(u, i) \in succ
                      THEN (pathCounts[u] * (Scale + deltas[graph.out[u][i]])) \div pathCounts[graph.out[u][i]]
                      ELSE 0
<1>3. ASSUME NEW i \in 1 .. n, EdgeNumber(u, i) \in succ
      PROVE  pathCounts[graph.out[u][i]] \in Nat /\ pathCounts[graph.out[u][i]] > 0
  <2>1. GoesDown(W, u, i)
    BY <1>2, <1>3 DEF BackInv
  <2>2. PICK j \in 0 .. N - 1 : graph.out[u][i] \in AtDepth(W, j + 1)
    BY <2>1 DEF GoesDown
  <2>3. j + 1 \in 0 .. N
    BY NodeFacts
  <2>4. graph.out[u][i] \in W[N]
    BY <2>2, <2>3, DepthLevels
  <2>5. pathCounts[graph.out[u][i]] \in Nat \ {0}
    BY <2>4 DEF BackInv, IsPaths
  <2> QED
    BY <2>5
<1>4. \A i \in 1 .. n : Term(i) \in Nat
  <2> SUFFICES ASSUME NEW i \in 1 .. n, EdgeNumber(u, i) \in succ
               PROVE  (pathCounts[u] * (Scale + deltas[graph.out[u][i]])) \div pathCounts[graph.out[u][i]] \in Nat
    OBVIOUS
  <2>1. PICK a \in Nat, b \in Nat, c \in Nat :
          a = pathCounts[u] /\ b = Scale + deltas[graph.out[u][i]] /\ c = pathCounts[graph.out[u][i]] /\ c > 0
    <3>1. Scale \in Nat /\ deltas[graph.out[u][i]] \in Nat
      BY <1>2, BrandesAssumption
    <3>2. pathCounts[u] \in Nat
      OBVIOUS
    <3> QED
      BY <1>3, <3>1, <3>2
  <2>2. a * b \in Nat
    BY <2>1
  <2>3. PICK d \in Nat : d = a * b
    BY <2>2
  <2>4. d \div c \in Nat
    BY <2>1
  <2> QED
    BY <2>1, <2>3, <2>4
<1> DEFINE T == [i \in 1 .. n |-> Term(i)]
           Solves(F) == F = [i \in 0 .. n |-> IF i = 0 THEN 0 ELSE F[i - 1] + Term(i)]
           Totals(F) == F = [i \in 0 .. n |-> IF i = 0 THEN 0 ELSE F[i - 1] + T[i]]
<1>5. \A i \in 1 .. n : T[i] = Term(i) /\ T[i] \in Nat
  BY <1>4
<1>6. \A F : Solves(F) <=> Totals(F)
  <2> HIDE DEF T, Term
  <2>1. \A i \in 0 .. n : i = 0 \/ i \in 1 .. n
    OBVIOUS
  <2> QED
    BY <1>5, <2>1
<1>7. (\E F : Totals(F)) /\ \A F : Totals(F) => F[n] \in Nat
  <2> HIDE DEF T
  <2> QED
    BY <1>5, RunningTotals
<1>8. (\E F : Solves(F)) /\ \A F : Solves(F) => F[n] \in Nat
  BY <1>6, <1>7
<1>9. Dependency(u) = (CHOOSE F : Solves(F))[n]
  BY <1>1 DEF Dependency
<1> HIDE DEF Solves
<1> QED
  BY <1>8, <1>9

\* A queue that is not touched stays right.
LEMMA SameQueue ==
  ASSUME NEW f, NEW New, QueueOK(f, New), thread' = thread, queue' = queue, buffer' = buffer
  PROVE  QueueOK(f, New)'
BY DEF QueueOK, Ahead, Placed

\* A step of the walk back.
LEMMA AccumulateStep ==
  ASSUME NEW W, NEW C, NEW k, NEW f, BackInv(W, C, k, f), NEW i \in todo, Accumulate(i)
  PROVE  BackInv(W, C, k, f)'
<1>1. /\ step' = step /\ todo' = todo \ {i} /\ thread' = thread /\ queue' = queue /\ buffer' = buffer
      /\ depths' = depths /\ level' = level /\ pathCounts' = pathCounts /\ succ' = succ
      /\ depthIndex' = depthIndex /\ back' = back /\ graph' = graph
  BY DEF Accumulate, queueVars, pathVars
<1>2. QueueOK(f, {})'
  BY <1>1, SameQueue DEF BackInv
<1>3. IndexOK(depthIndex, k + 1, W, f)'
  BY <1>1 DEF BackInv, IndexOK, AtDepth
<1>4. \A u \in Node : \A j \in DOMAIN graph'.out[u] : EdgeNumber(u, j)' \in succ' <=> GoesDown(W, u, j)'
  <2>1. \A u, j : EdgeNumber(u, j)' = EdgeNumber(u, j) /\ GoesDown(W, u, j)' = GoesDown(W, u, j)
    BY <1>1 DEF EdgeNumber, EdgesBefore, GoesDown, AtDepth
  <2> QED
    BY <1>1, <2>1 DEF BackInv
<1> QED
  BY <1>1, <1>2, <1>3, <1>4 DEF BackInv, AllIdle, AtDepth

\* From one level of the walk back to the next, or to the next source.
LEMMA EndBackStep ==
  ASSUME NEW W, NEW C, NEW k \in Nat, NEW f, BackInv(W, C, k, f), EndBack, back \in Nat,
         buffer \in [Threads -> Seq(Node)]
  PROVE  PickInv' \/ BackInv(W, C, k, f)'
<1>1. /\ thread' = [t \in Threads |-> Idle] /\ queue' = queue /\ buffer' = buffer
      /\ depths' = depths /\ level' = level /\ pathCounts' = pathCounts /\ succ' = succ
      /\ depthIndex' = depthIndex /\ graph' = graph
  BY DEF EndBack, BeginLoop, queueVars, pathVars
<1>2. /\ QueueOK(f, {}) /\ AllIdle /\ back <= k + 1 /\ IndexOK(depthIndex, k + 1, W, f)
      /\ QueueType(queue)
  BY DEF BackInv, QueueOK
<1>3. AllIdle'
  BY <1>1 DEF AllIdle
<1>4. CASE back = 0
  <2>1. step' = "pick" /\ todo' = {}
    BY <1>4 DEF EndBack, BeginLoop
  <2>2. queue.in <= N
    BY <1>2, QueueFits
  <2>3. \A t \in Threads : buffer[t] = <<>>
    <3> SUFFICES ASSUME NEW t \in Threads PROVE buffer[t] = <<>>
      OBVIOUS
    <3>1. PICK th, b : th = thread[t] /\ b = buffer[t]
      OBVIOUS
    <3>2. th.at = "idle" /\ b \in Seq(Node) /\ Loose(th, b) = {}
      <4>1. th.at = "idle"
        BY <1>2, <3>1 DEF AllIdle, Idle
      <4>2. b \in Seq(Node)
        BY <1>2, <3>1 DEF QueueOK, BufferOK
      <4>3. Loose(th, b) = {}
        <5>1. {} = UNION {Loose(thread[s], buffer[s]) : s \in Threads} \cup Ahead(f)
          BY <1>2 DEF QueueOK
        <5> QED
          BY ONLY <3>1, <5>1, t \in Threads
      <4> QED
        BY ONLY <4>1, <4>2, <4>3
    <3>3. Elems(b) = {}
      BY <3>2 DEF Loose
    <3> QED
      BY <3>1, <3>2, <3>3, SeqFacts
  <2>4. buffer = [t \in Threads |-> <<>>]
    BY <2>3
  <2>5. PickInv'
    BY <1>1, <1>2, <1>3, <2>1, <2>2, <2>4 DEF PickInv
  <2> QED
    BY <2>5
<1>5. CASE back # 0
  <2>1. step' = "back" /\ back' = back - 1 /\ todo' = depthIndex[back] .. depthIndex[back + 1] - 1
    <3>1. step' = "back" /\ back' = back - 1 /\ todo' = Level(back - 1)
      BY <1>5 DEF EndBack, BeginLoop
    <3>2. (back - 1) + 1 = back /\ (back - 1) + 2 = back + 1
      OBVIOUS
    <3> QED
      BY <3>1, <3>2 DEF Level
  <2>2. todo' \subseteq 0 .. queue.in - 1
    <3>1. depthIndex \in Seq(Nat) /\ Len(depthIndex) = k + 3
      BY <1>2 DEF IndexOK
    <3>2. back \in DOMAIN depthIndex /\ back + 1 \in DOMAIN depthIndex
      BY <1>2, <1>5, <3>1
    <3>3. \A d \in DOMAIN depthIndex : depthIndex[d] \in Nat /\ depthIndex[d] <= queue.end
      BY <1>2, <3>1 DEF IndexOK
    <3>4. PICK a \in Nat, b \in Nat : a = depthIndex[back] /\ b = depthIndex[back + 1] /\ b <= queue.end
      BY <3>2, <3>3
    <3>5. b <= queue.in /\ queue.in \in Nat
      BY <1>2, <3>4 DEF QueueType
    <3> QED
      BY <2>1, <3>4, <3>5
  <2>3. back' <= k + 1
    BY <1>2, <2>1
  <2>4. QueueOK(f, {})'
    <3>1. \A t \in Threads : ~Flushing(thread[t])
      BY <1>2 DEF AllIdle, Flushing, Idle
    <3> QED
      BY <1>1, <1>2, <3>1, RestartedQueue
  <2>5. IndexOK(depthIndex, k + 1, W, f)'
    BY <1>1, <1>2 DEF IndexOK, AtDepth
  <2>6. \A u \in Node : \A j \in DOMAIN graph'.out[u] : EdgeNumber(u, j)' \in succ' <=> GoesDown(W, u, j)'
    <3>1. \A u, j : EdgeNumber(u, j)' = EdgeNumber(u, j) /\ GoesDown(W, u, j)' = GoesDown(W, u, j)
      BY <1>1 DEF EdgeNumber, EdgesBefore, GoesDown, AtDepth
    <3> QED
      BY <1>1, <3>1 DEF BackInv
  <2>7. BackInv(W, C, k, f)'
    BY <1>1, <1>3, <2>1, <2>2, <2>3, <2>4, <2>5, <2>6 DEF BackInv, AtDepth
  <2> QED
    BY <2>7
<1> QED
  BY <1>4, <1>5

-----------------------------------------------------------------------------
(* Where a source begins, and which steps there are                        *)

\* The queue that holds the source alone.
LEMMA FirstQueue ==
  ASSUME NEW s \in Node, queue' = Slide(PushBack(EmptyQueue, s)),
         thread' = [t \in Threads |-> Idle], buffer' = [t \in Threads |-> <<>>],
         NEW f, f = [i \in 0 .. 0 |-> s]
  PROVE  /\ queue'.in = 1 /\ queue'.start = 0 /\ queue'.end = 1
         /\ f[0] = s /\ QueueOK(f, {})'
<1>1. N \in Nat /\ N > 0 /\ s \in Nat /\ s < N
  BY NodeFacts DEF Node
<1>2. f[0] = s /\ \A i \in 0 .. 0 : i = 0
  OBVIOUS
<1>3. /\ queue'.in = 1 /\ queue'.start = 0 /\ queue'.end = 1
      /\ queue'.shared = [i \in 0 .. N - 1 |-> IF i = 0 THEN s ELSE N]
  BY <1>1 DEF Slide, PushBack, EmptyQueue, Unset
<1>4. QueueType(queue)' /\ queue'.shared[0] = s
  <2>1. \A i \in 0 .. N - 1 : (IF i = 0 THEN s ELSE N) \in 0 .. N
    BY <1>1
  <2>2. queue'.shared \in [0 .. N - 1 -> 0 .. N]
    BY <1>3, <2>1
  <2>3. queue' \in [shared : [0 .. N - 1 -> 0 .. N], in : Nat, start : Nat, end : Nat]
    <3>1. PICK q : q = queue'.shared
      OBVIOUS
    <3>2. queue' = [shared |-> q, in |-> 1, start |-> 0, end |-> 1]
      BY <1>3, <3>1 DEF Slide, PushBack, EmptyQueue
    <3> QED
      BY <2>2, <3>1, <3>2
  <2> QED
    BY <1>1, <1>3, <2>3 DEF QueueType
<1>5. f \in [0 .. queue'.in - 1 -> Node] /\ IsInjective(f)
  BY <1>2, <1>3 DEF IsInjective
<1>6. ASSUME NEW t \in Threads
      PROVE  BufferOK(thread'[t], buffer'[t], queue', f) /\ Loose(thread'[t], buffer'[t]) = {}
  <2>1. thread'[t].at = "idle" /\ buffer'[t] = <<>>
    BY DEF Idle
  <2>2. <<>> \in Seq(Node) /\ IsInjective(<<>>) /\ Elems(<<>>) = {}
    BY SeqFacts DEF IsInjective
  <2> QED
    BY <2>1, <2>2 DEF BufferOK, Loose, Flushing
<1>7. \A i \in 0 .. queue'.in - 1 : f[i] = queue'.shared[i]
  BY <1>2, <1>3, <1>4
<1>8. Ahead(f)' = {}
  BY <1>3 DEF Ahead
<1>9. DOMAIN buffer' = Threads
  OBVIOUS
<1>10. QueueOK(f, {})'
  BY <1>4, <1>5, <1>6, <1>7, <1>8, <1>9 DEF QueueOK, BufferOK, Loose, Flushing, Owes
<1> QED
  BY <1>2, <1>3, <1>10

\* A source is picked.
LEMMA PickStep ==
  ASSUME NEW s \in Node, NEW W, W = Within(s), NEW C, C = ShortestPaths(s),
         PickInv, PickSource(s), graph \in Graphs, sources \in Seq(Node)
  PROVE  /\ \E f, pos : PathsInv(W, C, 0, f, pos)'
         /\ sources' = Append(sources, s) /\ level' = 1
<1>1. PICK first : first = PushBack(EmptyQueue, s)
  OBVIOUS
<1>2. /\ step' = "paths" /\ thread' = [t \in Threads |-> Idle] /\ queue' = Slide(first)
      /\ todo' = Window(Slide(first)) /\ buffer' = buffer /\ graph' = graph
      /\ depths' = [n \in Node |-> IF n = s THEN 0 ELSE -1]
      /\ pathCounts' = [n \in Node |-> IF n = s THEN 1 ELSE 0]
      /\ succ' = {} /\ depthIndex' = <<first.start>> /\ level' = 1
      /\ sources' = Append(sources, s)
  BY <1>1 DEF PickSource, BeginLoop
<1>3. N \in Nat /\ N > 0 /\ 0 \in 0 .. N /\ 1 \in 0 .. N
  BY NodeFacts
<1>4. IsWithin(s, W) /\ IsPaths(s, W, C) /\ W[0] = {s} /\ AtDepth(W, 0) = {s}
  BY WithinLevels, PathsFacts DEF IsWithin, AtDepth
<1>5. PICK f : f = [i \in 0 .. 0 |-> s]
  OBVIOUS
<1>6. /\ queue'.in = 1 /\ queue'.start = 0 /\ queue'.end = 1
      /\ f[0] = s /\ QueueOK(f, {})'
  BY <1>1, <1>2, <1>5, FirstQueue DEF PickInv
<1>7. /\ \A t \in Threads : thread'[t] = Idle /\ Work(thread'[t]) = Idle /\ ~IsCounting(Work(thread'[t]))
                            /\ Work(thread'[t]).at # "addPaths" /\ Work(thread'[t]) # Joined
      /\ DOMAIN thread' = Threads
  BY <1>2 DEF Work, Flushing, Idle, IsCounting, EdgePlaces, Joined
<1>8. Found' = {s} /\ depths'[s] = 0 /\ (\A v \in Node : v # s => depths'[v] = -1)
  <2>1. depths'[s] = 0 /\ (\A v \in Node : v # s => depths'[v] = -1)
    BY <1>2
  <2>2. 0 # -1
    OBVIOUS
  <2> QED
    BY <2>1, <2>2 DEF Found
<1>9. first.start = 0
  BY <1>1 DEF PushBack, EmptyQueue
<1>10. \A i \in queue'.start .. queue'.end - 1 : i = 0
  BY <1>6
<1>10a. queue'.start \in queue'.start .. queue'.end - 1 /\ queue'.start = 0
  BY <1>6
<1>11. todo' = queue'.start .. queue'.end - 1
  BY <1>2 DEF Window
<1>12. InPlace(f, {s})' /\ Old(f)' \subseteq {s}
  <2>1. InPlace(f, {s})'
    BY <1>6, <1>10, <1>10a DEF InPlace
  <2>2. \A i \in 0 .. queue'.end - 1 : i = 0
    BY <1>6
  <2> QED
    BY <1>6, <2>1, <2>2 DEF Old
<1>13. PathQueue(W, 0, f)'
  <2>1. Found' \ W[0] = {}
    BY <1>4, <1>8
  <2>2. QueueOK(f, Found \ W[0])'
    BY <1>6, <2>1
  <2>3. InPlace(f, AtDepth(W, 0))' /\ Old(f)' \subseteq W[0]
    BY <1>4, <1>12 DEF AtDepth
  <2>4. PICK index : index = Append(<<0>>, 0)
    OBVIOUS
  <2>5. index = Append(depthIndex, queue.start)'
    BY <1>2, <1>6, <1>9, <2>4
  <2>6. IndexOK(index, 0, W, f)'
    <3>1. index \in Seq(Nat) /\ Len(index) = 0 + 2
      BY <2>4
    <3>2. \A d \in DOMAIN index : index[d] = 0
      BY <2>4
    <3>3. \A d \in DOMAIN index : index[d] <= queue'.end
      BY <1>6, <3>2
    <3>4. 0 .. 0 - 1 = {}
      OBVIOUS
    <3> QED
      BY <3>1, <3>3, <3>4 DEF IndexOK
  <2> QED
    BY <2>2, <2>3, <2>5, <2>6 DEF PathQueue
<1>14. PathTeam({s}, {s})'
  <2>1. todo' = Window(queue)'
    BY <1>11 DEF Window
  <2>2. \A t \in Threads : PathThread(thread[t], {s}, {s})'
    BY <1>7 DEF PathThread, Idle, Joined, Work, Flushing, IsCounting, EdgePlaces
  <2> QED
    BY <1>7, <2>1, <2>2 DEF PathTeam, Work, Flushing
<1>15. PICK zero : zero = [u \in {s} |-> 0]
  OBVIOUS
<1>16. PosOK({s}, f, zero)'
  <2>1. \A t \in Threads : \A u : ~WorksOn(t, u)'
    BY <1>7 DEF WorksOn, IsCounting, Work, Flushing
  <2>2. \A i \in todo' : f[i] = s
    BY <1>6, <1>10, <1>11
  <2>3. \E i \in todo' : f[i] = s
    BY <1>6, <1>10a, <1>11
  <2>4. zero \in [{s} -> Nat] /\ zero[s] = 0
    BY <1>15
  <2>5. zero[s] <= Len(graph'.out[s])
    <3>1. Len(graph'.out[s]) \in Nat
      BY <1>2, OutFacts
    <3> QED
      BY <2>4, <3>1
  <2>6. 1 .. zero[s] = {}
    BY <2>4
  <2> QED
    BY <2>1, <2>2, <2>3, <2>4, <2>5, <2>6 DEF PosOK
<1>17. PathDepths(W, 0)'
  <2>1. Ring(s, W[0], AtDepth(W, 0), W[Deeper(0)])
    BY <1>3, <1>4, RingFacts
  <2>2. Found' \subseteq W[Deeper(0)]
    BY <1>4, <1>8, <2>1 DEF Ring
  <2>3. \A j \in 0 .. 0 : j = 0
    OBVIOUS
  <2>4. \A j \in 0 .. 0 : \A v \in AtDepth(W, j) : depths'[v] = j
    BY <1>4, <1>8, <2>3
  <2>5. \A v \in Node \ W[0] : depths'[v] \in {-1, 0 + 1}
    BY <1>4, <1>8
  <2> QED
    BY <2>2, <2>4, <2>5 DEF PathDepths, AtDepth
<1>18. PathCounts({s}, {s}, C, zero)'
  <2>1. pathCounts'[s] = 1 /\ C[s] = 1
    BY <1>2, <1>4 DEF IsPaths
  <2>2. \A v \in Node \ {s} : pathCounts'[v] = 0
    BY <1>2
  <2>3. \A v : Counted({s}, zero, v)' = {}
    <3>1. 1 .. zero[s] = {}
      BY <1>15
    <3> QED
      BY <3>1 DEF Counted
  <2>4. SumFunctionOnSet(C, {}) = 0
    BY SumEmpty
  <2> QED
    BY <2>1, <2>2, <2>3, <2>4 DEF PathCounts
<1>19. PathBits(W, {s}, {s}, zero)'
  <2>1. \A u, i : ~Adding(u, i)'
    BY <1>7 DEF Adding, Work, Flushing
  <2>2. ASSUME NEW u \in Node, NEW i \in DOMAIN graph'.out[u] PROVE ~Marked(W, {s}, {s}, zero, u, i)'
    <3>1. i \in Nat /\ i >= 1
      BY <1>2, OutFacts
    <3>2. u \in {s} => ~(i <= zero[u])
      BY <1>15, <3>1
    <3> QED
      BY <2>1, <3>2 DEF Marked
  <2> QED
    BY <1>2, <2>2 DEF PathBits
<1>20. PathsInv(W, C, 0, f, zero)'
  <2>1. AtDepth(W, 0)' = {s} /\ W[0] = {s} /\ level' = 0 + 1
    BY <1>2, <1>4 DEF AtDepth
  <2> QED
    BY <1>2, <1>13, <1>14, <1>16, <1>17, <1>18, <1>19, <2>1 DEF PathsInv
<1> QED
  BY <1>2, <1>20

\* Nothing moves the graph, nor which source is worked on but a pick.
LEMMA BcSameGraph ==
  ASSUME BcNext
  PROVE  /\ kernel' = kernel /\ graph' = graph
         /\ sources' = sources \/ \E s \in Node : PickSource(s)
<1>1. ASSUME NEW t \in Threads, PBFS(t)
      PROVE  kernel' = kernel /\ graph' = graph /\ sources' = sources
  <2>1. ASSUME NEW i \in todo, TakePathVertex(t, i)
        PROVE  kernel' = kernel /\ graph' = graph /\ sources' = sources
    BY <2>1 DEF TakePathVertex, scoreVars
  <2>2. CASE ReadDepth(t) \/ TestDepth(t) \/ ReadBits(t)
    BY <2>2 DEF ReadDepth, TestDepth, ReadBits, Goes, scoreVars
  <2>3. CASE ClaimDepth(t) \/ SwapBits(t) \/ AddPaths(t)
    BY <2>3 DEF ClaimDepth, SwapBits, AddPaths, Goes, BufferPush, scoreVars
  <2>4. CASE step = "paths" /\ Flush(t) /\ UNCHANGED <<pathVars, scoreVars>>
    BY <2>4 DEF Flush, Reserve, CopyOut, LastFlush, Goes, scoreVars
  <2> QED
    BY <1>1, <2>1, <2>2, <2>3, <2>4 DEF PBFS
<1>2. ASSUME NEW i \in todo, Accumulate(i)
      PROVE  kernel' = kernel /\ graph' = graph /\ sources' = sources
  BY <1>2 DEF Accumulate
<1>3. ASSUME NEW s \in Node, PickSource(s)
      PROVE  kernel' = kernel /\ graph' = graph
  BY <1>3 DEF PickSource
<1>4. CASE EndLevel \/ EndBack \/ ReturnScores
  BY <1>4 DEF EndLevel, EndBack, ReturnScores, scoreVars
<1> QED
  BY <1>1, <1>2, <1>3, <1>4 DEF BcNext

\* The reference definitions depend on the graph alone.
LEMMA SamePaths ==
  ASSUME graph' = graph, NEW s
  PROVE  Within(s)' = Within(s) /\ ShortestPaths(s)' = ShortestPaths(s)
<1>1. Within(s)' = Within(s)
  BY DEF Within
<1>2. Depth(s)' = Depth(s)
  BY <1>1 DEF Depth
<1> QED
  BY <1>1, <1>2 DEF ShortestPaths, Edge

\* A step of a thread of the search.
LEMMA PathsStep ==
  ASSUME NEW s, NEW W, NEW C, NEW k, NEW A, NEW L, OnDepth(s, W, C, k, A, L),
         NEW f, NEW pos, PathsInv(W, C, k, f, pos), NEW t \in Threads, PBFS(t)
  PROVE  \E g, p : PathsInv(W, C, k, g, p)'
<1>1. ASSUME NEW i \in todo, TakePathVertex(t, i) PROVE PathsInv(W, C, k, f, pos)'
  BY <1>1, TakePathStep
<1>2. CASE ReadDepth(t)
  BY <1>2, ReadDepthStep
<1>3. CASE ClaimDepth(t)
  BY <1>3, ClaimDepthStep
<1>4. CASE TestDepth(t)
  BY <1>4, TestDepthStep
<1>5. CASE ReadBits(t)
  BY <1>5, ReadBitsStep
<1>6. CASE SwapBits(t)
  BY <1>6, SwapBitsStep
<1>7. CASE AddPaths(t)
  BY <1>7, AddPathsStep
<1>8. CASE step = "paths" /\ Flush(t) /\ UNCHANGED <<pathVars, scoreVars>>
  BY <1>8, PathFlushes
<1> QED
  BY <1>1, <1>2, <1>3, <1>4, <1>5, <1>6, <1>7, <1>8 DEF PBFS

\* The threads' buffers remain sequences of vertices.
LEMMA BuffersKept ==
  ASSUME buffer \in [Threads -> Seq(Node)], NEW f, NEW New, QueueOK(f, New)', NEW t,
         buffer' = buffer \/ \E X : buffer' = [buffer EXCEPT ![t] = X]
  PROVE  buffer' \in [Threads -> Seq(Node)]
<1>1. \A r \in Threads : buffer'[r] \in Seq(Node)
  BY DEF QueueOK, BufferOK
<1>2. CASE buffer' = buffer
  BY <1>2
<1>3. ASSUME NEW X, buffer' = [buffer EXCEPT ![t] = X] PROVE buffer' = [r \in Threads |-> buffer'[r]]
  BY <1>3
<1> QED
  BY <1>1, <1>2, <1>3

\* What a step of the search may change.
SearchMoves(t) ==
  /\ buffer' = buffer \/ \E X : buffer' = [buffer EXCEPT ![t] = X]
  /\ depths' = depths \/ \E v : depths' = [depths EXCEPT ![v] = level]
  /\ \/ pathCounts' = pathCounts
     \/ /\ thread[t].at = "addPaths"
        /\ \E v : pathCounts' = [pathCounts EXCEPT ![v] = @ + pathCounts[thread[t].u]]
  /\ \/ succ' = succ
     \/ /\ thread[t].at = "swapBits"
        /\ succ' = succ \cup {EdgeNumber(thread[t].u, thread[t].i)}
  /\ level' = level /\ depthIndex' = depthIndex
  /\ back' = back /\ deltas' = deltas /\ scores' = scores

\* What a thread of the search may change.
LEMMA MovesOfSearch ==
  ASSUME NEW t \in Threads, PBFS(t)
  PROVE  SearchMoves(t)
<1>1. ASSUME NEW i \in todo, TakePathVertex(t, i) PROVE SearchMoves(t)
  BY <1>1 DEF TakePathVertex, Take, queueVars, pathVars, scoreVars, SearchMoves
<1>2. CASE ReadDepth(t) \/ TestDepth(t) \/ ReadBits(t)
  BY <1>2 DEF ReadDepth, TestDepth, ReadBits, queueVars, pathVars, scoreVars, SearchMoves
<1>3. CASE ClaimDepth(t)
  BY <1>3 DEF ClaimDepth, BufferPush, scoreVars, SearchMoves
<1>4. CASE SwapBits(t)
  BY <1>4 DEF SwapBits, queueVars, scoreVars, SearchMoves
<1>5. CASE AddPaths(t)
  BY <1>5 DEF AddPaths, queueVars, scoreVars, SearchMoves
<1>6. CASE step = "paths" /\ Flush(t) /\ UNCHANGED <<pathVars, scoreVars>>
  BY <1>6 DEF Flush, Reserve, CopyOut, LastFlush, queueVars, pathVars, scoreVars, SearchMoves
<1> QED
  BY <1>1, <1>2, <1>3, <1>4, <1>5, <1>6 DEF PBFS

\* Types, kept by the steps of the search.
LEMMA PathsTypes ==
  ASSUME BcTypes, NEW s, NEW W, NEW C, NEW k, NEW A, NEW L, OnDepth(s, W, C, k, A, L),
         NEW f, NEW pos, PathsInv(W, C, k, f, pos), NEW t \in Threads, PBFS(t),
         kernel' = kernel, graph' = graph, sources' = sources
  PROVE  BcTypes'
<1>1. PICK g, p : PathsInv(W, C, k, g, p)'
  BY PathsStep
<1>2. PICK New : QueueOK(g, New)'
  BY <1>1 DEF PathsInv, PathQueue
<1>3. PICK th : th = thread[t]
  OBVIOUS
<1>4. PathThread(th, A, L)
  BY <1>3, PathsParts
<1>5. /\ sources \in Seq(Node) /\ Len(sources) <= NumIters
      /\ buffer \in [Threads -> Seq(Node)]
      /\ depths \in [Node -> -1 .. N] /\ level \in 0 .. N
      /\ pathCounts \in [Node -> Nat] /\ succ \subseteq Nat
      /\ depthIndex \in Seq(0 .. N) /\ back \in Nat
      /\ deltas \in [Node -> Nat] /\ scores \in [Node -> Nat]
  BY DEF BcTypes
<1>6. SearchMoves(t)
  BY MovesOfSearch
<1>7. buffer' \in [Threads -> Seq(Node)]
  <2>1. buffer' = buffer \/ \E X : buffer' = [buffer EXCEPT ![t] = X]
    BY <1>6 DEF SearchMoves
  <2> QED
    BY <1>2, <1>5, <2>1, BuffersKept
<1>8. depths' \in [Node -> -1 .. N]
  <2>1. level \in -1 .. N
    BY <1>5
  <2>2. depths' = depths \/ \E v : depths' = [depths EXCEPT ![v] = level]
    BY <1>6 DEF SearchMoves
  <2> QED
    BY <1>5, <2>1, <2>2
<1>9. th.at \in OnLevel => /\ th.u \in Node /\ th.i \in DOMAIN graph.out[th.u]
  BY <1>4, AtEdgeFacts, OnDepthFacts DEF EdgePlaces, OnLevel
<1>10. pathCounts' \in [Node -> Nat]
  <2>1. CASE th.at = "addPaths"
    <3>1. PICK n \in Nat : n = pathCounts[th.u]
      BY <1>5, <1>9, <2>1 DEF OnLevel
    <3>2. pathCounts' = pathCounts \/ \E v : pathCounts' = [pathCounts EXCEPT ![v] = @ + n]
      BY <1>3, <1>6, <3>1 DEF SearchMoves
    <3>3. \A v \in Node : pathCounts[v] + n \in Nat
      BY <1>5, <3>1
    <3>4. ASSUME NEW v, pathCounts' = [pathCounts EXCEPT ![v] = @ + n] PROVE pathCounts' \in [Node -> Nat]
      <4>1. CASE v \in Node
        BY <1>5, <3>3, <3>4, <4>1
      <4>2. CASE v \notin Node
        BY <1>5, <3>4, <4>2
      <4> QED
        BY <4>1, <4>2
    <3> QED
      BY <1>5, <3>2, <3>4
  <2>2. CASE th.at # "addPaths"
    BY <1>3, <1>5, <1>6, <2>2 DEF SearchMoves
  <2> QED
    BY <2>1, <2>2
<1>11. succ' \subseteq Nat
  <2>1. CASE th.at = "swapBits"
    <3>1. EdgeNumber(th.u, th.i) \in Nat
      BY <1>9, <2>1, EdgeNumbersDiffer DEF OnLevel, BcTypes
    <3> QED
      BY <1>3, <1>5, <1>6, <3>1 DEF SearchMoves
  <2>2. CASE th.at # "swapBits"
    BY <1>3, <1>5, <1>6, <2>2 DEF SearchMoves
  <2> QED
    BY <2>1, <2>2
<1> QED
  BY <1>5, <1>6, <1>7, <1>8, <1>10, <1>11 DEF BcTypes, SearchMoves

\* Types, kept at the end of a level.
LEMMA EndLevelTypes ==
  ASSUME BcTypes, NEW s, NEW W, NEW C, NEW k, NEW A, NEW L, OnDepth(s, W, C, k, A, L),
         NEW f, NEW pos, PathsInv(W, C, k, f, pos), EndLevel,
         kernel' = kernel, graph' = graph, sources' = sources
  PROVE  BcTypes'
<1>1. /\ buffer' = buffer /\ depths' = depths /\ pathCounts' = pathCounts /\ succ' = succ
      /\ deltas' = deltas /\ scores' = scores
  BY DEF EndLevel
<1>2. PICK index, slid : index = Append(depthIndex, queue.start) /\ slid = Slide(queue)
  OBVIOUS
<1>3. QueueType(queue) /\ queue.in <= N
  <2>1. QueueOK(f, Found \ A)
    BY PathsParts
  <2> QED
    BY <2>1, QueueFits DEF QueueOK
<1>4. queue.start \in 0 .. N /\ slid.start \in 0 .. N
  <2>1. slid.start = queue.end
    BY <1>2, <1>3 DEF Slide, QueueType
  <2> QED
    BY <1>3, <2>1, NodeFacts DEF QueueType
<1>5. index \in Seq(0 .. N) /\ Append(index, slid.start) \in Seq(0 .. N) /\ Len(index) \in Nat \ {0}
  BY <1>2, <1>4 DEF BcTypes
<1>6. depthIndex' \in Seq(0 .. N)
  BY <1>2, <1>5 DEF EndLevel
<1>7. CASE QueueEmpty(slid)
  <2>1. back' = Len(index) - 1 /\ level' = level
    BY <1>2, <1>7 DEF EndLevel
  <2>2. back' \in Nat
    BY <1>5, <2>1
  <2> QED
    BY <1>1, <1>6, <2>1, <2>2 DEF BcTypes
<1>8. CASE ~QueueEmpty(slid)
  <2>1. back' = back /\ level' = level + 1
    BY <1>2, <1>8 DEF EndLevel
  <2>2. level' \in 0 .. N
    <3>1. level = k + 1 /\ k < N /\ k \in Nat
      BY OnDepthFacts, PathsParts
    <3>2. step' = "paths"
      BY <1>2, <1>8 DEF EndLevel, BeginLoop
    <3>3. PICK j \in 0 .. N : \E p : PathsInv(W, C, j, f, p)'
      BY <3>2, EndLevelStep DEF BackInv
    <3>4. AtDepth(W, j) # {} /\ level' = j + 1
      BY <3>3 DEF PathsInv, AtDepth
    <3>5. j # N
      BY <3>4, DepthLevels DEF OnDepth
    <3> QED
      BY <3>4, <3>5, NodeFacts
  <2> QED
    BY <1>1, <1>6, <2>1, <2>2 DEF BcTypes
<1> QED
  BY <1>7, <1>8

-----------------------------------------------------------------------------
(* The invariant holds always                                              *)

\* Where a thread of the search must be.
LEMMA SearchPlace ==
  ASSUME NEW t \in Threads, PBFS(t)
  PROVE  step = "paths" \/ thread[t].at \in EdgePlaces
<1>1. (\E i \in todo : TakePathVertex(t, i)) => step = "paths"
  BY DEF TakePathVertex
<1>2. ReadDepth(t) \/ ClaimDepth(t) \/ TestDepth(t) \/ ReadBits(t) \/ SwapBits(t) \/ AddPaths(t)
        => thread[t].at \in EdgePlaces
  BY DEF ReadDepth, ClaimDepth, TestDepth, ReadBits, SwapBits, AddPaths, EdgePlaces
<1> QED
  BY <1>1, <1>2 DEF PBFS

\* Which steps there are when all threads are idle.
LEMMA IdleMoves ==
  ASSUME BcNext, AllIdle, step # "paths"
  PROVE  \/ step = "back" /\ ((\E i \in todo : Accumulate(i)) \/ EndBack)
         \/ step = "pick" /\ ((\E s \in Node : PickSource(s)) \/ ReturnScores)
<1>1. ASSUME NEW t \in Threads, PBFS(t) PROVE FALSE
  <2>1. thread[t].at = "idle"
    BY DEF AllIdle, Idle
  <2> QED
    BY <1>1, <2>1, SearchPlace DEF EdgePlaces
<1>2. ~EndLevel
  BY DEF EndLevel
<1>3. \A i \in todo : Accumulate(i) => step = "back"
  BY DEF Accumulate
<1>4. EndBack => step = "back"
  BY DEF EndBack
<1>5. \A s \in Node : PickSource(s) => step = "pick"
  BY DEF PickSource
<1>6. ReturnScores => step = "pick"
  BY DEF ReturnScores
<1> QED
  BY <1>1, <1>2, <1>3, <1>4, <1>5, <1>6 DEF BcNext

\* Types, kept on the walk back.
LEMMA BackTypes ==
  ASSUME BcTypes, NEW s \in Node, NEW W, W = Within(s), NEW C, C = ShortestPaths(s),
         NEW k \in 0 .. N, NEW f, BackInv(W, C, k, f),
         (\E i \in todo : Accumulate(i)) \/ EndBack, kernel' = kernel, graph' = graph, sources' = sources
  PROVE  BcTypes'
<1>1. ASSUME NEW i \in todo, Accumulate(i) PROVE BcTypes'
  <2>1. PICK u : u = queue.shared[i]
    OBVIOUS
  <2>2. /\ deltas' = [deltas EXCEPT ![u] = Dependency(u)]
        /\ scores' = [scores EXCEPT ![u] = @ + Dependency(u)]
        /\ buffer' = buffer /\ depths' = depths /\ level' = level /\ pathCounts' = pathCounts /\ succ' = succ
        /\ depthIndex' = depthIndex /\ back' = back
    BY <1>1, <2>1 DEF Accumulate, queueVars, pathVars
  <2>3. u \in Node
    <3>1. QueueOK(f, {}) /\ AllIdle /\ i \in 0 .. queue.in - 1
      BY DEF BackInv
    <3>2. \A t \in Threads : ~Flushing(thread[t])
      BY <3>1 DEF AllIdle, Flushing, Idle
    <3>3. queue.shared[i] = f[i]
      BY <3>1, <3>2, SharedComplete
    <3> QED
      BY <2>1, <3>1, <3>3 DEF QueueOK
  <2>4. PICK d \in Nat : d = Dependency(u)
    BY <2>3, PathsFacts, DependencyNat DEF BcTypes
  <2>5. deltas' \in [Node -> Nat] /\ scores' \in [Node -> Nat]
    <3>1. deltas \in [Node -> Nat] /\ scores \in [Node -> Nat]
      BY DEF BcTypes
    <3>2. deltas' = [deltas EXCEPT ![u] = d] /\ scores' = [scores EXCEPT ![u] = @ + d]
      BY <2>2, <2>4
    <3> QED
      BY ONLY <2>3, <2>4, <3>1, <3>2
  <2> QED
    BY <2>2, <2>5 DEF BcTypes
<1>2. CASE EndBack
  <2>1. /\ buffer' = buffer /\ depths' = depths /\ level' = level /\ pathCounts' = pathCounts /\ succ' = succ
        /\ depthIndex' = depthIndex /\ deltas' = deltas /\ scores' = scores
        /\ back' = back \/ (back # 0 /\ back' = back - 1)
    BY <1>2 DEF EndBack, queueVars, pathVars
  <2>2. back' \in Nat
    BY <2>1 DEF BcTypes
  <2> QED
    BY <2>1, <2>2 DEF BcTypes
<1> QED
  BY <1>1, <1>2

\* Types, when a source is picked.
LEMMA PickTypes ==
  ASSUME BcTypes, PickInv, NEW s \in Node, PickSource(s), kernel' = kernel, graph' = graph
  PROVE  BcTypes' /\ sources' # <<>> /\ sources'[Len(sources')] = s
<1>1. /\ sources' = Append(sources, s) /\ Len(sources) < NumIters
      /\ depths' = [n \in Node |-> IF n = s THEN 0 ELSE -1]
      /\ pathCounts' = [n \in Node |-> IF n = s THEN 1 ELSE 0]
      /\ succ' = {} /\ depthIndex' = <<PushBack(EmptyQueue, s).start>> /\ level' = 1
      /\ deltas' = [n \in Node |-> 0] /\ buffer' = buffer /\ back' = back /\ scores' = scores
  BY DEF PickSource
<1>2. N \in Nat /\ N > 0 /\ 1 \in 0 .. N /\ 0 \in 0 .. N /\ NumIters \in Nat /\ 0 \in -1 .. N /\ -1 \in -1 .. N
  BY NodeFacts, BrandesAssumption
<1>3. /\ sources' \in Seq(Node) /\ Len(sources') <= NumIters /\ sources' # <<>>
      /\ sources'[Len(sources')] = s
  <2>1. PICK z : z = sources
    OBVIOUS
  <2>2. /\ z \in Seq(Node) /\ Len(z) < NumIters /\ Len(z) \in Nat
    BY <1>1, <2>1 DEF BcTypes
  <2>3. /\ Append(z, s) \in Seq(Node) /\ Len(Append(z, s)) = Len(z) + 1
        /\ Append(z, s)[Len(z) + 1] = s
    BY <2>2
  <2>4. Len(Append(z, s)) <= NumIters /\ Append(z, s) # <<>>
    <3>1. Len(z) + 1 <= NumIters
      BY <1>2, <2>2
    <3>2. Len(z) + 1 # 0
      BY <2>2
    <3> QED
      BY <2>3, <3>1, <3>2
  <2> QED
    BY <1>1, <2>1, <2>3, <2>4
<1>4. PushBack(EmptyQueue, s).start = 0
  BY DEF PushBack, EmptyQueue
<1>5. depthIndex' \in Seq(0 .. N)
  BY <1>1, <1>2, <1>4
<1>6. /\ depths' \in [Node -> -1 .. N] /\ pathCounts' \in [Node -> Nat] /\ deltas' \in [Node -> Nat]
  BY <1>1, <1>2
<1> QED
  BY <1>1, <1>2, <1>3, <1>5, <1>6 DEF BcTypes

\* The invariant holds when the program starts.
LEMMA BcStarts == BcInit => BcInv
<1> SUFFICES ASSUME BcInit PROVE BcInv
  OBVIOUS
<1>1. N \in Nat /\ N > 0 /\ 0 \in 0 .. N /\ 0 \in -1 .. N /\ -1 \in -1 .. N /\ NumIters \in Nat
  BY NodeFacts, BrandesAssumption
<1>2. BcTypes
  <2>1. <<>> \in Seq(Node) /\ <<>> \in Seq(0 .. N) /\ Len(<<>>) = 0
    OBVIOUS
  <2>2. /\ depths \in [Node -> -1 .. N] /\ pathCounts \in [Node -> Nat] /\ deltas \in [Node -> Nat]
        /\ scores \in [Node -> Nat] /\ buffer \in [Threads -> Seq(Node)]
    BY <1>1, <2>1 DEF BcInit
  <2>3. /\ kernel = "bc" /\ graph \in Graphs /\ sources = <<>> /\ level = 0 /\ succ = {} /\ depthIndex = <<>>
        /\ back = 0
    BY DEF BcInit
  <2> QED
    BY <1>1, <2>1, <2>2, <2>3 DEF BcTypes
<1>3. PickInv
  <2>1. /\ queue = EmptyQueue /\ step = "pick" /\ todo = {} /\ AllIdle
        /\ buffer = [t \in Threads |-> <<>>]
    BY DEF BcInit, AllIdle
  <2>2. queue.in = 0 /\ queue.start = 0 /\ queue.end = 0 /\ queue.shared = [i \in 0 .. N - 1 |-> N]
    BY <2>1 DEF EmptyQueue, Unset
  <2>3. queue \in [shared : [0 .. N - 1 -> 0 .. N], in : Nat, start : Nat, end : Nat]
    <3>1. PICK h : h = [i \in 0 .. N - 1 |-> N]
      OBVIOUS
    <3>2. h \in [0 .. N - 1 -> 0 .. N]
      BY <1>1, <3>1
    <3>3. queue = [shared |-> h, in |-> 0, start |-> 0, end |-> 0]
      BY <2>1, <3>1 DEF EmptyQueue, Unset
    <3> QED
      BY <3>2, <3>3
  <2> QED
    BY <1>1, <2>1, <2>2, <2>3 DEF PickInv, QueueType
<1> QED
  BY <1>2, <1>3 DEF BcInv

\* Stuttering keeps all of it.
LEMMA BcStutters ==
  ASSUME BcInv, UNCHANGED bcVars
  PROVE  BcInv'
<1>1. /\ kernel' = kernel /\ graph' = graph /\ step' = step /\ todo' = todo
      /\ thread' = thread /\ queue' = queue /\ buffer' = buffer
      /\ depths' = depths /\ level' = level /\ pathCounts' = pathCounts /\ succ' = succ
      /\ depthIndex' = depthIndex /\ sources' = sources /\ back' = back /\ deltas' = deltas
      /\ scores' = scores
  BY DEF bcVars, teamVars, queueVars, pathVars, scoreVars
<1>2. BcTypes'
  BY <1>1 DEF BcInv, BcTypes
<1>3. CASE PickInv
  BY <1>1, <1>2, <1>3 DEF BcInv, PickInv, AllIdle
<1>4. ASSUME NEW s, SourceInv(s) PROVE SourceInv(s)'
  <2>1. PICK W, C : W = Within(s) /\ C = ShortestPaths(s)
    OBVIOUS
  <2>2. Within(s)' = W /\ ShortestPaths(s)' = C
    BY <1>1, <2>1, SamePaths
  <2>3. /\ \A u, i : EdgeNumber(u, i)' = EdgeNumber(u, i) /\ GoesDown(W, u, i)' = GoesDown(W, u, i)
        /\ Found' = Found
    BY <1>1 DEF EdgeNumber, EdgesBefore, GoesDown, AtDepth, Found
  <2>4. ASSUME NEW index, NEW m, NEW f, IndexOK(index, m, W, f) PROVE IndexOK(index, m, W, f)'
    BY <1>1, <2>4 DEF IndexOK, AtDepth
  <2>5. ASSUME NEW k, NEW f, NEW pos, PathsInv(W, C, k, f, pos) PROVE PathsInv(W, C, k, f, pos)'
    <3>1. PICK A, L, New, index : /\ A = W[k] /\ L = AtDepth(W, k) /\ New = Found \ W[k]
                                  /\ index = Append(depthIndex, queue.start)
      OBVIOUS
    <3>2. /\ step = "paths" /\ L # {} /\ level = k + 1
          /\ PathQueue(W, k, f) /\ PathTeam(A, L) /\ PosOK(L, f, pos) /\ PathDepths(W, k)
          /\ PathCounts(A, L, C, pos) /\ PathBits(W, A, L, pos)
      BY <2>5, <3>1 DEF PathsInv
    <3>3. PathQueue(W, k, f)'
      <4>1. QueueOK(f, New) /\ InPlace(f, L) /\ Old(f) \subseteq A /\ IndexOK(index, k, W, f)
        BY <3>1, <3>2 DEF PathQueue
      <4>2. QueueOK(f, New)'
        BY <1>1, <4>1, SameQueue
      <4>3. IndexOK(index, k, W, f)'
        BY <2>4, <4>1
      <4>4. New = Found' \ W[k] /\ index = Append(depthIndex, queue.start)' /\ L = AtDepth(W, k)'
        BY <1>1, <2>3, <3>1 DEF AtDepth
      <4>5. InPlace(f, L)' /\ Old(f)' \subseteq A
        BY <1>1, <4>1 DEF InPlace, Old
      <4>6. QueueOK(f, Found \ W[k])' /\ InPlace(f, AtDepth(W, k))' /\ IndexOK(Append(depthIndex, queue.start), k, W, f)'
        BY <4>2, <4>3, <4>4, <4>5
      <4> QED
        BY <3>1, <4>5, <4>6 DEF PathQueue
    <3>4. PathTeam(A, L)'
      <4>1. \A t \in Threads : PathThread(thread[t], A, L)'
        BY <1>1, <2>3, <3>2 DEF PathTeam, PathThread, Counting
      <4> QED
        BY <1>1, <3>2, <4>1 DEF PathTeam, Window, Work, Flushing
    <3>5. PosOK(L, f, pos)'
      <4>1. \A t, u : WorksOn(t, u)' <=> WorksOn(t, u)
        BY <1>1 DEF WorksOn, IsCounting, Work, Flushing
      <4>2. \A t : Work(thread[t])' = Work(thread[t])
        BY <1>1 DEF Work, Flushing
      <4> QED
        BY <1>1, <2>3, <3>2, <4>1, <4>2 DEF PosOK
    <3>6. PathDepths(W, k)' /\ PathCounts(A, L, C, pos)'
      BY <1>1, <3>2, DepthsKept, CountsKept
    <3>7. PathBits(W, A, L, pos)'
      <4>1. \A u, i : Adding(u, i)' <=> Adding(u, i)
        BY <1>1 DEF Adding, Work, Flushing
      <4>2. \A u, i : Marked(W, A, L, pos, u, i)' <=> Marked(W, A, L, pos, u, i)
        BY <1>1, <2>3, <4>1 DEF Marked
      <4> QED
        BY <1>1, <2>3, <3>2, <4>2 DEF PathBits
    <3>8. W[k] = A /\ AtDepth(W, k)' = L
      BY <3>1 DEF AtDepth
    <3> QED
      BY <1>1, <3>2, <3>3, <3>4, <3>5, <3>6, <3>7, <3>8 DEF PathsInv
  <2>6. ASSUME NEW k, NEW f, BackInv(W, C, k, f) PROVE BackInv(W, C, k, f)'
    <3>1. QueueOK(f, {})' /\ IndexOK(depthIndex, k + 1, W, f)'
      <4>1. QueueOK(f, {})'
        BY <1>1, <2>6, SameQueue DEF BackInv
      <4>2. PICK index : index = depthIndex
        OBVIOUS
      <4>3. IndexOK(index, k + 1, W, f)'
        BY <2>4, <2>6, <4>2 DEF BackInv
      <4> QED
        BY <1>1, <4>1, <4>2, <4>3
    <3>2. \A u \in Node : \A i \in DOMAIN graph'.out[u] : EdgeNumber(u, i)' \in succ' <=> GoesDown(W, u, i)'
      BY <1>1, <2>3, <2>6 DEF BackInv
    <3> QED
      BY <1>1, <2>6, <3>1, <3>2 DEF BackInv, AllIdle, AtDepth
  <2>7. PICK k \in 0 .. N : \E f : (\E pos : PathsInv(W, C, k, f, pos)) \/ BackInv(W, C, k, f)
    BY <1>4, <2>1 DEF SourceInv
  <2>8. PICK f : (\E pos : PathsInv(W, C, k, f, pos)) \/ BackInv(W, C, k, f)
    BY <2>7
  <2> QED
    BY <2>2, <2>5, <2>6, <2>8 DEF SourceInv
<1> QED
  BY <1>1, <1>2, <1>3, <1>4 DEF BcInv

\* Every step keeps it.
LEMMA BcMoves ==
  ASSUME BcInv, BcNext
  PROVE  BcInv'
<1>1. kernel' = kernel /\ graph' = graph /\ (sources' = sources \/ \E s \in Node : PickSource(s))
  BY BcSameGraph
<1>2. BcTypes /\ graph \in Graphs /\ sources \in Seq(Node) /\ back \in Nat /\ buffer \in [Threads -> Seq(Node)]
  BY DEF BcInv, BcTypes
<1>3. CASE PickInv
  <2>1. step # "paths" /\ step # "back" /\ AllIdle
    BY <1>3 DEF PickInv
  <2>2. ASSUME NEW s \in Node, PickSource(s) PROVE BcInv'
    <3>1. PICK W, C : W = Within(s) /\ C = ShortestPaths(s)
      OBVIOUS
    <3>2. Within(s)' = W /\ ShortestPaths(s)' = C
      BY <1>1, <3>1, SamePaths
    <3>3. \E f, pos : PathsInv(W, C, 0, f, pos)'
      BY <1>2, <1>3, <2>2, <3>1, PickStep
    <3>4. BcTypes' /\ sources' # <<>> /\ sources'[Len(sources')] = s
      BY <1>1, <1>2, <1>3, <2>2, PickTypes
    <3>5. 0 \in 0 .. N
      BY NodeFacts
    <3>6. SourceInv(s)'
      BY <3>2, <3>3, <3>5 DEF SourceInv
    <3>7. SourceInv(sources[Len(sources)])'
      BY <3>4, <3>6
    <3> QED
      BY <3>4, <3>7 DEF BcInv
  <2>3. CASE ReturnScores
    <3>1. /\ step' = "done" /\ todo' = {} /\ thread' = [t \in Threads |-> Idle] /\ queue' = queue
          /\ buffer' = buffer /\ depths' = depths /\ level' = level /\ pathCounts' = pathCounts /\ succ' = succ
          /\ depthIndex' = depthIndex /\ sources' = sources /\ back' = back /\ deltas' = deltas
          /\ scores' = scores
      BY <2>3 DEF ReturnScores, BeginLoop, queueVars, pathVars, scoreVars
    <3>2. BcTypes'
      BY <1>1, <1>2, <3>1 DEF BcTypes
    <3>3. PickInv'
      BY <1>3, <3>1 DEF PickInv, AllIdle
    <3> QED
      BY <3>2, <3>3 DEF BcInv
  <2> QED
    BY <2>1, <2>2, <2>3, IdleMoves
<1>4. CASE sources # <<>> /\ SourceInv(sources[Len(sources)])
  <2>1. PICK s : s = sources[Len(sources)]
    OBVIOUS
  <2>2. s \in Node
    <3>1. Len(sources) \in DOMAIN sources
      BY <1>2, <1>4
    <3> QED
      BY <1>2, <2>1, <3>1
  <2>3. PICK W, C : W = Within(s) /\ C = ShortestPaths(s)
    OBVIOUS
  <2>4. Within(s)' = W /\ ShortestPaths(s)' = C
    BY <1>1, <2>3, SamePaths
  <2>5. PICK k \in 0 .. N : \E f : (\E pos : PathsInv(W, C, k, f, pos)) \/ BackInv(W, C, k, f)
    BY <1>4, <2>1, <2>3 DEF SourceInv
  <2>9. PICK f : (\E pos : PathsInv(W, C, k, f, pos)) \/ BackInv(W, C, k, f)
    BY <2>5
  <2>6. ASSUME sources' = sources, BcTypes',
               \/ \E j \in 0 .. N : \E g, p : PathsInv(W, C, j, g, p)'
               \/ \E j \in 0 .. N : \E g : BackInv(W, C, j, g)'
        PROVE  BcInv'
    <3>1. SourceInv(s)'
      BY <2>4, <2>6 DEF SourceInv
    <3>2. SourceInv(sources[Len(sources)])'
      BY <2>1, <2>6, <3>1
    <3> QED
      BY <1>4, <2>6, <3>2 DEF BcInv
  <2>7. ASSUME NEW pos, PathsInv(W, C, k, f, pos) PROVE BcInv'
    <3>1. PICK A, L : A = W[k] /\ L = AtDepth(W, k)
      OBVIOUS
    <3>2. OnDepth(s, W, C, k, A, L)
      BY <1>2, <2>2, <2>3, <2>7, <3>1 DEF OnDepth, PathsInv, BcTypes
    <3>3. step = "paths"
      BY <2>7 DEF PathsInv
    <3>4. sources' = sources
      BY <1>1, <3>3 DEF PickSource
    <3>5. (\E t \in Threads : PBFS(t)) \/ EndLevel
      BY <3>3 DEF BcNext, Accumulate, PickSource, EndBack, ReturnScores
    <3>6. ASSUME NEW t \in Threads, PBFS(t) PROVE BcInv'
      <4>1. \E g, p : PathsInv(W, C, k, g, p)'
        BY <2>7, <3>2, <3>6, PathsStep
      <4>2. BcTypes'
        BY <1>1, <1>2, <2>7, <3>2, <3>4, <3>6, PathsTypes
      <4> QED
        BY <2>6, <3>4, <4>1, <4>2
    <3>7. CASE EndLevel
      <4>1. (\E j \in 0 .. N : \E p : PathsInv(W, C, j, f, p)') \/ BackInv(W, C, k, f)'
        BY <2>7, <3>2, <3>7, EndLevelStep
      <4>2. BcTypes'
        BY <1>1, <1>2, <2>7, <3>2, <3>4, <3>7, EndLevelTypes
      <4> QED
        BY <2>6, <3>4, <4>1, <4>2
    <3> QED
      BY <3>5, <3>6, <3>7
  <2>8. CASE BackInv(W, C, k, f)
    <3>1. step = "back" /\ AllIdle /\ k \in Nat
      BY <2>8, NodeFacts DEF BackInv
    <3>2. (\E i \in todo : Accumulate(i)) \/ EndBack
      BY <3>1, IdleMoves
    <3>3. sources' = sources
      BY <1>1, <3>1 DEF PickSource
    <3>4. BcTypes'
      BY <1>1, <1>2, <2>2, <2>3, <2>8, <3>2, <3>3, BackTypes
    <3>5. ASSUME NEW i \in todo, Accumulate(i) PROVE BcInv'
      <4>1. BackInv(W, C, k, f)'
        BY <2>8, <3>5, AccumulateStep
      <4> QED
        BY <2>6, <3>3, <3>4, <4>1
    <3>6. CASE EndBack
      <4>1. PickInv' \/ BackInv(W, C, k, f)'
        BY <1>2, <2>8, <3>1, <3>6, EndBackStep
      <4>2. CASE PickInv'
        BY <3>4, <4>2 DEF BcInv
      <4>3. CASE BackInv(W, C, k, f)'
        BY <2>6, <3>3, <3>4, <4>3
      <4> QED
        BY <4>1, <4>2, <4>3
    <3> QED
      BY <3>2, <3>5, <3>6
  <2> QED
    BY <2>7, <2>8, <2>9
<1> QED
  BY <1>3, <1>4 DEF BcInv

\* So it always holds.
LEMMA BcAlways == BcSpec => []BcInv
<1>1. BcInv /\ [BcNext]_bcVars => BcInv'
  BY BcMoves, BcStutters
<1> QED
  BY <1>1, BcStarts, PTL DEF BcSpec

-----------------------------------------------------------------------------
(* The theorems about Brandes                                              *)

\* A level in the index: its range of the queue holds each vertex of that
\* depth once.
LEMMA LevelHolds ==
  ASSUME graph \in Graphs, NEW s \in Node, NEW W, W = Within(s), NEW C, NEW k \in 0 .. N, NEW f,
         BackInv(W, C, k, f), NEW j \in 0 .. k, NEW R, R = Level(j + 1)
  PROVE  /\ {queue.shared[i] : i \in R} = AtDepth(W, j)
         /\ Cardinality(R) = Cardinality(AtDepth(W, j))
<1>1. /\ QueueOK(f, {}) /\ AllIdle /\ IndexOK(depthIndex, k + 1, W, f)
  BY DEF BackInv
<1>2. /\ queue.in \in Nat /\ queue.end \in Nat /\ queue.end <= queue.in
      /\ f \in [0 .. queue.in - 1 -> Node] /\ IsInjective(f)
  BY <1>1 DEF QueueOK, QueueType
<1>3. k \in Nat /\ j \in Nat /\ j + 2 \in 1 .. k + 3 /\ j + 3 \in 1 .. k + 3 /\ (j + 1) + 1 = j + 2 /\ (j + 1) + 2 = j + 3
      /\ j \in 0 .. (k + 1) - 1 /\ (k + 1) + 2 = k + 3
  BY NodeFacts
<1>4. /\ depthIndex \in Seq(Nat) /\ Len(depthIndex) = k + 3
      /\ \A d \in DOMAIN depthIndex : depthIndex[d] <= queue.end
      /\ {f[i] : i \in depthIndex[j + 2] .. depthIndex[j + 3] - 1} = AtDepth(W, j)
  BY <1>1, <1>3 DEF IndexOK
<1>5. PICK a, b : a = depthIndex[j + 2] /\ b = depthIndex[j + 3]
  OBVIOUS
<1>6. a \in Nat /\ b \in Nat /\ b <= queue.end
  <2>1. \A d \in DOMAIN depthIndex : depthIndex[d] \in Nat
    BY <1>4
  <2>2. j + 2 \in DOMAIN depthIndex /\ j + 3 \in DOMAIN depthIndex
    BY <1>3, <1>4
  <2> QED
    BY <1>4, <1>5, <2>1, <2>2
<1>7. R = a .. b - 1
  BY <1>3, <1>5 DEF Level
<1>8. R \subseteq 0 .. queue.in - 1
  BY <1>2, <1>6, <1>7
<1>9. \A i \in R : queue.shared[i] = f[i]
  <2>1. \A t \in Threads : ~Flushing(thread[t])
    BY <1>1 DEF AllIdle, Flushing, Idle
  <2> QED
    BY <1>1, <1>8, <2>1, SharedComplete
<1>10. {f[i] : i \in R} = AtDepth(W, j)
  BY <1>4, <1>5, <1>7
<1>11. {queue.shared[i] : i \in R} = AtDepth(W, j)
  BY <1>9, <1>10
<1>12. IsFiniteSet(R)
  BY <1>6, <1>7, FS_Interval
<1>13. Cardinality(R) = Cardinality(AtDepth(W, j))
  <2>1. PICK g : g = [i \in R |-> f[i]]
    OBVIOUS
  <2>2. g \in [R -> AtDepth(W, j)]
    BY <1>10, <2>1
  <2>3. \A x, y \in R : g[x] = g[y] => x = y
    BY <1>2, <1>8, <2>1 DEF IsInjective
  <2>4. \A v \in AtDepth(W, j) : \E x \in R : g[x] = v
    BY <1>10, <2>1
  <2>5. g \in Injection(R, AtDepth(W, j))
    BY <2>2, <2>3 DEF Injection, IsInjective
  <2>6. g \in Surjection(R, AtDepth(W, j))
    BY <2>2, <2>4 DEF Surjection
  <2>7. ExistsBijection(R, AtDepth(W, j))
    BY <2>5, <2>6 DEF ExistsBijection, Bijection
  <2> QED
    BY <1>12, <2>7, FS_Bijection
<1> QED
  BY <1>11, <1>13

\* When the walk back goes on, the search has counted the paths.
LEMMA BackCounted ==
  ASSUME graph \in Graphs, NEW s \in Node, NEW W, W = Within(s), NEW C, C = ShortestPaths(s),
         NEW k \in 0 .. N, NEW f, BackInv(W, C, k, f), NEW depth, depth = Depth(s)
  PROVE  /\ \A v \in Node :
              IF v \in DOMAIN depth
              THEN depths[v] = depth[v] /\ pathCounts[v] = C[v]
              ELSE depths[v] = -1
         /\ \A u \in DOMAIN depth : \A i \in DOMAIN graph.out[u] :
              EdgeNumber(u, i) \in succ <=> depth[graph.out[u][i]] = depth[u] + 1
         /\ \A v \in DOMAIN depth :
              \E d \in 0 .. Len(depthIndex) - 2 :
                /\ {queue.shared[i] : i \in Level(d)} = {w \in DOMAIN depth : depth[w] = depth[v]}
                /\ Cardinality(Level(d)) = Cardinality({w \in DOMAIN depth : depth[w] = depth[v]})
<1>0. IsWithin(s, W) /\ N \in Nat /\ N > 0 /\ N \in 0 .. N /\ k \in Nat /\ k <= N
  BY WithinLevels, NodeFacts
<1>1. /\ DOMAIN depth = W[N]
      /\ \A v \in W[N] : depth[v] \in 0 .. N - 1 /\ v \in AtDepth(W, depth[v])
      /\ \A j \in 0 .. N : W[j] = {v \in W[N] : depth[v] <= j}
      /\ \A j \in 0 .. N : AtDepth(W, j) = {v \in W[N] : depth[v] = j}
  BY DepthLevels
<1>2. \A v \in W[N] : depth[v] \in 0 .. k
  <2>1. \A v \in W[N] : depth[v] <= k
    BY <1>1 DEF BackInv
  <2> QED
    BY <1>0, <1>1, <2>1
<1>3. /\ \A j \in 0 .. k : \A v \in AtDepth(W, j) : depths[v] = j
      /\ \A v \in Node \ W[N] : depths[v] = -1
      /\ \A v \in W[N] : pathCounts[v] = C[v]
      /\ \A u \in Node : \A i \in DOMAIN graph.out[u] : EdgeNumber(u, i) \in succ <=> GoesDown(W, u, i)
  BY DEF BackInv
<1>4. \A v \in Node :
        IF v \in DOMAIN depth THEN depths[v] = depth[v] /\ pathCounts[v] = C[v] ELSE depths[v] = -1
  BY <1>1, <1>2, <1>3
<1>5. ASSUME NEW u \in DOMAIN depth, NEW i \in DOMAIN graph.out[u]
      PROVE  EdgeNumber(u, i) \in succ <=> depth[graph.out[u][i]] = depth[u] + 1
  <2>1. u \in W[N] /\ u \in Node
    BY <1>0, <1>1 DEF IsWithin
  <2>2. PICK v : v = graph.out[u][i]
    OBVIOUS
  <2>3. v \in W[N]
    <3>1. v \in Elems(graph.out[u])
      BY <2>1, <2>2, OutFacts
    <3>2. v \in Succ(W[N])
      BY <2>1, <3>1 DEF Succ
    <3> QED
      BY <1>0, <3>2, WithinEnds DEF IsWithin
  <2>4. depth[u] \in 0 .. N - 1 /\ depth[v] \in 0 .. N - 1
    BY <1>1, <2>1, <2>3
  <2>5. GoesDown(W, u, i) <=> depth[v] = depth[u] + 1
    <3>1. ASSUME GoesDown(W, u, i) PROVE depth[v] = depth[u] + 1
      <4>1. PICK j \in 0 .. N - 1 : u \in AtDepth(W, j) /\ v \in AtDepth(W, j + 1)
        BY <2>2, <3>1 DEF GoesDown
      <4>2. j \in 0 .. N /\ j + 1 \in 0 .. N
        BY <1>0
      <4> QED
        BY <1>1, <4>1, <4>2
    <3>2. ASSUME depth[v] = depth[u] + 1 PROVE GoesDown(W, u, i)
      <4>1. PICK j \in 0 .. N - 1 : j = depth[u]
        BY <2>4
      <4>2. u \in AtDepth(W, j) /\ v \in AtDepth(W, j + 1)
        BY <1>1, <2>1, <2>3, <3>2, <4>1
      <4> QED
        BY <2>2, <4>2 DEF GoesDown
    <3> QED
      BY <3>1, <3>2
  <2> QED
    BY <1>3, <2>1, <2>2, <2>5
<1>6. ASSUME NEW v \in DOMAIN depth
      PROVE  \E d \in 0 .. Len(depthIndex) - 2 :
                /\ {queue.shared[i] : i \in Level(d)} = {w \in DOMAIN depth : depth[w] = depth[v]}
                /\ Cardinality(Level(d)) = Cardinality({w \in DOMAIN depth : depth[w] = depth[v]})
  <2>1. PICK j \in 0 .. k : j = depth[v]
    BY <1>1, <1>2
  <2>2. j \in 0 .. N /\ j + 1 \in 0 .. (k + 3) - 2
    BY <1>0
  <2>3. AtDepth(W, j) = {w \in DOMAIN depth : depth[w] = depth[v]}
    BY <1>1, <2>1, <2>2
  <2>4. Len(depthIndex) = k + 3
    <3>1. Len(depthIndex) = (k + 1) + 2
      BY DEF BackInv, IndexOK
    <3> QED
      BY <1>0, <3>1
  <2>5. PICK d \in 0 .. Len(depthIndex) - 2 : d = j + 1
    BY <2>2, <2>4
  <2>6. PICK R : R = Level(d)
    OBVIOUS
  <2>7. R = Level(j + 1)
    BY <2>5, <2>6
  <2>8. {queue.shared[i] : i \in R} = AtDepth(W, j) /\ Cardinality(R) = Cardinality(AtDepth(W, j))
    BY <2>7, LevelHolds
  <2> QED
    BY <2>3, <2>6, <2>8
<1> QED
  BY <1>4, <1>5, <1>6

\* When the walk back starts, depths, path counts, the edges marked in succ
\* and the ranges of depth_index are those of the source (PBFS of bc.cc),
\* whatever way the threads of the search were interleaved.
THEOREM PathsAreCounted == BcSpec => []PathsCounted
<1>1. ASSUME BcInv PROVE PathsCounted
  <2> SUFFICES ASSUME step = "back" PROVE PathsCounted
    BY DEF PathsCounted
  <2>1. /\ graph \in Graphs /\ sources \in Seq(Node) /\ sources # <<>>
        /\ SourceInv(sources[Len(sources)])
    BY <1>1 DEF BcInv, BcTypes, PickInv
  <2>2. PICK s : s = sources[Len(sources)]
    OBVIOUS
  <2>3. s \in Node
    <3>1. Len(sources) \in DOMAIN sources
      BY <2>1
    <3> QED
      BY <2>1, <2>2, <3>1
  <2>4. PICK W, C, depth : W = Within(s) /\ C = ShortestPaths(s) /\ depth = Depth(s)
    OBVIOUS
  <2>5. PICK k \in 0 .. N : \E f : BackInv(W, C, k, f)
    BY <2>1, <2>2, <2>4 DEF SourceInv, PathsInv
  <2>6. PICK f : BackInv(W, C, k, f)
    BY <2>5
  <2>7. /\ \A v \in Node :
              IF v \in DOMAIN depth
              THEN depths[v] = depth[v] /\ pathCounts[v] = C[v]
              ELSE depths[v] = -1
        /\ \A u \in DOMAIN depth : \A i \in DOMAIN graph.out[u] :
              EdgeNumber(u, i) \in succ <=> depth[graph.out[u][i]] = depth[u] + 1
        /\ \A v \in DOMAIN depth :
              \E d \in 0 .. Len(depthIndex) - 2 :
                /\ {queue.shared[i] : i \in Level(d)} = {w \in DOMAIN depth : depth[w] = depth[v]}
                /\ Cardinality(Level(d)) = Cardinality({w \in DOMAIN depth : depth[w] = depth[v]})
    BY <2>1, <2>3, <2>4, <2>6, BackCounted
  <2> QED
    BY <2>2, <2>4, <2>7 DEF PathsCounted
<1> QED
  BY <1>1, BcAlways, PTL

\* The variables of Brandes have their types: no place of the queue beyond
\* its end is used, no depth or index leaves its range (bc.cc).
THEOREM BcTypesHold == BcSpec => []BcTypeOK
<1>1. ASSUME BcInv PROVE BcTypeOK
  <2>1. BcTypes
    BY <1>1 DEF BcInv
  <2>2. /\ step \in {"pick", "paths", "back", "done"} /\ QueueType(queue)
        /\ todo \subseteq 0 .. N - 1
    <3>0. N \in Nat /\ sources \in Seq(Node)
      BY <2>1, NodeFacts DEF BcTypes
    <3>1. CASE PickInv
      BY <3>1 DEF PickInv
    <3>2. ASSUME NEW s, SourceInv(s) 
          PROVE  /\ step \in {"pick", "paths", "back", "done"} /\ QueueType(queue)
                 /\ todo \subseteq 0 .. N - 1
      <4>1. PICK k \in 0 .. N : \E f : \/ \E pos : PathsInv(Within(s), ShortestPaths(s), k, f, pos)
                                       \/ BackInv(Within(s), ShortestPaths(s), k, f)
        BY <3>2 DEF SourceInv
      <4>2. PICK f : \/ \E pos : PathsInv(Within(s), ShortestPaths(s), k, f, pos)
                     \/ BackInv(Within(s), ShortestPaths(s), k, f)
        BY <4>1
      <4>3. PICK New : QueueOK(f, New)
        BY <4>2 DEF PathsInv, PathQueue, BackInv
      <4>4. /\ QueueType(queue) /\ queue.in \in Nat /\ queue.in <= N
            /\ queue.end \in Nat /\ queue.start \in Nat /\ queue.end <= queue.in
        BY <4>3, QueueFits DEF QueueOK, QueueType
      <4>5. todo \subseteq Window(queue) \/ todo \subseteq 0 .. queue.in - 1
        BY <4>2 DEF PathsInv, PathTeam, BackInv
      <4>6. step \in {"paths", "back"}
        BY <4>2 DEF PathsInv, BackInv
      <4>7. Window(queue) \subseteq 0 .. N - 1 /\ 0 .. queue.in - 1 \subseteq 0 .. N - 1
        BY <3>0, <4>4 DEF Window
      <4> QED
        BY <4>4, <4>5, <4>6, <4>7
    <3> QED
      BY <1>1, <3>1, <3>2 DEF BcInv
  <2>3. queue.shared \in [0 .. N - 1 -> 0 .. N]
    BY <2>2 DEF QueueType
  <2> QED
    BY <2>1, <2>2, <2>3 DEF BcTypeOK, BcTypes
<1> QED
  BY <1>1, BcAlways, PTL


-----------------------------------------------------------------------------
(* What BfsInv does not say of the types, of the bitmaps between two       *)
(* bottom-up phases above all.                                             *)
BfsTypes ==
  /\ alpha \in Alphas
  /\ front \subseteq Node /\ curr \subseteq Node
  /\ QueueType(queue)
  /\ buffer \in [Threads -> Seq(Node)] /\ DOMAIN thread = Threads
  /\ scout \in Int /\ edges \in Int /\ awake \in Int /\ oldAwake \in Int

LEMMA BfsThreadFacts ==
  ASSUME BfsInv, NEW t \in Threads
  PROVE  /\ thread[t].at = "claim" => thread[t].val \in Int
         /\ thread[t].at = "swapWord" => thread[t].u \in Node
         /\ thread[t].at = "writeNext" =>
              FirstOf(thread[t].left) \in Node /\ thread[t].word \subseteq curr
<1>1. PICK W : W = Within(source)
  OBVIOUS
<1>2. /\ IsWithin(source, W)
      /\ (\E k \in 0 .. N : \E f : LevelInv(W, k, f)) \/ DoneInv(W)
  BY <1>1, WithinLevels DEF BfsInv
<1>3. CASE DoneInv(W)
  BY <1>3 DEF DoneInv, AllIdle, Idle
<1>4. ASSUME NEW k \in 0 .. N, NEW f, LevelInv(W, k, f)
      PROVE  /\ thread[t].at = "claim" => thread[t].val \in Int
             /\ thread[t].at = "swapWord" => thread[t].u \in Node
             /\ thread[t].at = "writeNext" =>
                  FirstOf(thread[t].left) \in Node /\ thread[t].word \subseteq curr
  <2>1. PICK A, L, B : A = W[k] /\ L = AtDepth(W, k) /\ B = W[Deeper(k)]
    OBVIOUS
  <2>2. L \subseteq Node
    BY <1>2, <2>1, NodeFacts DEF IsWithin, AtDepth
  <2>3. CASE LoopInv(A, L, f)
    BY <2>3 DEF LoopInv, AllIdle, Idle
  <2>4. CASE DownInv(A, L, B, f)
    BY <2>4 DEF DownInv, ExpandThread
  <2>5. CASE ToBitmapInv(A, L, f)
    BY <2>2, <2>5 DEF ToBitmapInv, BitThread
  <2>6. CASE UpInv(A, L, B, f)
    <3>1. LookThread(thread[t])
      BY <2>6 DEF UpInv
    <3>2. PICK left : left = thread[t].left
      OBVIOUS
    <3>3. thread[t].at = "writeNext" => left \in SUBSET Node /\ left # {}
      BY <3>1, <3>2 DEF LookThread
    <3>4. thread[t].at = "writeNext" => FirstOf(left) \in left
      BY <3>3, NodeFacts, FirstFacts
    <3> QED
      BY <3>1, <3>2, <3>3, <3>4 DEF LookThread
  <2>7. CASE ToQueueInv(A, L, f)
    BY <2>7 DEF ToQueueInv, PushThread
  <2> QED
    BY <1>4, <2>1, <2>3, <2>4, <2>5, <2>6, <2>7 DEF LevelInv
<1> QED
  BY <1>2, <1>3, <1>4

\* The queue and the buffers, while the search is not over.
QueuesTyped ==
  \/ step = "done"
  \/ QueueType(queue) /\ \A t \in Threads : buffer[t] \in Seq(Node)

LEMMA BfsQueueTypes == BfsInv => QueuesTyped
<1>0. SUFFICES ASSUME BfsInv, step # "done" PROVE QueuesTyped
  BY DEF QueuesTyped
<1>1. PICK W : W = Within(source)
  OBVIOUS
<1>2. PICK k \in 0 .. N : \E f : LevelInv(W, k, f)
  BY <1>0, <1>1 DEF BfsInv, DoneInv
<1>3. PICK f : LevelInv(W, k, f)
  BY <1>2
<1>4. \E New : QueueOK(f, New)
  BY <1>3 DEF LevelInv, LoopInv, DownInv, ToBitmapInv, UpInv, ToQueueInv
<1> QED
  BY <1>4 DEF QueueOK, BufferOK, QueuesTyped

LEMMA BfsNotDone ==
  ASSUME BfsInv, BfsNext
  PROVE  step # "done"
<1>1. PICK W : W = Within(source)
  OBVIOUS
<1>2. (\E k \in 0 .. N : \E f : LevelInv(W, k, f)) \/ DoneInv(W)
  BY <1>1 DEF BfsInv
<1>3. ~DoneInv(W)
  BY DoneStep
<1> QED
  BY <1>2, <1>3 DEF LevelInv, LoopInv, DownInv, ToBitmapInv, UpInv, ToQueueInv

LEMMA BfsThreads ==
  ASSUME DOMAIN thread = Threads, BfsNext
  PROVE  DOMAIN thread' = Threads
<1>1. ASSUME NEW t \in Threads,
             TDStep(t) \/ QueueToBitmap(t) \/ BUStep(t) \/ BitmapToQueue(t) \/ Flush(t)
      PROVE  \E x : thread' = [thread EXCEPT ![t] = x]
  <2>1. TDStep(t) => \E x : thread' = [thread EXCEPT ![t] = x]
    BY DEF TDStep, TakeExpand, ReadParent, Claim, BufferPush, Take, Goes
  <2>2. QueueToBitmap(t) => \E x : thread' = [thread EXCEPT ![t] = x]
    BY DEF QueueToBitmap, TakeToBitmap, ReadWord, SwapWord, Take, Goes
  <2>3. BUStep(t) => \E x : thread' = [thread EXCEPT ![t] = x]
    BY DEF BUStep, TakeChunk, Look, ReadNext, WriteNext, Take, Goes
  <2>4. BitmapToQueue(t) \/ Flush(t) => \E x : thread' = [thread EXCEPT ![t] = x]
    BY DEF BitmapToQueue, TakeToQueue, PushBit, BufferPush, Flush, Reserve, CopyOut, LastFlush, Take, Goes
  <2> QED
    BY <1>1, <2>1, <2>2, <2>3, <2>4
<1>2. GoBottomUp \/ GoTopDown \/ Return \/ EndTopDown \/ EndToBitmap \/ EndBottomUp \/ EndToQueue
      => thread' = [t \in Threads |-> Idle]
  BY DEF GoBottomUp, GoTopDown, Return, EndTopDown, EndToBitmap, EndBottomUp, EndToQueue,
       BeginBottomUp, BeginLoop
<1> QED
  BY <1>1, <1>2 DEF BfsNext

LEMMA BfsTypesKept ==
  ASSUME BfsInv, QueuesTyped', BfsTypes, [BfsNext]_bfsVars
  PROVE  BfsTypes'
<1>0. /\ alpha \in Alphas /\ front \subseteq Node /\ curr \subseteq Node
      /\ QueueType(queue) /\ buffer \in [Threads -> Seq(Node)]
      /\ scout \in Int /\ edges \in Int /\ awake \in Int /\ oldAwake \in Int
  BY DEF BfsTypes
<1>1. CASE UNCHANGED bfsVars
  BY <1>1 DEF BfsTypes, bfsVars, teamVars, queueVars, QueueType
<1>2. ASSUME BfsNext PROVE BfsTypes'
  <2> DEFINE Bits == front' \subseteq Node /\ curr' \subseteq Node
             Counts == scout' \in Int /\ edges' \in Int /\ awake' \in Int /\ oldAwake' \in Int
             Buffers == buffer' = buffer \/ \E t \in Threads : \E b : buffer' = [buffer EXCEPT ![t] = b]
  <2>0. step # "done" /\ DOMAIN thread' = Threads
    BY <1>2, BfsNotDone, BfsThreads DEF BfsTypes
  <2>1. ASSUME Bits, Counts, Buffers, alpha' = alpha,
               step' = "done" => UNCHANGED queueVars
        PROVE  BfsTypes'
    <3>1. CASE step' = "done"
      BY <1>0, <2>0, <2>1, <3>1 DEF BfsTypes, queueVars, QueueType
    <3>2. CASE step' # "done"
      <4>1. QueueType(queue)' /\ \A t \in Threads : buffer'[t] \in Seq(Node)
        BY <3>2 DEF QueuesTyped
      <4>2. buffer' = [t \in Threads |-> buffer'[t]]
        BY <1>0, <2>1
      <4>3. buffer' \in [Threads -> Seq(Node)]
        BY <4>1, <4>2
      <4> QED
        BY <1>0, <2>0, <2>1, <4>1, <4>3 DEF BfsTypes
    <3> QED
      BY <3>1, <3>2
  <2>2. ASSUME NEW t \in Threads, TDStep(t) PROVE BfsTypes'
    <3>1. thread[t].at = "claim" => thread[t].val \in Int
      BY BfsThreadFacts
    <3>2. UNCHANGED <<alpha, front, curr, edges, awake, oldAwake>> /\ scout' \in Int
      BY <1>0, <2>2, <3>1 DEF TDStep, TakeExpand, ReadParent, Claim, searchVars
    <3>3. Buffers
      BY <2>2 DEF TDStep, TakeExpand, ReadParent, Claim, BufferPush, queueVars
    <3>4. step' = step
      BY <2>2 DEF TDStep, TakeExpand, ReadParent, Claim, BufferPush, Goes
    <3> QED
      BY <1>0, <2>0, <2>1, <3>2, <3>3, <3>4
  <2>3. ASSUME NEW t \in Threads, QueueToBitmap(t) PROVE BfsTypes'
    <3>1. thread[t].at = "swapWord" => thread[t].u \in Node
      BY BfsThreadFacts
    <3>2. UNCHANGED <<alpha, curr, scout, edges, awake, oldAwake, queue, buffer>> /\ front' \subseteq Node
      BY <1>0, <2>3, <3>1 DEF QueueToBitmap, TakeToBitmap, ReadWord, SwapWord, searchVars, queueVars
    <3> QED
      BY <1>0, <2>1, <3>2 DEF queueVars
  <2>4. ASSUME NEW t \in Threads, BUStep(t) PROVE BfsTypes'
    <3>1. thread[t].at = "writeNext" =>
            FirstOf(thread[t].left) \in Node /\ thread[t].word \subseteq curr
      BY BfsThreadFacts
    <3>2. /\ UNCHANGED <<alpha, front, scout, edges, oldAwake, queue, buffer>>
          /\ awake' \in Int /\ curr' \subseteq Node
      <4>1. CASE (\E c \in todo : TakeChunk(t, c)) \/ ReadNext(t)
        BY <1>0, <4>1 DEF TakeChunk, ReadNext, searchVars, queueVars
      <4>3. CASE Look(t)
        <5>1. UNCHANGED <<queueVars, source, alpha, front, curr, scout, edges, oldAwake>>
          BY <4>3 DEF Look
        <5>2. awake' = awake + 1 \/ awake' = awake
          BY <4>3 DEF Look
        <5> QED
          BY <1>0, <5>1, <5>2 DEF queueVars
      <4>2. CASE WriteNext(t)
        BY <1>0, <3>1, <4>2 DEF WriteNext, queueVars
      <4> QED
        BY <2>4, <4>1, <4>2, <4>3 DEF BUStep
    <3> QED
      BY <1>0, <2>1, <3>2 DEF queueVars
  <2>5. ASSUME NEW t \in Threads, BitmapToQueue(t) PROVE BfsTypes'
    <3>1. UNCHANGED <<alpha, front, curr, scout, edges, awake, oldAwake>>
      BY <2>5 DEF BitmapToQueue, TakeToQueue, PushBit, searchVars
    <3>2. Buffers
      BY <2>5 DEF BitmapToQueue, TakeToQueue, PushBit, BufferPush, queueVars
    <3>3. step' = step
      BY <2>5 DEF BitmapToQueue, TakeToQueue, PushBit, BufferPush, Goes
    <3> QED
      BY <1>0, <2>0, <2>1, <3>1, <3>2, <3>3
  <2>6. ASSUME NEW t \in Threads, step \in {"td", "toQueue"}, Flush(t), UNCHANGED searchVars
        PROVE  BfsTypes'
    <3>1. UNCHANGED <<alpha, front, curr, scout, edges, awake, oldAwake>>
      BY <2>6 DEF searchVars
    <3>2. Buffers
      BY <2>6 DEF Flush, Reserve, CopyOut, LastFlush, queueVars
    <3>3. step' = step
      BY <2>6 DEF Flush, Reserve, CopyOut, LastFlush, Goes
    <3> QED
      BY <1>0, <2>1, <2>6, <3>1, <3>2, <3>3
  <2>7. GoBottomUp \/ GoTopDown \/ Return => BfsTypes'
    <3>1. ASSUME GoBottomUp \/ GoTopDown \/ Return
          PROVE  UNCHANGED <<alpha, front, curr, awake, oldAwake, queue, buffer>> /\ Counts
      BY <1>0, <3>1 DEF GoBottomUp, GoTopDown, Return, searchVars, queueVars
    <3> QED
      BY <1>0, <2>1, <3>1 DEF queueVars
  <2>8. EndTopDown \/ EndToQueue => BfsTypes'
    <3>1. ASSUME EndTopDown \/ EndToQueue
          PROVE  UNCHANGED <<alpha, front, curr, edges, awake, oldAwake, buffer>> /\ scout' \in Int /\ step' = "loop"
      BY <1>0, <3>1 DEF EndTopDown, EndToQueue, searchVars, BeginLoop
    <3> QED
      BY <1>0, <2>1, <3>1
  <2>9. EndToBitmap \/ EndBottomUp => BfsTypes'
    <3>1. queue.end - queue.start \in Int
      BY <1>0 DEF QueueType
    <3>2. ASSUME EndToBitmap
          PROVE  /\ UNCHANGED <<alpha, front, scout, edges, buffer>> /\ curr' \subseteq Node
                 /\ awake' \in Int /\ oldAwake' \in Int /\ step' = "bu"
      BY <3>1, <3>2 DEF EndToBitmap, BeginBottomUp, BeginLoop
    <3>3. ASSUME EndBottomUp
          PROVE  /\ UNCHANGED <<alpha, scout, edges, queue, buffer>>
                 /\ front' \subseteq Node /\ curr' \subseteq Node
                 /\ awake' \in Int /\ oldAwake' \in Int
      BY <1>0, <3>3 DEF EndBottomUp, BeginBottomUp, queueVars
    <3> QED
      BY <1>0, <2>1, <3>2, <3>3 DEF queueVars
  <2> QED
    BY <1>2, <2>2, <2>3, <2>4, <2>5, <2>6, <2>7, <2>8, <2>9 DEF BfsNext
<1> QED
  BY <1>1, <1>2

\* The number of edges is one.
LEMMA EdgeCountType ==
  ASSUME graph \in Graphs
  PROVE  EdgeCount \in Nat
<1> DEFINE Solves(F) == F = [n \in 0 .. N |-> IF n = 0 THEN 0 ELSE F[n - 1] + Len(graph.out[n - 1])]
           D == [n \in 0 .. N |-> Nat]
           G == [n \in 0 .. N |-> [x \in Nat |-> x + Len(graph.out[n - 1])]]
<1>1. N \in Nat /\ 0 \in 0 .. N /\ N \in 0 .. N
  BY NodeFacts
<1>2. \A n \in 1 .. N : n - 1 \in Node /\ n - 1 \in 0 .. N /\ n \in 0 .. N /\ Len(graph.out[n - 1]) \in Nat
  BY <1>1, GraphFacts DEF Node
<1>3. \E F : Solves(F) /\ F[N] \in Nat
  <2>1. \A n \in 0 .. N : D[n] = Nat
    OBVIOUS
  <2>2. \A n \in 0 .. N : \A x \in Nat : G[n][x] = x + Len(graph.out[n - 1])
    OBVIOUS
  <2> HIDE DEF D, G
  <2>3. \A n \in 1 .. N : \A x \in D[n - 1] : G[n][x] \in D[n]
    <3>1. ASSUME NEW n \in 1 .. N, NEW x \in D[n - 1] PROVE G[n][x] \in D[n]
      <4>1. x \in Nat /\ n \in 0 .. N
        BY <1>2, <2>1
      <4>2. G[n][x] = x + Len(graph.out[n - 1]) /\ D[n] = Nat
        BY <2>1, <2>2, <4>1
      <4> QED
        BY <1>2, <4>1, <4>2
    <3> QED
      BY <3>1
  <2>4. 0 \in D[0]
    BY <1>1, <2>1
  <2>5. PICK F : Follows(F, N, 0, G) /\ \A n \in 0 .. N : F[n] \in D[n]
    BY <1>1, <2>3, <2>4, Recursion
  <2>6. F = [n \in 0 .. N |-> IF n = 0 THEN 0 ELSE G[n][F[n - 1]]]
    BY <2>5 DEF Follows
  <2>7. \A n \in 0 .. N : n # 0 => G[n][F[n - 1]] = F[n - 1] + Len(graph.out[n - 1])
    <3>1. ASSUME NEW n \in 0 .. N, n # 0 PROVE G[n][F[n - 1]] = F[n - 1] + Len(graph.out[n - 1])
      <4>1. n - 1 \in 0 .. N
        BY <1>1, <3>1
      <4>2. F[n - 1] \in Nat
        BY <2>1, <2>5, <4>1
      <4> QED
        BY <2>2, <4>2
    <3> QED
      BY <3>1
  <2>8. Solves(F)
    BY <2>6, <2>7
  <2> QED
    BY <1>1, <2>1, <2>5, <2>8
<1>4. PICK S : S = CHOOSE F : Solves(F)
  OBVIOUS
<1>5. Solves(S) /\ EdgeCount = S[N]
  BY <1>3, <1>4 DEF EdgeCount
<1> DEFINE P == {n \in 0 .. N : S[n] \in Nat}
<1>6. \A n \in 0 .. N : S[n] = IF n = 0 THEN 0 ELSE S[n - 1] + Len(graph.out[n - 1])
  BY <1>5
<1>7. 0 \in P
  BY <1>1, <1>6
<1>8. ASSUME NEW n \in 1 .. N, n - 1 \in P PROVE n \in P
  BY <1>2, <1>6, <1>8
<1> HIDE DEF P, Solves
<1>9. N \in P
  BY <1>1, <1>7, <1>8, UpTo
<1> QED
  BY <1>5, <1>9 DEF P

\* The variables of the search keep their types: the queue does not outgrow
\* its places, whose contents stay vertices, and neither bitmap holds a bit
\* beyond the last vertex, whoever swaps words and bitmaps.
THEOREM BfsTypesHold == BfsSpec => []BfsTypeOK
<1>1. ASSUME BfsInit PROVE BfsTypes
  <2>1. BfsInv
    BY <1>1, BfsStarts
  <2>2. QueueType(queue)
    BY <1>1, <2>1, BfsQueueTypes DEF BfsInit, QueuesTyped
  <2>3. EdgeCount \in Nat /\ Len(graph.out[source]) \in Nat
    <3>1. graph \in Graphs /\ source \in Node
      BY <1>1 DEF BfsInit
    <3> QED
      BY <3>1, EdgeCountType, GraphFacts
  <2>4. buffer \in [Threads -> Seq(Node)]
    <3>1. <<>> \in Seq(Node)
      OBVIOUS
    <3> QED
      BY <1>1, <3>1 DEF BfsInit
  <2> QED
    BY <1>1, <2>2, <2>3, <2>4 DEF BfsInit, BfsTypes
<1>2. BfsInv /\ QueuesTyped' /\ BfsTypes /\ [BfsNext]_bfsVars => BfsTypes'
  BY BfsTypesKept
<1>3. ASSUME BfsInv, BfsTypes PROVE BfsTypeOK
  <2>1. PICK W : W = Within(source)
    OBVIOUS
  <2>2. /\ graph \in Graphs /\ source \in Node /\ parent \in [Node -> Int]
        /\ (\E k \in 0 .. N : \E f : LevelInv(W, k, f)) \/ DoneInv(W)
    BY <1>3, <2>1 DEF BfsInv, ParentsOK
  <2>3. /\ step \in {"loop", "td", "toBitmap", "bu", "toQueue", "done"}
        /\ todo \subseteq Node /\ DOMAIN thread = Threads
    <3>1. (DoneInv(W) \/ Window(queue) \subseteq Node) /\ Chunks \subseteq Node
      <4>1. ASSUME NEW k \in 0 .. N, NEW f, LevelInv(W, k, f) PROVE Window(queue) \subseteq Node
        <5>1. PICK New : QueueOK(f, New)
          BY <4>1 DEF LevelInv, LoopInv, DownInv, ToBitmapInv, UpInv, ToQueueInv
        <5>2. queue.in <= N /\ QueueType(queue) /\ N \in Nat
          BY <5>1, QueueFits, NodeFacts DEF QueueOK
        <5> QED
          BY <5>2 DEF Window, QueueType, Node
      <4> QED
        BY <2>2, <4>1 DEF DoneInv, Chunks
    <3> QED
      BY <1>3, <2>2, <3>1 DEF BfsTypes, LevelInv, LoopInv, DownInv, ToBitmapInv, UpInv, ToQueueInv, DoneInv
  <2> QED
    BY <1>3, <2>2, <2>3 DEF BfsTypeOK, BfsTypes, QueueType
<1> QED
  BY <1>1, <1>2, <1>3, BfsQueueTypes, BfsAlways, PTL DEF BfsSpec
=============================================================================
