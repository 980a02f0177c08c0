---------------------------- MODULE KernelProofs ----------------------------
(***************************************************************************)
(* Proofs about the kernels that go over all vertices again and again, and *)
(* about all kernels together. The components kernels, for any graph, team *)
(* and number of sampling rounds: types, that a pointer never leads out of *)
(* a component or to a higher vertex, that Afforest implements Merging,    *)
(* and that the labels of both are those of the components, as CCVerifier  *)
(* finds them. PageRank, for any graph, team, damping, tolerance and size  *)
(* of a chunk: types, and that scores returned for their small change pass *)
(* PRVerifier. Delta-stepping, for any graph, team, weights, delta and     *)
(* size up to which a bin is fused: types, that a round begins with every  *)
(* distance below its bin final, that the answer passes SSSPVerifier if no *)
(* copy ran past the frontier, and that with delta 1 none does.            *)
(* And that what holds of each kernel holds of the programs of Kernels.    *)
(***************************************************************************)
EXTENDS Kernels, TraversalProofs

(* What a thread in Link or in the hooking loop remembers: vertices of the *)
(* component of the vertex it works for.                                   *)
LinkOK(th) ==
  /\ th.rest # <<>>
  /\ \A w \in Elems(th.rest) : Connected(th.u, w)
  /\ Connected(th.u, th.p1) /\ Connected(th.u, th.p2)

(* And in the compression: a vertex that is not above its own.             *)
ShortOK(th) == th.up <= th.n /\ Connected(th.n, th.up)

ThreadOK(th) == /\ th.at \in LinkPlaces => LinkOK(th)
                /\ th.at \in {"test", "reread", "write"} => ShortOK(th)

(* The inductive invariant.                                                *)
CcInv ==
  /\ kernel \in {"cc", "cc_sv"}
  /\ CcTypeOK
  /\ \A n \in Node : comp[n] <= n /\ Connected(n, comp[n])
  /\ \A t \in Threads : ThreadOK(thread[t])

-----------------------------------------------------------------------------
(* Graphs and connectedness.                                               *)
LEMMA GraphType ==
  ASSUME graph \in Graphs
  PROVE  /\ graph.out \in [Node -> Seq(Node)] /\ graph.in \in [Node -> Seq(Node)]
         /\ graph.directed \in BOOLEAN /\ Inverted(graph)
BY KernelAssumption DEF Graph

LEMMA NodeType == /\ Node \subseteq Nat
                  /\ 0 \in Node
BY KernelAssumption DEF Node

LEMMA ConnectedReflexive == \A u \in Node : Connected(u, u)
BY DEF Connected

LEMMA ConnectedTransitive ==
  ASSUME NEW u \in Node, NEW v \in Node, NEW w \in Node, Connected(u, v), Connected(v, w)
  PROVE  Connected(u, w)
BY DEF Connected

(* The complement of a closed set is closed, as the index of incoming      *)
(* edges is the inverse of the other.                                      *)
LEMMA ConnectedSymmetric ==
  ASSUME graph \in Graphs, NEW u \in Node, NEW v \in Node, Connected(u, v)
  PROVE  Connected(v, u)
<1>1. SUFFICES ASSUME NEW S \in SUBSET Node, v \in S, Closed(S), u \notin S
               PROVE  FALSE
  BY DEF Connected
<1>2. Closed(Node \ S)
  <2>1. SUFFICES ASSUME NEW a \in Node \ S
                 PROVE  /\ Elems(graph.out[a]) \subseteq Node \ S
                        /\ Elems(graph.in[a]) \subseteq Node \ S
    BY DEF Closed
  <2>2. Elems(graph.out[a]) \subseteq Node /\ Elems(graph.in[a]) \subseteq Node
    BY GraphType DEF Elems
  <2>3. ASSUME NEW b \in Node, b \in Elems(graph.out[a]) PROVE b \notin S
    <3>1. a \in Elems(graph.in[b])
      BY <2>3, GraphType DEF Inverted, Edge
    <3>2. QED BY <3>1, <1>1 DEF Closed
  <2>4. ASSUME NEW b \in Node, b \in Elems(graph.in[a]) PROVE b \notin S
    <3>1. a \in Elems(graph.out[b])
      BY <2>4, GraphType DEF Inverted, Edge
    <3>2. QED BY <3>1, <1>1 DEF Closed
  <2>5. QED BY <2>2, <2>3, <2>4
<1>3. v \in Node \ S
  BY <1>2, <1>1 DEF Connected
<1>4. QED BY <1>1, <1>3

LEMMA NeighboursConnected ==
  ASSUME graph \in Graphs, NEW u \in Node
  PROVE  /\ \A w \in Elems(graph.out[u]) : w \in Node /\ Connected(u, w)
         /\ \A w \in Elems(graph.in[u]) : w \in Node /\ Connected(u, w)
BY GraphType DEF Elems, Connected, Closed

(* Connectedness is about the graph, which no step changes.                *)
LEMMA ConnectedUnchanged ==
  ASSUME graph' = graph
  PROVE  \A u, v \in Node : Connected(u, v)' <=> Connected(u, v)
BY DEF Connected, Closed

-----------------------------------------------------------------------------
(* What threads remember.                                                  *)
LEMMA RestFacts ==
  ASSUME NEW s \in Seq(Node), s # <<>>
  PROVE  /\ Head(s) \in Node /\ Head(s) \in Elems(s)
         /\ Tail(s) \in Seq(Node) /\ Elems(Tail(s)) \subseteq Elems(s)
<1>1. Len(s) \in Nat \ {0} /\ DOMAIN s = 1 .. Len(s) /\ \A i \in 1 .. Len(s) : s[i] \in Node
  OBVIOUS
<1>2. Head(s) = s[1] /\ 1 \in DOMAIN s
  BY <1>1
<1>3. /\ Tail(s) \in Seq(Node) /\ DOMAIN Tail(s) = 1 .. Len(s) - 1
      /\ \A i \in 1 .. Len(s) - 1 : Tail(s)[i] = s[i + 1] /\ i + 1 \in DOMAIN s
  BY <1>1
<1>4. QED BY <1>1, <1>2, <1>3 DEF Elems

LEMMA IdleFacts == Idle \in ThreadStates /\ ThreadOK(Idle)
BY DEF Idle, ThreadStates, ThreadOK, LinkPlaces

LEMMA LinkingFacts ==
  ASSUME NEW th \in ThreadStates, th.at \in LinkPlaces
  PROVE  /\ th = Linking(th.at, th.u, th.rest, th.p1, th.p2)
         /\ th.u \in Node /\ th.rest \in Seq(Node) /\ th.p1 \in Node /\ th.p2 \in Node
         /\ Hi(th) \in Node /\ Lo(th) \in Node /\ Lo(th) <= Hi(th)
         /\ \/ Hi(th) = th.p1 /\ Lo(th) = th.p2
            \/ Hi(th) = th.p2 /\ Lo(th) = th.p1
<1>1. th \in [at : LinkPlaces, u : Node, rest : Seq(Node), p1 : Node, p2 : Node]
  BY DEF ThreadStates, LinkPlaces, Idle
<1>2. /\ th = Linking(th.at, th.u, th.rest, th.p1, th.p2)
      /\ th.u \in Node /\ th.rest \in Seq(Node) /\ th.p1 \in Node /\ th.p2 \in Node
  BY <1>1 DEF Linking
<1>3. th.p1 \in Nat /\ th.p2 \in Nat
  BY <1>2, NodeType
<1>4. CASE th.p1 > th.p2
  BY <1>2, <1>3, <1>4 DEF Hi, Lo, Larger, Smaller
<1>5. CASE ~(th.p1 > th.p2)
  BY <1>2, <1>3, <1>5 DEF Hi, Lo, Larger, Smaller
<1>6. QED BY <1>4, <1>5

LEMMA ShorteningFacts ==
  ASSUME NEW th \in ThreadStates, th.at \in {"test", "reread", "write"}
  PROVE  th.n \in Node /\ th.up \in Node
BY DEF ThreadStates, LinkPlaces, Idle

LEMMA LinkingOK ==
  ASSUME NEW at \in LinkPlaces, NEW u \in Node, NEW rest \in Seq(Node), rest # <<>>,
         NEW p1 \in Node, NEW p2 \in Node,
         \A w \in Elems(rest) : Connected(u, w), Connected(u, p1), Connected(u, p2)
  PROVE  /\ Linking(at, u, rest, p1, p2) \in ThreadStates
         /\ ThreadOK(Linking(at, u, rest, p1, p2))
BY DEF Linking, ThreadStates, ThreadOK, LinkOK, LinkPlaces

LEMMA NextLinkOK ==
  ASSUME NEW u \in Node, NEW rest \in Seq(Node), \A w \in Elems(rest) : Connected(u, w)
  PROVE  /\ NextLink(u, rest) \in ThreadStates /\ ThreadOK(NextLink(u, rest))
         /\ NextHook(u, rest) \in ThreadStates /\ ThreadOK(NextHook(u, rest))
<1>1. CASE rest = <<>>
  BY <1>1, IdleFacts DEF NextLink, NextHook
<1>2. CASE rest # <<>>
  <2>1. "readU" \in LinkPlaces /\ "hookU" \in LinkPlaces
    BY DEF LinkPlaces
  <2>2. QED BY <1>2, <2>1, LinkingOK, ConnectedReflexive DEF NextLink, NextHook, Hooking
<1>3. QED BY <1>1, <1>2

LEMMA ShorteningOK ==
  ASSUME NEW at \in {"test", "reread", "write"}, NEW n \in Node, NEW up \in Node,
         up <= n, Connected(n, up)
  PROVE  Shortening(at, n, up) \in ThreadStates /\ ThreadOK(Shortening(at, n, up))
BY DEF Shortening, ThreadStates, ThreadOK, ShortOK, LinkPlaces

-----------------------------------------------------------------------------
(* One thread moves, and at most one pointer with it.                      *)
LEMMA OneMoves ==
  ASSUME CcInv, NEW t \in Threads, NEW next \in ThreadStates, ThreadOK(next),
         thread' = [thread EXCEPT ![t] = next], UNCHANGED <<kernel, graph, step>>,
         todo' \subseteq todo,
         \/ comp' = comp
         \/ \E h, l \in Node : l <= h /\ Connected(h, l) /\ comp' = [comp EXCEPT ![h] = l],
         UNCHANGED <<round, skipped>>, change' \in BOOLEAN
  PROVE  CcInv'
<1>1. \A u, v \in Node : Connected(u, v)' <=> Connected(u, v)
  BY ConnectedUnchanged
<1>2. thread' \in [Threads -> ThreadStates]
  BY DEF CcInv, CcTypeOK
<1>3. comp' \in [Node -> Node]
  BY DEF CcInv, CcTypeOK
<1>4. CcTypeOK'
  BY <1>2, <1>3 DEF CcInv, CcTypeOK
<1>5. ASSUME NEW n \in Node PROVE comp'[n] <= n /\ Connected(n, comp[n])'
  BY <1>1, <1>3 DEF CcInv, CcTypeOK
<1>6. ASSUME NEW q \in Threads PROVE ThreadOK(thread[q])'
  <2>1. thread'[q] \in ThreadStates /\ ThreadOK(thread'[q])
    BY <1>2 DEF CcInv, CcTypeOK
  <2>2. ASSUME thread'[q].at \in LinkPlaces PROVE LinkOK(thread[q])'
    <3>1. /\ thread'[q].u \in Node /\ thread'[q].p1 \in Node /\ thread'[q].p2 \in Node
          /\ \A w \in Elems(thread'[q].rest) : w \in Node
      BY <2>1, <2>2, LinkingFacts DEF Elems
    <3>2. QED BY <1>1, <2>1, <2>2, <3>1 DEF ThreadOK, LinkOK
  <2>3. ASSUME thread'[q].at \in {"test", "reread", "write"} PROVE ShortOK(thread[q])'
    BY <1>1, <2>1, <2>3, ShorteningFacts DEF ThreadOK, ShortOK
  <2>4. QED BY <2>2, <2>3 DEF ThreadOK
<1>7. QED BY <1>4, <1>5, <1>6 DEF CcInv

(* A thread goes on and no pointer moves.                                  *)
LEMMA ThreadGoes ==
  ASSUME CcInv, NEW t \in Threads, NEW next \in ThreadStates, ThreadOK(next),
         Goes(t, next), UNCHANGED <<comp, round, skipped, change>>
  PROVE  CcInv'
BY OneMoves DEF Goes, CcInv, CcTypeOK

LEMMA ThreadTakes ==
  ASSUME CcInv, NEW t \in Threads, NEW i, NEW next \in ThreadStates, ThreadOK(next),
         Take(t, i, next), UNCHANGED <<kernel, graph, step, comp, round, skipped, change>>
  PROVE  CcInv'
BY OneMoves DEF Take, CcInv, CcTypeOK

(* Between two loops.                                                      *)
LEMMA LoopBegins ==
  ASSUME CcInv, NEW name \in AfforestSteps \cup SVSteps, NEW S \in SUBSET Node,
         BeginLoop(name, S), UNCHANGED <<kernel, graph, comp>>,
         round' \in Nat, skipped' \in Node, change' \in BOOLEAN
  PROVE  CcInv'
<1>1. \A u, v \in Node : Connected(u, v)' <=> Connected(u, v)
  BY ConnectedUnchanged
<1>2. \A t \in Threads : thread'[t] = Idle
  BY DEF BeginLoop
<1>3. thread' \in [Threads -> ThreadStates]
  BY IdleFacts DEF BeginLoop
<1>4. CcTypeOK'
  BY <1>3 DEF CcInv, CcTypeOK, BeginLoop
<1>5. \A n \in Node : comp'[n] <= n /\ Connected(n, comp[n])'
  BY <1>1 DEF CcInv, CcTypeOK
<1>6. \A t \in Threads : ThreadOK(thread[t])'
  BY <1>2 DEF ThreadOK, LinkPlaces, Idle
<1>7. QED BY <1>4, <1>5, <1>6 DEF CcInv

-----------------------------------------------------------------------------
(* The loop bodies.                                                        *)
LEMMA PointerFacts ==
  ASSUME CcInv, NEW n \in Node
  PROVE  comp[n] \in Node /\ comp[n] <= n /\ Connected(n, comp[n])
BY DEF CcInv, CcTypeOK

(* What a thread at an edge may rely on.                                   *)
LEMMA LinkThread ==
  ASSUME CcInv, NEW t \in Threads, thread[t].at \in LinkPlaces
  PROVE  LET th == thread[t]
         IN  /\ th.u \in Node /\ th.p1 \in Node /\ th.p2 \in Node
             /\ th.rest \in Seq(Node) /\ th.rest # <<>>
             /\ \A w \in Elems(th.rest) : Connected(th.u, w)
             /\ Connected(th.u, th.p1) /\ Connected(th.u, th.p2)
             /\ Head(th.rest) \in Node /\ Connected(th.u, Head(th.rest))
             /\ Tail(th.rest) \in Seq(Node)
             /\ \A w \in Elems(Tail(th.rest)) : Connected(th.u, w)
             /\ th = Linking(th.at, th.u, th.rest, th.p1, th.p2)
<1>1. thread[t] \in ThreadStates /\ ThreadOK(thread[t])
  BY DEF CcInv, CcTypeOK
<1>2. LinkOK(thread[t])
  BY <1>1 DEF ThreadOK
<1>3. QED BY <1>1, <1>2, LinkingFacts, RestFacts DEF LinkOK

(* Going on with the same edge, at another place with other p1 and p2, or  *)
(* with the next edge.                                                     *)
LinkRecord == [at : LinkPlaces, u : Node, rest : Seq(Node), p1 : Node, p2 : Node]

LEMMA ThreadRecord ==
  ASSUME CcInv, NEW t \in Threads, thread[t].at \in LinkPlaces
  PROVE  thread[t] \in LinkRecord
BY DEF CcInv, CcTypeOK, ThreadStates, LinkPlaces, Idle, LinkRecord

LEMMA SameHook ==
  ASSUME CcInv, NEW t \in Threads, thread[t].at \in LinkPlaces, NEW next \in LinkRecord,
         next.u = thread[t].u, next.rest = thread[t].rest,
         Connected(next.u, next.p1), Connected(next.u, next.p2)
  PROVE  next \in ThreadStates /\ ThreadOK(next)
<1>1. LinkOK(next)
  BY LinkThread DEF LinkOK
<1>2. QED BY <1>1 DEF ThreadOK, LinkPlaces, ThreadStates, LinkRecord

LEMMA OtherEdge ==
  ASSUME CcInv, NEW t \in Threads, thread[t].at \in LinkPlaces
  PROVE  LET u == thread[t].u
             rest == Tail(thread[t].rest)
         IN  /\ NextLink(u, rest) \in ThreadStates /\ ThreadOK(NextLink(u, rest))
             /\ NextHook(u, rest) \in ThreadStates /\ ThreadOK(NextHook(u, rest))
BY LinkThread, NextLinkOK

(* The roots a hook joins are connected through the edge.                  *)
LEMMA HookConnects ==
  ASSUME CcInv, NEW t \in Threads, thread[t].at \in LinkPlaces
  PROVE  LET th == thread[t]
         IN  /\ Hi(th) \in Node /\ Lo(th) \in Node /\ Lo(th) <= Hi(th)
             /\ Connected(Hi(th), Lo(th))
             /\ Connected(th.u, Hi(th)) /\ Connected(th.u, Lo(th))
<1>1. thread[t] \in ThreadStates /\ graph \in Graphs
  BY DEF CcInv, CcTypeOK
<1>2. Connected(thread[t].p1, thread[t].u) /\ Connected(thread[t].p2, thread[t].u)
  BY <1>1, LinkThread, ConnectedSymmetric
<1>3. Connected(thread[t].p1, thread[t].p2) /\ Connected(thread[t].p2, thread[t].p1)
  BY <1>2, LinkThread, ConnectedTransitive
<1>4. QED BY <1>1, <1>3, LinkThread, LinkingFacts

LEMMA TestedOK ==
  ASSUME CcInv, NEW t \in Threads, thread[t].at \in LinkPlaces, NEW next \in LinkRecord,
         next.u = thread[t].u, next.rest = thread[t].rest,
         Connected(next.u, next.p1), Connected(next.u, next.p2)
  PROVE  Tested(next) \in ThreadStates /\ ThreadOK(Tested(next))
<1>1. CASE next.p1 = next.p2
  BY <1>1, OtherEdge DEF Tested
<1>2. CASE next.p1 # next.p2
  <2>1. /\ [next EXCEPT !.at = "readHigh"] \in LinkRecord
        /\ [next EXCEPT !.at = "readHigh"].u = next.u
        /\ [next EXCEPT !.at = "readHigh"].rest = next.rest
        /\ [next EXCEPT !.at = "readHigh"].p1 = next.p1
        /\ [next EXCEPT !.at = "readHigh"].p2 = next.p2
    BY DEF LinkRecord, LinkPlaces
  <2>2. QED BY <1>2, <2>1, SameHook DEF Tested
<1>3. QED BY <1>1, <1>2

(* Link(u, v, comp), one access after another.                             *)
LEMMA LinkStep ==
  ASSUME CcInv, NEW t \in Threads, Link(t)
  PROVE  CcInv'
<1> DEFINE th == thread[t]
<1>1. CASE ReadU(t)
  <2> DEFINE next == [th EXCEPT !.at = "readV", !.p1 = comp[th.u]]
  <2>1. th.at \in LinkPlaces
    BY <1>1 DEF ReadU, LinkPlaces
  <2>2. Connected(th.u, comp[th.u]) /\ comp[th.u] \in Node
    BY <2>1, LinkThread, PointerFacts
  <2>3. /\ next \in LinkRecord /\ next.u = th.u /\ next.rest = th.rest
        /\ next.p1 = comp[th.u] /\ next.p2 = th.p2
    BY <2>1, <2>2, ThreadRecord DEF LinkRecord, LinkPlaces
  <2> HIDE DEF next
  <2>4. next \in ThreadStates /\ ThreadOK(next)
    BY <2>1, <2>2, <2>3, LinkThread, SameHook
  <2>5. Goes(t, next) /\ UNCHANGED <<comp, round, skipped, change>>
    BY <1>1 DEF ReadU, next
  <2>6. QED BY <2>4, <2>5, ThreadGoes
<1>2. CASE ReadV(t)
  <2> DEFINE v == Head(th.rest)
             next == [th EXCEPT !.p2 = comp[v]]
  <2>1. th.at \in LinkPlaces
    BY <1>2 DEF ReadV, LinkPlaces
  <2>2. comp[v] \in Node /\ Connected(th.u, comp[v])
    BY <2>1, LinkThread, PointerFacts, ConnectedTransitive
  <2>3. /\ next \in LinkRecord /\ next.u = th.u /\ next.rest = th.rest
        /\ next.p1 = th.p1 /\ next.p2 = comp[v]
    BY <2>1, <2>2, ThreadRecord DEF LinkRecord
  <2> HIDE DEF next
  <2>4. Tested(next) \in ThreadStates /\ ThreadOK(Tested(next))
    BY <2>1, <2>2, <2>3, LinkThread, TestedOK
  <2>5. Goes(t, Tested(next)) /\ UNCHANGED <<comp, round, skipped, change>>
    BY <1>2 DEF ReadV, next
  <2>6. QED BY <2>4, <2>5, ThreadGoes
<1>3. CASE ReadHigh(t)
  <2>1. th.at \in LinkPlaces
    BY <1>3 DEF ReadHigh, LinkPlaces
  <2>2. ASSUME NEW at \in LinkPlaces
        PROVE  [th EXCEPT !.at = at] \in ThreadStates /\ ThreadOK([th EXCEPT !.at = at])
    <3> DEFINE next == [th EXCEPT !.at = at]
    <3>1. /\ next \in LinkRecord /\ next.u = th.u /\ next.rest = th.rest
          /\ next.p1 = th.p1 /\ next.p2 = th.p2
      BY <2>1, ThreadRecord DEF LinkRecord
    <3> HIDE DEF next
    <3>2. next \in ThreadStates /\ ThreadOK(next)
      BY <2>1, <3>1, LinkThread, SameHook
    <3>3. QED BY <3>2 DEF next
  <2>3. PICK next \in {NextLink(th.u, Tail(th.rest)), [th EXCEPT !.at = "cas"], [th EXCEPT !.at = "climb"]} :
          Goes(t, next) /\ UNCHANGED <<comp, round, skipped, change>>
    BY <1>3 DEF ReadHigh
  <2>4. "cas" \in LinkPlaces /\ "climb" \in LinkPlaces
    BY DEF LinkPlaces
  <2>5. next \in ThreadStates /\ ThreadOK(next)
    BY <2>1, <2>2, <2>4, OtherEdge
  <2>6. QED BY <2>3, <2>5, ThreadGoes
<1>4. CASE CompareAndSwap(t)
  <2>1. th.at \in LinkPlaces
    BY <1>4 DEF CompareAndSwap, LinkPlaces
  <2> DEFINE climb == [th EXCEPT !.at = "climb"]
  <2>2. /\ climb \in LinkRecord /\ climb.u = th.u /\ climb.rest = th.rest
        /\ climb.p1 = th.p1 /\ climb.p2 = th.p2
    BY <2>1, ThreadRecord DEF LinkRecord, LinkPlaces
  <2> HIDE DEF climb
  <2>3. climb \in ThreadStates /\ ThreadOK(climb)
    BY <2>1, <2>2, LinkThread, SameHook
  <2>4. CASE comp[Hi(th)] = Hi(th)
    <3>1. /\ comp' = [comp EXCEPT ![Hi(th)] = Lo(th)]
          /\ Goes(t, NextLink(th.u, Tail(th.rest))) /\ UNCHANGED <<round, skipped, change>>
      BY <1>4, <2>4 DEF CompareAndSwap
    <3>2. /\ Hi(th) \in Node /\ Lo(th) \in Node /\ Lo(th) <= Hi(th) /\ Connected(Hi(th), Lo(th))
          /\ NextLink(th.u, Tail(th.rest)) \in ThreadStates
          /\ ThreadOK(NextLink(th.u, Tail(th.rest)))
      BY <2>1, HookConnects, OtherEdge
    <3>3. QED BY <3>1, <3>2, OneMoves DEF Goes, CcInv, CcTypeOK
  <2>5. CASE comp[Hi(th)] # Hi(th)
    <3>1. Goes(t, climb) /\ UNCHANGED <<comp, round, skipped, change>>
      BY <1>4, <2>5 DEF CompareAndSwap, climb
    <3>2. QED BY <3>1, <2>3, ThreadGoes
  <2>6. QED BY <2>4, <2>5
<1>5. CASE Climb(t)
  <2> DEFINE next == [th EXCEPT !.at = "climbOn", !.p1 = comp[Hi(th)], !.p2 = Lo(th)]
  <2>1. th.at \in LinkPlaces
    BY <1>5 DEF Climb, LinkPlaces
  <2>2. /\ comp[Hi(th)] \in Node /\ Connected(th.u, comp[Hi(th)])
        /\ Lo(th) \in Node /\ Connected(th.u, Lo(th))
    BY <2>1, HookConnects, LinkThread, PointerFacts, ConnectedTransitive
  <2>3. /\ next \in LinkRecord /\ next.u = th.u /\ next.rest = th.rest
        /\ next.p1 = comp[Hi(th)] /\ next.p2 = Lo(th)
    BY <2>1, <2>2, ThreadRecord DEF LinkRecord, LinkPlaces
  <2> HIDE DEF next
  <2>4. next \in ThreadStates /\ ThreadOK(next)
    BY <2>1, <2>2, <2>3, SameHook
  <2>5. Goes(t, next) /\ UNCHANGED <<comp, round, skipped, change>>
    BY <1>5 DEF Climb, next
  <2>6. QED BY <2>4, <2>5, ThreadGoes
<1>6. CASE ClimbOn(t)
  <2> DEFINE next == [th EXCEPT !.at = "climbLow", !.p1 = comp[th.p1]]
  <2>1. th.at \in LinkPlaces
    BY <1>6 DEF ClimbOn, LinkPlaces
  <2>2. comp[th.p1] \in Node /\ Connected(th.u, comp[th.p1])
    BY <2>1, LinkThread, PointerFacts, ConnectedTransitive
  <2>3. /\ next \in LinkRecord /\ next.u = th.u /\ next.rest = th.rest
        /\ next.p1 = comp[th.p1] /\ next.p2 = th.p2
    BY <2>1, <2>2, ThreadRecord DEF LinkRecord, LinkPlaces
  <2> HIDE DEF next
  <2>4. next \in ThreadStates /\ ThreadOK(next)
    BY <2>1, <2>2, <2>3, LinkThread, SameHook
  <2>5. Goes(t, next) /\ UNCHANGED <<comp, round, skipped, change>>
    BY <1>6 DEF ClimbOn, next
  <2>6. QED BY <2>4, <2>5, ThreadGoes
<1>7. CASE ClimbLow(t)
  <2> DEFINE next == [th EXCEPT !.p2 = comp[th.p2]]
  <2>1. th.at \in LinkPlaces
    BY <1>7 DEF ClimbLow, LinkPlaces
  <2>2. comp[th.p2] \in Node /\ Connected(th.u, comp[th.p2])
    BY <2>1, LinkThread, PointerFacts, ConnectedTransitive
  <2>3. /\ next \in LinkRecord /\ next.u = th.u /\ next.rest = th.rest
        /\ next.p1 = th.p1 /\ next.p2 = comp[th.p2]
    BY <2>1, <2>2, ThreadRecord DEF LinkRecord
  <2> HIDE DEF next
  <2>4. Tested(next) \in ThreadStates /\ ThreadOK(Tested(next))
    BY <2>1, <2>2, <2>3, LinkThread, TestedOK
  <2>5. Goes(t, Tested(next)) /\ UNCHANGED <<comp, round, skipped, change>>
    BY <1>7 DEF ClimbLow, next
  <2>6. QED BY <2>4, <2>5, ThreadGoes
<1>8. QED BY <1>1, <1>2, <1>3, <1>4, <1>5, <1>6, <1>7 DEF Link

(* Compress, and the shortcut loop.                                        *)
LEMMA ShortThread ==
  ASSUME CcInv, NEW t \in Threads, thread[t].at \in {"test", "reread", "write"}
  PROVE  LET th == thread[t]
         IN  /\ th.n \in Node /\ th.up \in Node
             /\ th.up <= th.n /\ Connected(th.n, th.up)
<1>1. thread[t] \in ThreadStates /\ ThreadOK(thread[t])
  BY DEF CcInv, CcTypeOK
<1>2. ShortOK(thread[t])
  BY <1>1 DEF ThreadOK
<1>3. QED BY <1>1, <1>2, ShorteningFacts DEF ShortOK

LEMMA StillShortening ==
  ASSUME CcInv, NEW n \in Node, NEW at \in {"test", "reread", "write"}
  PROVE  Shortening(at, n, n) \in ThreadStates /\ ThreadOK(Shortening(at, n, n))
<1>1. n <= n
  BY NodeType
<1>2. QED BY <1>1, ConnectedReflexive, ShorteningOK

LEMMA GrandparentFacts ==
  ASSUME CcInv, NEW n \in Node
  PROVE  comp[comp[n]] \in Node /\ comp[comp[n]] <= n /\ Connected(n, comp[comp[n]])
<1>1. /\ comp[n] \in Node /\ comp[n] <= n /\ Connected(n, comp[n])
      /\ comp[comp[n]] \in Node /\ comp[comp[n]] <= comp[n]
      /\ Connected(comp[n], comp[comp[n]])
  BY PointerFacts
<1>2. n \in Nat /\ comp[n] \in Nat /\ comp[comp[n]] \in Nat
  BY <1>1, NodeType
<1>3. comp[comp[n]] <= n
  <2> DEFINE a == comp[n]
             b == comp[a]
  <2>1. a \in Nat /\ b \in Nat /\ n \in Nat /\ a <= n /\ b <= a
    BY <1>1, <1>2
  <2> HIDE DEF a, b
  <2>2. b <= n
    BY <2>1
  <2>3. QED BY <2>2 DEF a, b
<1>4. QED BY <1>1, <1>3, ConnectedTransitive

LEMMA CompressStep ==
  ASSUME CcInv, NEW t \in Threads, Compress(t)
  PROVE  CcInv'
<1> DEFINE th == thread[t]
<1>1. ASSUME NEW n \in todo, TakeShort(t, n) PROVE CcInv'
  <2>1. n \in Node
    BY DEF CcInv, CcTypeOK
  <2>2. QED BY <1>1, <2>1, StillShortening, ThreadTakes DEF TakeShort
<1>2. CASE Test(t)
  <2>1. th.n \in Node
    BY <1>2, ShortThread DEF Test
  <2>2. PICK next \in {Idle, Shortening("reread", th.n, th.n)} :
          Goes(t, next) /\ UNCHANGED <<comp, round, skipped, change>>
    BY <1>2 DEF Test
  <2>3. next \in ThreadStates /\ ThreadOK(next)
    BY <2>1, IdleFacts, StillShortening
  <2>4. QED BY <2>2, <2>3, ThreadGoes
<1>3. CASE Reread(t)
  <2>1. th.n \in Node
    BY <1>3, ShortThread DEF Reread
  <2> DEFINE next == Shortening("write", th.n, comp[comp[th.n]])
  <2>2. next \in ThreadStates /\ ThreadOK(next)
    BY <2>1, GrandparentFacts, ShorteningOK
  <2>3. Goes(t, next) /\ UNCHANGED <<comp, round, skipped, change>>
    BY <1>3 DEF Reread
  <2>4. QED BY <2>2, <2>3, ThreadGoes
<1>4. CASE Write(t)
  <2>1. th.n \in Node /\ th.up \in Node /\ th.up <= th.n /\ Connected(th.n, th.up)
    BY <1>4, ShortThread DEF Write
  <2> DEFINE next == Shortening("test", th.n, th.n)
  <2>2. next \in ThreadStates /\ ThreadOK(next)
    BY <2>1, StillShortening
  <2>3. /\ comp' = [comp EXCEPT ![th.n] = th.up]
        /\ Goes(t, next) /\ UNCHANGED <<round, skipped, change>>
    BY <1>4 DEF Write
  <2> HIDE DEF next
  <2>4. QED BY <2>1, <2>2, <2>3, OneMoves DEF Goes, CcInv, CcTypeOK
<1>5. QED BY <1>1, <1>2, <1>3, <1>4 DEF Compress

-----------------------------------------------------------------------------
(* The hooking loop of Shiloach-Vishkin. Its store hits the higher of two  *)
(* vertices whatever that one has become since it was tested.              *)
LEMMA HookStep ==
  ASSUME CcInv, NEW t \in Threads, HookU(t) \/ HookV(t) \/ HookTest(t) \/ HookWrite(t)
  PROVE  CcInv'
<1> DEFINE th == thread[t]
<1>1. CASE HookU(t)
  <2> DEFINE next == [th EXCEPT !.at = "hookV", !.p1 = comp[th.u]]
  <2>1. th.at \in LinkPlaces
    BY <1>1 DEF HookU, LinkPlaces
  <2>2. Connected(th.u, comp[th.u]) /\ comp[th.u] \in Node
    BY <2>1, LinkThread, PointerFacts
  <2>3. /\ next \in LinkRecord /\ next.u = th.u /\ next.rest = th.rest
        /\ next.p1 = comp[th.u] /\ next.p2 = th.p2
    BY <2>1, <2>2, ThreadRecord DEF LinkRecord, LinkPlaces
  <2> HIDE DEF next
  <2>4. next \in ThreadStates /\ ThreadOK(next)
    BY <2>1, <2>2, <2>3, LinkThread, SameHook
  <2>5. Goes(t, next) /\ UNCHANGED <<comp, round, skipped, change>>
    BY <1>1 DEF HookU, next
  <2>6. QED BY <2>4, <2>5, ThreadGoes
<1>2. CASE HookV(t)
  <2> DEFINE v == Head(th.rest)
             next == [th EXCEPT !.at = "hookTest", !.p2 = comp[v]]
  <2>1. th.at \in LinkPlaces
    BY <1>2 DEF HookV, LinkPlaces
  <2>2. comp[v] \in Node /\ Connected(th.u, comp[v])
    BY <2>1, LinkThread, PointerFacts, ConnectedTransitive
  <2>3. /\ next \in LinkRecord /\ next.u = th.u /\ next.rest = th.rest
        /\ next.p1 = th.p1 /\ next.p2 = comp[v]
    BY <2>1, <2>2, ThreadRecord DEF LinkRecord, LinkPlaces
  <2>4. PICK after \in {NextHook(th.u, Tail(th.rest)), next} :
          Goes(t, after) /\ UNCHANGED <<comp, round, skipped, change>>
    BY <1>2 DEF HookV
  <2> HIDE DEF next
  <2>5. after \in ThreadStates /\ ThreadOK(after)
    BY <2>1, <2>2, <2>3, LinkThread, SameHook, OtherEdge
  <2>6. QED BY <2>4, <2>5, ThreadGoes
<1>3. CASE HookTest(t)
  <2> DEFINE next == [th EXCEPT !.at = "hookWrite"]
  <2>1. th.at \in LinkPlaces
    BY <1>3 DEF HookTest, LinkPlaces
  <2>2. /\ next \in LinkRecord /\ next.u = th.u /\ next.rest = th.rest
        /\ next.p1 = th.p1 /\ next.p2 = th.p2
    BY <2>1, ThreadRecord DEF LinkRecord, LinkPlaces
  <2>3. PICK after \in {NextHook(th.u, Tail(th.rest)), next} :
          Goes(t, after) /\ UNCHANGED <<comp, round, skipped, change>>
    BY <1>3 DEF HookTest
  <2> HIDE DEF next
  <2>4. after \in ThreadStates /\ ThreadOK(after)
    BY <2>1, <2>2, LinkThread, SameHook, OtherEdge
  <2>5. QED BY <2>3, <2>4, ThreadGoes
<1>4. CASE HookWrite(t)
  <2>1. th.at \in LinkPlaces
    BY <1>4 DEF HookWrite, LinkPlaces
  <2>2. /\ Hi(th) \in Node /\ Lo(th) \in Node /\ Lo(th) <= Hi(th) /\ Connected(Hi(th), Lo(th))
        /\ NextHook(th.u, Tail(th.rest)) \in ThreadStates
        /\ ThreadOK(NextHook(th.u, Tail(th.rest)))
    BY <2>1, HookConnects, OtherEdge
  <2>3. /\ comp' = [comp EXCEPT ![Hi(th)] = Lo(th)] /\ change' = TRUE
        /\ Goes(t, NextHook(th.u, Tail(th.rest))) /\ UNCHANGED <<round, skipped>>
    BY <1>4 DEF HookWrite
  <2>4. QED BY <2>2, <2>3, OneMoves DEF Goes, CcInv, CcTypeOK
<1>5. QED BY <1>1, <1>2, <1>3, <1>4

-----------------------------------------------------------------------------
(* The neighbours a thread is sent along are neighbours.                   *)
LEMMA SampledFacts ==
  ASSUME CcInv, NEW u \in Node
  PROVE  /\ Sampled(u) \in Seq(Node) /\ \A w \in Elems(Sampled(u)) : Connected(u, w)
         /\ graph.out[u] \in Seq(Node)
         /\ \A w \in Elems(graph.out[u]) : Connected(u, w)
<1> DEFINE s == graph.out[u]
<1>1. graph \in Graphs /\ round \in Nat
  BY DEF CcInv, CcTypeOK
<1>2. s \in Seq(Node)
  BY <1>1, GraphType
<1>3. \A w \in Elems(s) : w \in Node /\ Connected(u, w)
  BY <1>1, NeighboursConnected
<1>4. CASE round < Len(s)
  <2>1. round + 1 \in DOMAIN s
    BY <1>1, <1>2, <1>4
  <2>2. s[round + 1] \in Elems(s)
    BY <2>1 DEF Elems
  <2>3. Sampled(u) = <<s[round + 1]>>
    BY <1>4 DEF Sampled
  <2>4. /\ <<s[round + 1]>> \in Seq(Node)
        /\ \A i \in DOMAIN <<s[round + 1]>> : <<s[round + 1]>>[i] = s[round + 1]
    BY <1>3, <2>2
  <2>5. QED BY <1>2, <1>3, <2>2, <2>3, <2>4 DEF Elems
<1>5. CASE ~(round < Len(s))
  BY <1>2, <1>3, <1>5 DEF Sampled, Elems
<1>6. QED BY <1>4, <1>5

LEMMA RemainingFacts ==
  ASSUME CcInv, NEW u \in Node
  PROVE  Remaining(u) \in Seq(Node) /\ \A w \in Elems(Remaining(u)) : Connected(u, w)
<1> DEFINE s == graph.out[u]
           a == SubSeq(s, NeighborRounds + 1, Len(s))
           b == IF graph.directed THEN graph.in[u] ELSE <<>>
<1>1. graph \in Graphs /\ NeighborRounds \in Nat
  BY RoundsAssumption DEF CcInv, CcTypeOK
<1>2. s \in Seq(Node) /\ graph.in[u] \in Seq(Node)
  BY <1>1, GraphType
<1>3. /\ \A w \in Elems(s) : w \in Node /\ Connected(u, w)
      /\ \A w \in Elems(graph.in[u]) : w \in Node /\ Connected(u, w)
  BY <1>1, NeighboursConnected
<1>4. a \in Seq(Node) /\ \A i \in DOMAIN a : a[i] \in Elems(s)
  <2>1. /\ Len(s) \in Nat /\ DOMAIN s = 1 .. Len(s)
        /\ \A i \in 1 .. Len(s) : s[i] \in Node
    BY <1>2
  <2>2. /\ a \in Seq(Node)
        /\ \A i \in DOMAIN a : a[i] = s[NeighborRounds + i]
        /\ \A i \in DOMAIN a : NeighborRounds + i \in 1 .. Len(s)
    BY <1>1, <1>2, <2>1
  <2>3. QED BY <2>1, <2>2 DEF Elems
<1>5. b \in Seq(Node) /\ \A i \in DOMAIN b : Connected(u, b[i])
  BY <1>2, <1>3 DEF Elems
<1>6. \A i \in DOMAIN a : Connected(u, a[i])
  BY <1>3, <1>4
<1> HIDE DEF a, b
<1>7. /\ a \o b \in Seq(Node)
      /\ \A i \in DOMAIN (a \o b) : \/ i \in DOMAIN a /\ (a \o b)[i] = a[i]
                                    \/ i - Len(a) \in DOMAIN b /\ (a \o b)[i] = b[i - Len(a)]
  BY <1>4, <1>5
<1>8. Remaining(u) = a \o b
  BY DEF Remaining, a, b
<1>9. QED BY <1>5, <1>6, <1>7, <1>8 DEF Elems

LEMMA TakeStep ==
  ASSUME CcInv, NEW t \in Threads, NEW u \in todo,
         TakeSample(t, u) \/ TakeFinish(t, u) \/ TakeHook(t, u)
  PROVE  CcInv'
<1>1. u \in Node
  BY DEF CcInv, CcTypeOK
<1>2. CASE TakeSample(t, u)
  BY <1>1, <1>2, SampledFacts, NextLinkOK, ThreadTakes DEF TakeSample
<1>3. CASE TakeFinish(t, u)
  <2>1. PICK rest \in {<<>>, Remaining(u)} : Take(t, u, NextLink(u, rest))
    BY <1>3 DEF TakeFinish
  <2>2. rest \in Seq(Node) /\ \A w \in Elems(rest) : Connected(u, w)
    <3>1. CASE rest = <<>>
      <4>1. Elems(rest) = {}
        BY <3>1 DEF Elems
      <4>2. QED BY <3>1, <4>1
    <3>2. CASE rest = Remaining(u)
      BY <1>1, <3>2, RemainingFacts
    <3>3. QED BY <2>1, <3>1, <3>2
  <2>3. QED BY <1>1, <1>3, <2>1, <2>2, NextLinkOK, ThreadTakes DEF TakeFinish
<1>4. CASE TakeHook(t, u)
  BY <1>1, <1>4, SampledFacts, NextLinkOK, ThreadTakes DEF TakeHook
<1>5. QED BY <1>2, <1>3, <1>4

(* The barriers, and the pick of the component to skip.                    *)
LEMMA BarrierStep ==
  ASSUME CcInv,
         \/ EndSample \/ EndCompress \/ Pick \/ EndFinish \/ EndFinal
         \/ EndHook \/ EndShortcut
  PROVE  CcInv'
<1>1. round \in Nat /\ skipped \in Node /\ change \in BOOLEAN
  BY DEF CcInv, CcTypeOK
<1>2. {"sample", "compress", "pick", "finish", "final", "hook", "shortcut", "done"}
        \subseteq AfforestSteps \cup SVSteps
  BY DEF AfforestSteps, SVSteps
<1>3. Node \in SUBSET Node /\ {} \in SUBSET Node
  OBVIOUS
<1>4. CASE EndSample
  BY <1>1, <1>2, <1>3, <1>4, LoopBegins DEF EndSample
<1>5. CASE EndCompress
  BY <1>1, <1>2, <1>3, <1>5, LoopBegins DEF EndCompress
<1>6. CASE Pick
  <2>1. PICK n \in Node : skipped' = comp[n]
    BY <1>6 DEF Pick
  <2>2. skipped' \in Node
    BY <2>1, PointerFacts
  <2>3. QED BY <1>1, <1>2, <1>3, <1>6, <2>2, LoopBegins DEF Pick
<1>7. CASE EndFinish
  BY <1>1, <1>2, <1>3, <1>7, LoopBegins DEF EndFinish
<1>8. CASE EndFinal
  BY <1>1, <1>2, <1>3, <1>8, LoopBegins DEF EndFinal
<1>9. CASE EndHook
  BY <1>1, <1>2, <1>3, <1>9, LoopBegins DEF EndHook
<1>10. CASE EndShortcut
  BY <1>1, <1>2, <1>3, <1>10, LoopBegins DEF EndShortcut
<1>11. QED BY <1>4, <1>5, <1>6, <1>7, <1>8, <1>9, <1>10

-----------------------------------------------------------------------------
LEMMA CcInitially == CcInit => CcInv
<1>1. SUFFICES ASSUME CcInit PROVE CcInv
  OBVIOUS
<1>2. thread \in [Threads -> ThreadStates] /\ \A t \in Threads : ThreadOK(thread[t])
  BY <1>1, IdleFacts DEF CcInit
<1>3. CcTypeOK
  BY <1>1, <1>2, NodeType DEF CcInit, CcTypeOK, AfforestSteps, SVSteps
<1>4. \A n \in Node : comp[n] <= n /\ Connected(n, comp[n])
  BY <1>1, NodeType, ConnectedReflexive DEF CcInit
<1>5. QED BY <1>1, <1>2, <1>3, <1>4 DEF CcInv, CcInit

LEMMA CcStutters == CcInv /\ UNCHANGED ccVars => CcInv'
<1>1. SUFFICES ASSUME CcInv, UNCHANGED ccVars PROVE CcInv'
  OBVIOUS
<1>2. \A u, v \in Node : Connected(u, v)' <=> Connected(u, v)
  BY <1>1, ConnectedUnchanged DEF ccVars, teamVars
<1>3. CcTypeOK'
  BY <1>1 DEF CcInv, CcTypeOK, ccVars, teamVars
<1>4. \A n \in Node : comp'[n] <= n /\ Connected(n, comp[n])'
  BY <1>1, <1>2 DEF CcInv, CcTypeOK, ccVars, teamVars
<1>5. ASSUME NEW t \in Threads PROVE ThreadOK(thread[t])'
  <2>1. thread' = thread
    BY <1>1 DEF ccVars, teamVars
  <2>2. thread[t] \in ThreadStates /\ ThreadOK(thread[t])
    BY <1>1 DEF CcInv, CcTypeOK
  <2>3. ASSUME thread[t].at \in LinkPlaces PROVE LinkOK(thread[t])'
    <3>1. /\ thread[t].u \in Node /\ thread[t].p1 \in Node /\ thread[t].p2 \in Node
          /\ \A w \in Elems(thread[t].rest) : w \in Node
      BY <2>2, <2>3, LinkingFacts DEF Elems
    <3>2. QED BY <1>2, <2>1, <2>2, <2>3, <3>1 DEF ThreadOK, LinkOK
  <2>4. ASSUME thread[t].at \in {"test", "reread", "write"} PROVE ShortOK(thread[t])'
    BY <1>2, <2>1, <2>2, <2>4, ShorteningFacts DEF ThreadOK, ShortOK
  <2>5. QED BY <2>1, <2>3, <2>4 DEF ThreadOK
<1>6. QED BY <1>1, <1>3, <1>4, <1>5 DEF CcInv, ccVars, teamVars

LEMMA CcKept == CcInv /\ [CcNext]_ccVars => CcInv'
<1>1. SUFFICES ASSUME CcInv, CcNext PROVE CcInv'
  BY CcStutters
<1>2. CASE Afforest
  BY <1>1, <1>2, TakeStep, LinkStep, CompressStep, BarrierStep DEF Afforest
<1>3. CASE ShiloachVishkin
  BY <1>1, <1>3, TakeStep, HookStep, CompressStep, BarrierStep DEF ShiloachVishkin
<1>4. QED BY <1>1, <1>2, <1>3 DEF CcNext

LEMMA CcAlways == CcSpec => []CcInv
<1>1. QED BY CcInitially, CcKept, PTL DEF CcSpec

(* The variables of cc and cc_sv keep their types for any graph and team.  *)
THEOREM CcTypeCorrect == CcSpec => []CcTypeOK
<1>1. CcInv => CcTypeOK
  BY DEF CcInv
<1>2. QED BY <1>1, CcAlways, PTL

(* However many threads hook and compress at a time, with a compare-and-   *)
(* swap (cc.cc:44-62) or with plain stores (cc_sv.cc:49-75), no pointer    *)
(* leads out of a component or upwards.                                    *)
THEOREM PointersWithin == CcSpec => []PointsWithin
<1>1. CcInv => PointsWithin
  BY DEF CcInv, PointsWithin
<1>2. QED BY <1>1, CcAlways, PTL
-----------------------------------------------------------------------------
(* Roots. The lemmas are about any map of pointers that never lead upwards, *)
(* so that they can be used of comp and of comp'.                          *)
Downward == {c \in [Node -> Node] : \A n \in Node : c[n] <= n}

Climbs(c, R) == R = [n \in Node |-> IF c[n] < n THEN R[c[n]] ELSE n]

(* A set that holds a vertex once it holds all lower ones holds them all.  *)
LEMMA NodeInduction ==
  ASSUME NEW P, \A n \in Node : (\A m \in Node : m < n => m \in P) => n \in P
  PROVE  Node \subseteq P
<1> DEFINE Q == {k \in Nat : \A m \in Node : m <= k => m \in P}
<1>1. Node \subseteq Nat
  BY NodeType
<1>2. 0 \in Q
  <2>1. ASSUME NEW m \in Node, m <= 0 PROVE m \in P
    <3>1. \A k \in Node : ~(k < m)
      BY <1>1, <2>1
    <3>2. QED BY <3>1
  <2>2. QED BY <2>1
<1>3. ASSUME NEW k \in Nat, k \in Q PROVE k + 1 \in Q
  <2>1. ASSUME NEW m \in Node, m <= k + 1 PROVE m \in P
    <3>1. \A l \in Node : l < m => l <= k
      BY <1>1, <2>1
    <3>2. \A l \in Node : l < m => l \in P
      BY <1>3, <3>1
    <3>3. QED BY <3>2
  <2>2. QED BY <2>1
<1> HIDE DEF Q
<1>4. Nat \subseteq Q
  BY <1>2, <1>3, NatSetInduction
<1>5. ASSUME NEW n \in Node PROVE n \in P
  <2>1. n \in Q /\ n <= n
    BY <1>1, <1>4
  <2>2. QED BY <2>1 DEF Q
<1>6. QED BY <1>5

(* The recursion has a solution, built up from vertex 0.                   *)
LEMMA RootExists ==
  ASSUME NEW c \in Downward
  PROVE  \E R \in [Node -> Node] : Climbs(c, R)
<1> DEFINE D(k) == {n \in Node : n <= k}
           Solves(k, R) == R = [n \in D(k) |-> IF c[n] < n THEN R[c[n]] ELSE n]
           P == {k \in Nat : \E R \in [D(k) -> Node] : Solves(k, R)}
<1>1. Node \subseteq Nat /\ 0 \in Node
  BY NodeType
<1>2. \A n \in Node : c[n] \in Node /\ c[n] <= n /\ n \in Nat /\ c[n] \in Nat
  BY <1>1 DEF Downward
<1>3. 0 \in P
  <2>1. D(0) = {0}
    <3>1. \A n \in Node : n <= 0 <=> n = 0
      BY <1>2
    <3>2. QED BY <1>1, <3>1
  <2>2. ~(c[0] < 0)
    <3>1. c[0] \in Nat
      BY <1>1, <1>2
    <3>2. QED BY <3>1
  <2> DEFINE R == [n \in D(0) |-> 0]
  <2>3. R \in [D(0) -> Node] /\ Solves(0, R)
    BY <1>1, <2>1, <2>2
  <2>4. QED BY <2>3
<1>4. ASSUME NEW k \in Nat, k \in P PROVE k + 1 \in P
  <2>1. PICK R \in [D(k) -> Node] : Solves(k, R)
    BY <1>4
  <2> DEFINE G == [n \in D(k + 1) |-> IF n \in D(k) THEN R[n]
                                      ELSE IF c[n] < n THEN R[c[n]] ELSE n]
  <2>2. \A n \in D(k) : R[n] \in Node /\ R[n] = IF c[n] < n THEN R[c[n]] ELSE n
    BY <2>1
  <2>3. ASSUME NEW n \in D(k + 1), c[n] < n PROVE c[n] \in D(k) /\ c[n] \in D(k + 1)
    <3>1. n \in Nat /\ c[n] \in Node /\ c[n] \in Nat /\ n <= k + 1
      BY <1>2
    <3>2. c[n] <= k /\ c[n] <= k + 1
      BY <2>3, <3>1
    <3>3. QED BY <3>1, <3>2
  <2>4. \A n \in D(k + 1) : n \in Node
    OBVIOUS
  <2> HIDE DEF D
  <2>5. ASSUME NEW n \in D(k + 1)
        PROVE  G[n] \in Node /\ G[n] = IF c[n] < n THEN G[c[n]] ELSE n
    <3>1. c[n] < n => G[c[n]] = R[c[n]] /\ R[c[n]] \in Node
      BY <2>2, <2>3, <2>4
    <3>2. CASE n \in D(k)
      BY <2>2, <2>4, <3>1, <3>2
    <3>3. CASE n \notin D(k)
      BY <2>4, <3>1, <3>3
    <3>4. QED BY <3>2, <3>3
  <2>6. DOMAIN G = D(k + 1) /\ G = [n \in D(k + 1) |-> G[n]]
    OBVIOUS
  <2> HIDE DEF G
  <2>7. G \in [D(k + 1) -> Node] /\ Solves(k + 1, G)
    BY <2>5, <2>6
  <2>8. k + 1 \in Nat
    OBVIOUS
  <2>9. QED BY <2>7, <2>8
<1> HIDE DEF P
<1>5. Nat \subseteq P
  BY <1>3, <1>4, NatSetInduction
<1>6. N \in P
  BY <1>5, KernelAssumption
<1>7. D(N) = Node
  BY <1>1, KernelAssumption DEF Node
<1>8. QED BY <1>6, <1>7 DEF P, Climbs

LEMMA RootUnique ==
  ASSUME NEW c \in Downward, NEW R, NEW Q, Climbs(c, R), Climbs(c, Q)
  PROVE  R = Q
<1> DEFINE P == {n \in Node : R[n] = Q[n]}
<1>1. /\ \A n \in Node : R[n] = IF c[n] < n THEN R[c[n]] ELSE n
      /\ \A n \in Node : Q[n] = IF c[n] < n THEN Q[c[n]] ELSE n
  BY DEF Climbs
<1>2. \A n \in Node : c[n] \in Node
  BY DEF Downward
<1>3. ASSUME NEW n \in Node, \A m \in Node : m < n => m \in P PROVE n \in P
  BY <1>1, <1>2, <1>3
<1> HIDE DEF P
<1>4. Node \subseteq P
  BY <1>3, NodeInduction
<1>5. \A n \in Node : R[n] = Q[n]
  BY <1>4 DEF P
<1>6. /\ R = [n \in Node |-> R[n]]
      /\ Q = [n \in Node |-> Q[n]]
  BY DEF Climbs
<1>7. QED BY <1>5, <1>6

LEMMA RootIs ==
  ASSUME NEW c \in Downward
  PROVE  /\ RootOf(c) \in [Node -> Node] /\ Climbs(c, RootOf(c))
         /\ \A R : Climbs(c, R) => RootOf(c) = R
<1>1. PICK R \in [Node -> Node] : Climbs(c, R)
  BY RootExists
<1>2. RootOf(c) = CHOOSE Q : Climbs(c, Q)
  BY DEF RootOf, Climbs
<1>3. Climbs(c, RootOf(c))
  BY <1>1, <1>2
<1>4. \A Q : Climbs(c, Q) => RootOf(c) = Q
  BY <1>3, RootUnique
<1>5. QED BY <1>1, <1>3, <1>4

(* A root points to itself, and is the root of every vertex on the way.    *)
LEMMA RootFacts ==
  ASSUME NEW c \in Downward, NEW R, R = RootOf(c), NEW n \in Node
  PROVE  /\ c[n] \in Node /\ c[n] <= n
         /\ R[n] \in Node /\ R[n] <= n
         /\ R[n] = IF c[n] < n THEN R[c[n]] ELSE n
         /\ R[c[n]] = R[n] /\ R[R[n]] = R[n]
         /\ c[n] = n <=> R[n] = n
<1>1. Node \subseteq Nat
  BY NodeType
<1>2. \A m \in Node : c[m] \in Node /\ c[m] <= m
  BY DEF Downward
<1>3. R \in [Node -> Node] /\ \A m \in Node : R[m] = IF c[m] < m THEN R[c[m]] ELSE m
  BY RootIs DEF Climbs
<1> DEFINE P == {m \in Node : R[m] <= m /\ R[R[m]] = R[m]}
<1>4. ASSUME NEW m \in Node, \A l \in Node : l < m => l \in P PROVE m \in P
  <2>1. m \in Nat /\ c[m] \in Nat /\ R[m] \in Nat /\ R[c[m]] \in Nat
    BY <1>1, <1>2, <1>3
  <2>2. CASE c[m] < m
    <3>1. R[m] = R[c[m]] /\ R[c[m]] <= c[m] /\ R[R[c[m]]] = R[c[m]]
      BY <1>2, <1>3, <1>4, <2>2
    <3>2. R[R[m]] = R[m]
      BY <3>1
    <3>3. R[m] <= m
      BY <2>1, <2>2, <3>1
    <3>4. QED BY <3>2, <3>3
  <2>3. CASE ~(c[m] < m)
    BY <1>3, <2>1, <2>3
  <2>4. QED BY <2>2, <2>3
<1> HIDE DEF P
<1>5. Node \subseteq P
  BY <1>4, NodeInduction
<1>6. \A m \in Node : R[m] <= m /\ R[R[m]] = R[m]
  BY <1>5 DEF P
<1>7. n \in Nat /\ c[n] \in Nat /\ c[n] <= n /\ R[c[n]] \in Nat /\ R[n] \in Nat
  BY <1>1, <1>2, <1>3
<1>8. CASE c[n] < n
  <2>1. R[n] = R[c[n]] /\ R[c[n]] <= c[n]
    BY <1>2, <1>3, <1>6, <1>8
  <2>2. c[n] # n /\ R[n] # n
    BY <1>7, <1>8, <2>1
  <2>3. QED BY <1>2, <1>3, <1>6, <2>1, <2>2
<1>9. CASE ~(c[n] < n)
  <2>1. c[n] = n /\ R[n] = n
    BY <1>3, <1>7, <1>9
  <2>2. QED BY <1>2, <1>3, <1>6, <1>9, <2>1
<1>10. QED BY <1>8, <1>9

(* A hook moves the tree of the root h into the tree of l.                 *)
Rehung(R, h, l) == [n \in Node |-> IF R[n] = h THEN R[l] ELSE R[n]]

LEMMA RootHooked ==
  ASSUME NEW c \in Downward, NEW h \in Node, NEW l \in Node, l < h, c[h] = h,
         NEW d, d = [c EXCEPT ![h] = l]
  PROVE  /\ d \in Downward
         /\ RootOf(d) = Rehung(RootOf(c), h, l)
<1> DEFINE R == RootOf(c)
           Q == [n \in Node |-> IF R[n] = h THEN R[l] ELSE R[n]]
<1>1. Node \subseteq Nat
  BY NodeType
<1>2. c \in [Node -> Node] /\ \A n \in Node : c[n] <= n
  BY DEF Downward
<1>3. d \in [Node -> Node] /\ \A n \in Node : d[n] = IF n = h THEN l ELSE c[n]
  BY <1>2
<1>4. \A n \in Node : d[n] <= n
  BY <1>1, <1>2, <1>3
<1>5. d \in Downward
  BY <1>3, <1>4 DEF Downward
<1>6. \A n \in Node : /\ R[n] \in Node /\ R[n] <= n
                      /\ R[n] = IF c[n] < n THEN R[c[n]] ELSE n
                      /\ R[c[n]] = R[n] /\ (c[n] = n <=> R[n] = n)
  BY RootFacts
<1> HIDE DEF R
<1>7. R[h] = h /\ R[l] # h
  BY <1>1, <1>6
<1>8. ASSUME NEW n \in Node PROVE Q[n] = IF d[n] < n THEN Q[d[n]] ELSE n
  <2>1. CASE n = h
    BY <1>3, <1>7, <2>1
  <2>2. CASE n # h
    <3>1. d[n] = c[n] /\ c[n] \in Node /\ R[c[n]] = R[n]
      BY <1>2, <1>3, <1>6, <2>2
    <3>2. CASE c[n] < n
      BY <3>1, <3>2
    <3>3. CASE ~(c[n] < n)
      BY <1>6, <2>2, <3>1, <3>3
    <3>4. QED BY <3>2, <3>3
  <2>3. QED BY <2>1, <2>2
<1>9. Q = [n \in Node |-> Q[n]]
  OBVIOUS
<1> HIDE DEF Q
<1>10. Climbs(d, Q)
  BY <1>8, <1>9 DEF Climbs
<1>11. RootOf(d) = Q
  BY <1>5, <1>10, RootIs
<1>12. QED BY <1>5, <1>11 DEF Q, R, Rehung

(* Pointing a vertex to a lower one of its tree changes no root.           *)
LEMMA RootShortened ==
  ASSUME NEW c \in Downward, NEW n \in Node, NEW up \in Node, up < n,
         RootOf(c)[up] = RootOf(c)[n],
         NEW d, d = [c EXCEPT ![n] = up]
  PROVE  d \in Downward /\ RootOf(d) = RootOf(c)
<1> DEFINE R == RootOf(c)
<1>1. Node \subseteq Nat
  BY NodeType
<1>2. c \in [Node -> Node] /\ \A m \in Node : c[m] <= m
  BY DEF Downward
<1>3. d \in [Node -> Node] /\ \A m \in Node : d[m] = IF m = n THEN up ELSE c[m]
  BY <1>2
<1>4. \A m \in Node : d[m] <= m
  BY <1>1, <1>2, <1>3
<1>5. d \in Downward
  BY <1>3, <1>4 DEF Downward
<1>6. R \in [Node -> Node] /\ R[up] = R[n]
      /\ \A m \in Node : R[m] = IF c[m] < m THEN R[c[m]] ELSE m
  BY RootIs DEF Climbs
<1> HIDE DEF R
<1>7. \A m \in Node : R[m] = IF d[m] < m THEN R[d[m]] ELSE m
  BY <1>3, <1>6
<1>8. R = [m \in Node |-> R[m]]
  BY <1>6
<1>9. Climbs(d, R)
  BY <1>7, <1>8 DEF Climbs
<1>10. QED BY <1>5, <1>9, RootIs DEF R
-----------------------------------------------------------------------------
(* Trees.                                                                  *)
LEMMA CompDownward == CcInv => comp \in Downward
BY DEF CcInv, CcTypeOK, Downward

LEMMA CompDownwardNext == CcInv' => comp' \in Downward
BY DEF CcInv, CcTypeOK, Downward

(* A pointer stays in the tree, and only a root points to itself.          *)
LEMMA TreeFacts ==
  ASSUME CcInv, NEW n \in Node
  PROVE  SameTree(n, comp[n]) /\ SameTree(comp[n], n)
BY CompDownward, RootFacts DEF SameTree, Root

(* Vertices of one tree stay in one tree.                                  *)
Grows == \A u, v \in Node : SameTree(u, v) => SameTree(u, v)'

LEMMA GrowsUnmoved ==
  ASSUME comp' = comp
  PROVE  Grows /\ \A u, v \in Node : SameTree(u, v)' <=> SameTree(u, v)
BY DEF Grows, SameTree, Root

LEMMA GrowsHooked ==
  ASSUME CcInv, NEW h \in Node, NEW l \in Node, l < h, comp[h] = h,
         comp' = [comp EXCEPT ![h] = l]
  PROVE  /\ Root' = Rehung(Root, h, l)
         /\ Root[h] = h /\ Root[l] # h
         /\ Grows
         /\ SameTree(h, l)' /\ SameTree(l, h)'
         /\ \A n \in Node : comp[n] < n => comp'[n] < n
<1>1. comp \in Downward
  BY CompDownward
<1>2. Root' = Rehung(Root, h, l)
  <2>1. PICK d : d = comp'
    OBVIOUS
  <2>2. PICK c \in Downward : c = comp
    BY <1>1
  <2>3. d = [c EXCEPT ![h] = l] /\ c[h] = h
    BY <2>1, <2>2
  <2>4. RootOf(d) = Rehung(RootOf(c), h, l)
    BY <2>3, RootHooked
  <2>5. QED BY <2>1, <2>2, <2>4 DEF Root
<1>3. /\ Root[h] = h /\ Root[l] \in Node /\ Root[l] <= l
  BY <1>1, RootFacts DEF Root
<1>4. Root[l] # h
  BY <1>3, NodeType
<1>5. Grows
  BY <1>2 DEF Grows, SameTree, Rehung
<1>6. SameTree(h, l)' /\ SameTree(l, h)'
  BY <1>2, <1>3, <1>4 DEF SameTree, Rehung
<1>7. \A n \in Node : comp[n] < n => comp'[n] < n
  BY <1>1 DEF Downward
<1>8. QED BY <1>2, <1>3, <1>4, <1>5, <1>6, <1>7

LEMMA GrowsShortened ==
  ASSUME CcInv, NEW n \in Node, NEW up \in Node, up < n, SameTree(up, n),
         comp' = [comp EXCEPT ![n] = up]
  PROVE  /\ Root' = Root
         /\ Grows
         /\ \A m \in Node : comp[m] < m => comp'[m] < m
<1>1. comp \in Downward
  BY CompDownward
<1>2. Root' = Root
  <2>1. PICK d : d = comp'
    OBVIOUS
  <2>2. PICK c : c = comp
    OBVIOUS
  <2>3. c \in Downward /\ d = [c EXCEPT ![n] = up]
    BY <1>1, <2>1, <2>2
  <2>4. RootOf(c)[up] = RootOf(c)[n]
    BY <2>2 DEF SameTree, Root
  <2>5. RootOf(d) = RootOf(c)
    BY <2>3, <2>4, RootShortened
  <2> QED
    BY <2>1, <2>2, <2>5 DEF Root
<1>3. Grows
  BY <1>2 DEF Grows, SameTree
<1>4. \A m \in Node : comp[m] < m => comp'[m] < m
  BY <1>1 DEF Downward
<1>5. QED BY <1>2, <1>3, <1>4

-----------------------------------------------------------------------------
(* What a thread may be at, in the loop the team is in.                    *)
ThreadFits(th) ==
  \/ th = Idle
  \/ step \in {"sample", "finish"} /\ th.at \in LinkAt /\ LinksEnds(th)
  \/ step \in {"compress", "final"} /\ th.at \in ShortAt /\ ShortensWithin(th)

LEMMA TreeThread ==
  ASSUME TreeInv, kernel = "cc", NEW t \in Threads
  PROVE  ThreadFits(thread[t])
BY DEF TreeInv, ThreadFits

LEMMA ElemsInNode ==
  ASSUME NEW s \in Seq(Node)
  PROVE  Elems(s) \subseteq Node
BY DEF Elems

LEMMA OwedInNode ==
  ASSUME CcInv, NEW u \in Node
  PROVE  Owed(u) \subseteq Node
BY SampledFacts, RemainingFacts, ElemsInNode DEF Owed

LEMMA OwedSame ==
  ASSUME UNCHANGED <<graph, step, round>>, NEW u
  PROVE  Owed(u)' = Owed(u)
BY DEF Owed, Sampled, Remaining

LEMMA AtEndsGrows ==
  ASSUME Grows, NEW p \in Node, NEW q \in Node, NEW u \in Node, NEW v \in Node,
         AtEnds(p, q, u, v)
  PROVE  AtEnds(p, q, u, v)'
BY DEF AtEnds, Grows

(* What the other threads know stays true while trees grow.                *)
LEMMA FitsStill ==
  ASSUME CcInv, Grows, UNCHANGED <<kernel, graph, step, round>>,
         \A n \in Node : comp[n] < n => comp'[n] < n,
         NEW t \in Threads, ThreadFits(thread[t])
  PROVE  ThreadFits(thread[t])'  \/ thread'[t] # thread[t]
<1> SUFFICES ASSUME thread'[t] = thread[t] PROVE ThreadFits(thread[t])'
  OBVIOUS
<1> DEFINE th == thread[t]
<1>1. CASE th = Idle
  BY <1>1 DEF ThreadFits
<1>2. CASE step \in {"sample", "finish"} /\ th.at \in LinkAt /\ LinksEnds(th)
  <2>1. th.at \in LinkPlaces
    BY <1>2 DEF LinkAt, LinkPlaces
  <2>2. /\ th.u \in Node /\ th.p1 \in Node /\ th.p2 \in Node /\ Head(th.rest) \in Node
    BY <2>1, LinkThread
  <2>3. \A w \in Owed(th.u)' : SameTree(th.u, w)' \/ w \in Elems(th.rest)
    <3>1. Owed(th.u) \subseteq Node /\ Owed(th.u)' = Owed(th.u)
      BY <2>2, OwedInNode, OwedSame
    <3>2. QED BY <1>2, <2>2, <3>1 DEF LinksEnds, Grows
  <2>4. th.at = "readV" => SameTree(th.p1, th.u)'
    BY <1>2, <2>2 DEF LinksEnds, Grows
  <2>5. th.at \in LinkAt \ {"readU", "readV"} => AtEnds(th.p1, th.p2, th.u, Head(th.rest))'
    BY <1>2, <2>2, AtEndsGrows DEF LinksEnds
  <2>6. LinksEnds(th)'
    BY <1>2, <2>3, <2>4, <2>5 DEF LinksEnds
  <2>7. QED BY <1>2, <2>6 DEF ThreadFits
<1>3. CASE step \in {"compress", "final"} /\ th.at \in ShortAt /\ ShortensWithin(th)
  <2>1. th.n \in Node /\ th.up \in Node
    BY <1>3, ShortThread DEF ShortAt
  <2>2. ShortensWithin(th)'
    BY <1>3, <2>1 DEF ShortensWithin, Grows
  <2>3. QED BY <1>3, <2>2 DEF ThreadFits
<1>4. QED BY <1>1, <1>2, <1>3 DEF ThreadFits

LEMMA SettledStill ==
  ASSUME CcInv, Grows, UNCHANGED <<graph, step, round, skipped>>, NEW u \in Node, Settled(u)
  PROVE  Settled(u)'
<1>1. Owed(u) \subseteq Node /\ Owed(u)' = Owed(u) /\ skipped \in Node
  BY OwedInNode, OwedSame DEF CcInv, CcTypeOK
<1>2. QED BY <1>1 DEF Settled, Grows

(* One thread moves: the others, and the vertices settled, are not         *)
(* disturbed; what it was working on it goes on with, or has settled.      *)
LEMMA TreeMoves ==
  ASSUME CcInv, TreeInv, kernel = "cc", Grows,
         UNCHANGED <<kernel, graph, step, round, skipped>>,
         \A n \in Node : comp[n] < n => comp'[n] < n,
         todo' \subseteq todo,
         NEW t \in Threads, NEW next, thread' = [thread EXCEPT ![t] = next],
         ThreadFits(thread[t])',
         \A u \in Node :
           /\ step \in {"sample", "finish"}
           /\ u \in todo \ todo' \/ (thread[t] # Idle /\ thread[t].u = u)
           => (next # Idle /\ next.u = u) \/ Settled(u)'
  PROVE  TreeInv'
<1>1. DOMAIN thread = Threads
  BY DEF CcInv, CcTypeOK
<1>2. ASSUME NEW q \in Threads PROVE ThreadFits(thread[q])'
  <2>1. CASE q = t
    BY <2>1
  <2>2. CASE q # t
    <3>1. thread'[q] = thread[q] /\ ThreadFits(thread[q])
      BY <1>1, <2>2, TreeThread
    <3>2. QED BY <3>1, FitsStill
  <2>3. QED BY <2>1, <2>2
<1>3. ASSUME NEW u \in Node, NEW i \in DOMAIN graph.out[u], i <= round
      PROVE  SameTree(u, graph.out[u][i])'
  <2>1. SameTree(u, graph.out[u][i])
    BY <1>3 DEF TreeInv
  <2>2. graph.out[u] \in Seq(Node)
    BY GraphType DEF CcInv, CcTypeOK
  <2>3. graph.out[u][i] \in Node
    BY <2>2
  <2>4. QED BY <2>1, <2>3 DEF Grows
<1>4. ASSUME step \notin {"pick", "done"}, NEW u \in Node PROVE Working(u)' \/ Settled(u)'
  <2>1. CASE Settled(u)
    BY <2>1, SettledStill
  <2>2. CASE Working(u)
    <3>1. CASE u \in todo'
      BY <2>2, <3>1 DEF Working
    <3>2. CASE u \in todo \ todo'
      <4>1. (next # Idle /\ next.u = u) \/ Settled(u)'
        BY <2>2, <3>2 DEF Working
      <4>2. thread'[t] = next
        BY <1>1
      <4>3. QED BY <2>2, <4>1, <4>2 DEF Working
    <3>3. ASSUME NEW q \in Threads, thread[q] # Idle, thread[q].u = u
          PROVE  Working(u)' \/ Settled(u)'
      <4>1. CASE q = t
        <5>1. (next # Idle /\ next.u = u) \/ Settled(u)'
          BY <2>2, <3>3, <4>1 DEF Working
        <5>2. thread'[t] = next
          BY <1>1
        <5>3. QED BY <2>2, <5>1, <5>2 DEF Working
      <4>2. CASE q # t
        <5>1. thread'[q] = thread[q]
          BY <1>1, <4>2
        <5>2. QED BY <2>2, <3>3, <5>1 DEF Working
      <4>3. QED BY <4>1, <4>2
    <3>4. QED BY <2>2, <3>1, <3>2, <3>3 DEF Working
  <2>3. QED BY <1>4, <2>1, <2>2 DEF TreeInv
<1>5. /\ step' \in AfforestSteps
      /\ IF step' \in {"sample", "compress"} THEN round' < NeighborRounds
         ELSE round' = NeighborRounds
  BY DEF TreeInv
<1>6. \A u \in Node : \A i \in DOMAIN graph'.out[u] : i <= round' => SameTree(u, graph.out[u][i])'
  BY <1>3
<1>7. step' \notin {"pick", "done"} => \A u \in Node : Working(u)' \/ Settled(u)'
  BY <1>4
<1>8. QED BY <1>2, <1>5, <1>6, <1>7 DEF TreeInv, ThreadFits

-----------------------------------------------------------------------------
(* Linking.                                                                *)
LEMMA RestSplit ==
  ASSUME NEW s \in Seq(Node), s # <<>>
  PROVE  Elems(s) \subseteq {Head(s)} \cup Elems(Tail(s))
<1>1. Len(s) \in Nat \ {0} /\ DOMAIN s = 1 .. Len(s)
  OBVIOUS
<1>2. /\ Head(s) = s[1]
      /\ DOMAIN Tail(s) = 1 .. Len(s) - 1
      /\ \A i \in 1 .. Len(s) - 1 : Tail(s)[i] = s[i + 1]
  BY <1>1
<1>3. ASSUME NEW i \in DOMAIN s PROVE s[i] = Head(s) \/ s[i] \in Elems(Tail(s))
  <2>1. CASE i = 1
    BY <1>2, <2>1
  <2>2. CASE i # 1
    <3>1. i - 1 \in 1 .. Len(s) - 1 /\ (i - 1) + 1 = i
      BY <1>1, <2>2
    <3>2. Tail(s)[i - 1] = s[i] /\ i - 1 \in DOMAIN Tail(s)
      BY <1>2, <3>1
    <3>3. QED BY <3>2 DEF Elems
  <2>3. QED BY <2>1, <2>2
<1>4. QED BY <1>3 DEF Elems

LEMMA EndsFacts ==
  ASSUME NEW p, NEW q, NEW u, NEW v, AtEnds(p, q, u, v)
  PROVE  /\ AtEnds(q, p, u, v)
         /\ SameTree(p, q) => SameTree(u, v)
         /\ \A a : SameTree(a, p) => AtEnds(a, q, u, v)
BY DEF AtEnds, SameTree

LEMMA EndsJoined ==
  ASSUME NEW p, NEW q, NEW u, NEW v, AtEnds(p, q, u, v)', SameTree(p, q)'
  PROVE  SameTree(u, v)'
BY DEF AtEnds, SameTree

LEMMA TreeLinkThread ==
  ASSUME TreeInv, kernel = "cc", NEW t \in Threads, thread[t].at \in LinkAt
  PROVE  /\ step \in {"sample", "finish"} /\ LinksEnds(thread[t])
         /\ thread[t] # Idle /\ thread[t].at \in LinkPlaces
<1>1. thread[t] # Idle /\ thread[t].at \notin ShortAt
  BY DEF Idle, LinkAt, ShortAt
<1>2. QED BY <1>1, TreeThread DEF ThreadFits, LinkAt, LinkPlaces

(* An iteration goes on with what is left, or it has done all it owed.     *)
HookBegun(u, next) == (next # Idle /\ next.u = u) \/ Settled(u)

LEMMA EdgesLeft ==
  ASSUME NEW u \in Node, NEW rest \in Seq(Node), step' \in {"sample", "finish"},
         Elems(rest) \subseteq (Elems(graph.out[u]) \cup Elems(graph.in[u]))',
         \A w \in Owed(u)' : SameTree(u, w)' \/ w \in Elems(rest)
  PROVE  ThreadFits(NextLink(u, rest))' /\ HookBegun(u, NextLink(u, rest))'
<1>1. CASE rest = <<>>
  <2>1. NextLink(u, rest) = Idle
    BY <1>1 DEF NextLink
  <2>2. Elems(rest) = {}
    BY <1>1 DEF Elems
  <2>3. Settled(u)'
    BY <2>2 DEF Settled
  <2>4. QED BY <2>1, <2>3 DEF ThreadFits, HookBegun
<1>2. CASE rest # <<>>
  <2> DEFINE next == NextLink(u, rest)
  <2>1. next.at = "readU" /\ next.u = u /\ next.rest = rest /\ next # Idle
    BY <1>2 DEF NextLink, Linking, Idle
  <2> HIDE DEF next
  <2>2. LinksEnds(next)'
    BY <2>1 DEF LinksEnds
  <2>3. ThreadFits(next)'
    BY <2>1, <2>2 DEF ThreadFits, LinkAt
  <2>4. HookBegun(u, next)'
    BY <2>1 DEF HookBegun
  <2>5. QED BY <2>3, <2>4 DEF next
<1>3. QED BY <1>1, <1>2

(* A thread leaves an edge whose ends are in one tree.                     *)
LEMMA HookDone ==
  ASSUME CcInv, TreeInv, kernel = "cc", Grows,
         UNCHANGED <<kernel, graph, step, todo, round, skipped>>,
         \A n \in Node : comp[n] < n => comp'[n] < n,
         NEW t \in Threads, thread[t].at \in LinkAt,
         NEW u, NEW v, NEW rest,
         u = thread[t].u, v = Head(thread[t].rest), rest = Tail(thread[t].rest),
         thread' = [thread EXCEPT ![t] = NextLink(u, rest)],
         SameTree(u, v)'
  PROVE  TreeInv'
<1>1. PICK th : th = thread[t]
  OBVIOUS
<1>2. step \in {"sample", "finish"} /\ LinksEnds(th) /\ th.at \in LinkPlaces
  BY <1>1, TreeLinkThread
<1>3. /\ u \in Node /\ th.rest \in Seq(Node) /\ th.rest # <<>>
      /\ v \in Node /\ rest \in Seq(Node)
  BY <1>1, <1>2, LinkThread
<1>4. Elems(rest) \subseteq Elems(th.rest) /\ Elems(th.rest) \subseteq {v} \cup Elems(rest)
  BY <1>1, <1>3, RestFacts, RestSplit
<1>5. Elems(rest) \subseteq (Elems(graph.out[u]) \cup Elems(graph.in[u]))'
  BY <1>1, <1>2, <1>4 DEF LinksEnds
<1>6. Owed(u)' = Owed(u) /\ Owed(u) \subseteq Node
  BY <1>3, OwedSame, OwedInNode
<1>7. ASSUME NEW w \in Owed(u)' PROVE SameTree(u, w)' \/ w \in Elems(rest)
  <2>1. SameTree(u, w) \/ w = v \/ w \in Elems(rest)
    BY <1>1, <1>2, <1>4, <1>6, <1>7 DEF LinksEnds
  <2>2. SameTree(u, w) => SameTree(u, w)'
    BY <1>3, <1>6, <1>7 DEF Grows
  <2>3. QED BY <2>1, <2>2
<1>8. PICK next : next = NextLink(u, rest)
  OBVIOUS
<1>9. thread'[t] = next
  BY <1>8 DEF CcInv, CcTypeOK
<1>10. ThreadFits(next)' /\ HookBegun(u, next)'
  BY <1>2, <1>3, <1>5, <1>7, <1>8, EdgesLeft
<1>11. ThreadFits(thread[t])'
  BY <1>9, <1>10
<1>12. \A n \in Node : thread[t].u = n => (next # Idle /\ next.u = n) \/ Settled(n)'
  BY <1>10 DEF HookBegun
<1>13. thread' = [thread EXCEPT ![t] = next] /\ todo' \subseteq todo /\ todo \ todo' = {}
  BY <1>8
<1>14. QED BY <1>11, <1>12, <1>13, TreeMoves

(* A thread goes on with its edge, knowing what it should.                 *)
LEMMA EdgeGoesOn ==
  ASSUME CcInv, TreeInv, kernel = "cc",
         UNCHANGED <<kernel, graph, step, todo, comp, round, skipped>>,
         NEW t \in Threads, thread[t].at \in LinkAt, NEW next \in LinkRecord,
         next.at \in LinkAt, next.u = thread[t].u, next.rest = thread[t].rest,
         next.at = "readV" => SameTree(next.p1, next.u),
         next.at \in LinkAt \ {"readU", "readV"} =>
           AtEnds(next.p1, next.p2, next.u, Head(next.rest)),
         next.at \in {"readHigh", "cas"} => next.p1 # next.p2,
         thread' = [thread EXCEPT ![t] = next]
  PROVE  TreeInv'
<1>1. step \in {"sample", "finish"} /\ LinksEnds(thread[t])
  BY TreeLinkThread
<1>2. Grows
  BY GrowsUnmoved
<1>3. LinksEnds(next)
  BY <1>1 DEF LinksEnds
<1>4. LinksEnds(next)'
  BY <1>3, OwedSame DEF LinksEnds, AtEnds, SameTree, Root
<1>5. ThreadFits(next)'
  BY <1>1, <1>4 DEF ThreadFits
<1>6. thread'[t] = next
  BY DEF CcInv, CcTypeOK
<1>7. ThreadFits(thread[t])'
  BY <1>5, <1>6
<1>8. next # Idle
  BY DEF Idle, LinkAt
<1>9. \A n \in Node : thread[t].u = n => (next # Idle /\ next.u = n) \/ Settled(n)'
  BY <1>8
<1>10. \A n \in Node : comp[n] < n => comp'[n] < n
  OBVIOUS
<1>11. todo' \subseteq todo /\ todo \ todo' = {}
  OBVIOUS
<1>12. QED BY <1>2, <1>7, <1>9, <1>10, <1>11, TreeMoves

LEMMA EdgeTested ==
  ASSUME CcInv, TreeInv, kernel = "cc",
         UNCHANGED <<kernel, graph, step, todo, comp, round, skipped>>,
         NEW t \in Threads, thread[t].at \in LinkAt, NEW next \in LinkRecord,
         next.u = thread[t].u, next.rest = thread[t].rest,
         AtEnds(next.p1, next.p2, next.u, Head(next.rest)),
         thread' = [thread EXCEPT ![t] = Tested(next)]
  PROVE  TreeInv'
<1>1. CASE next.p1 = next.p2
  <2>1. SameTree(next.u, Head(next.rest))
    BY <1>1 DEF AtEnds, SameTree
  <2>2. Grows /\ SameTree(next.u, Head(next.rest))'
    BY <2>1 DEF Grows, SameTree, Root
  <2>3. Tested(next) = NextLink(next.u, Tail(next.rest))
    BY <1>1 DEF Tested
  <2>4. \A n \in Node : comp[n] < n => comp'[n] < n
    OBVIOUS
  <2>5. QED BY <2>2, <2>3, <2>4, HookDone
<1>2. CASE next.p1 # next.p2
  <2> DEFINE after == [next EXCEPT !.at = "readHigh"]
  <2>1. Tested(next) = after
    BY <1>2 DEF Tested
  <2>2. /\ after \in LinkRecord /\ after.at = "readHigh" /\ after.u = next.u
        /\ after.rest = next.rest /\ after.p1 = next.p1 /\ after.p2 = next.p2
    BY DEF LinkRecord, LinkPlaces
  <2> HIDE DEF after
  <2>3. after.at \in LinkAt /\ after.at # "readV"
    BY <2>2 DEF LinkAt
  <2>4. QED BY <1>2, <2>1, <2>2, <2>3, EdgeGoesOn
<1>3. QED BY <1>1, <1>2

(* Link(u, v, comp), one access after another.                             *)
LEMMA TreeLink ==
  ASSUME CcInv, TreeInv, kernel = "cc", NEW t \in Threads, Link(t)
  PROVE  TreeInv'
<1>1. PICK th : th = thread[t]
  OBVIOUS
<1>2. th.at \in LinkAt
  BY <1>1 DEF Link, ReadU, ReadV, ReadHigh, CompareAndSwap, Climb, ClimbOn, ClimbLow, LinkAt
<1>3. LinksEnds(th) /\ th.at \in LinkPlaces
  BY <1>1, <1>2, TreeLinkThread
<1>4. PICK u, v, rest : u = th.u /\ v = Head(th.rest) /\ rest = Tail(th.rest)
  OBVIOUS
<1>5. u \in Node /\ v \in Node /\ th.p1 \in Node /\ th.p2 \in Node /\ th \in LinkRecord
  BY <1>1, <1>3, <1>4, LinkThread, ThreadRecord
<1>6. PICK hi, lo : hi = Hi(th) /\ lo = Lo(th)
  OBVIOUS
<1>7. /\ hi \in Node /\ lo \in Node /\ lo <= hi
      /\ \/ hi = th.p1 /\ lo = th.p2
         \/ hi = th.p2 /\ lo = th.p1
  <2>1. th \in ThreadStates
    BY <1>1 DEF CcInv, CcTypeOK
  <2>2. QED BY <1>3, <1>6, <2>1, LinkingFacts
<1>8. \A n \in Node : comp[n] \in Node /\ SameTree(comp[n], n)
  BY TreeFacts, PointerFacts
<1>9. CASE ReadU(t)
  <2> DEFINE next == [th EXCEPT !.at = "readV", !.p1 = comp[u]]
  <2>1. /\ next \in LinkRecord /\ next.at = "readV" /\ next.u = u /\ next.rest = th.rest
        /\ next.p1 = comp[u]
    BY <1>4, <1>5, <1>8 DEF LinkRecord, LinkPlaces
  <2>2. PICK after : after = next
    OBVIOUS
  <2>3. thread' = [thread EXCEPT ![t] = after]
        /\ UNCHANGED <<kernel, graph, step, todo, comp, round, skipped>>
    BY <1>1, <1>4, <1>9, <2>2 DEF ReadU, Goes
  <2>4. /\ after \in LinkRecord /\ after.at \in LinkAt /\ after.at = "readV"
        /\ after.u = thread[t].u /\ after.rest = thread[t].rest
        /\ SameTree(after.p1, after.u)
    BY <1>1, <1>4, <1>5, <1>8, <2>1, <2>2 DEF LinkAt
  <2>5. QED BY <1>1, <1>2, <2>3, <2>4, EdgeGoesOn
<1>10. CASE ReadV(t)
  <2> DEFINE next == [th EXCEPT !.p2 = comp[v]]
  <2>1. /\ next \in LinkRecord /\ next.at = th.at /\ next.u = u /\ next.rest = th.rest
        /\ next.p1 = th.p1 /\ next.p2 = comp[v]
    BY <1>4, <1>5, <1>8 DEF LinkRecord
  <2>2. PICK after : after = next
    OBVIOUS
  <2>3. thread' = [thread EXCEPT ![t] = Tested(after)]
        /\ UNCHANGED <<kernel, graph, step, todo, comp, round, skipped>>
    BY <1>1, <1>4, <1>10, <2>2 DEF ReadV, Goes
  <2>4. SameTree(th.p1, u) /\ SameTree(comp[v], v)
    BY <1>1, <1>3, <1>4, <1>5, <1>8, <1>10 DEF ReadV, LinksEnds
  <2>5. AtEnds(after.p1, after.p2, after.u, Head(after.rest))
    BY <1>4, <2>1, <2>2, <2>4 DEF AtEnds
  <2>6. /\ after \in LinkRecord /\ after.u = thread[t].u /\ after.rest = thread[t].rest
    BY <1>1, <1>4, <2>1, <2>2
  <2>7. QED BY <1>1, <1>2, <2>3, <2>5, <2>6, EdgeTested
<1>11. ASSUME th.at \in {"readHigh", "cas"}
       PROVE  AtEnds(th.p1, th.p2, u, v) /\ th.p1 # th.p2 /\ lo < hi
  <2>1. AtEnds(th.p1, th.p2, u, v) /\ th.p1 # th.p2
    BY <1>3, <1>4, <1>11 DEF LinksEnds, LinkAt
  <2>2. hi \in Nat /\ lo \in Nat /\ hi # lo /\ lo <= hi
    BY <1>7, <2>1, NodeType
  <2>3. QED BY <2>1, <2>2
<1>12. ASSUME th.at \in {"readHigh", "cas"}, NEW at \in {"cas", "climb"},
              thread' = [thread EXCEPT ![t] = [th EXCEPT !.at = at]],
              UNCHANGED <<kernel, graph, step, todo, comp, round, skipped>>
       PROVE  TreeInv'
  <2> DEFINE next == [th EXCEPT !.at = at]
  <2>1. /\ next \in LinkRecord /\ next.at = at /\ next.u = u /\ next.rest = th.rest
        /\ next.p1 = th.p1 /\ next.p2 = th.p2
    BY <1>4, <1>5 DEF LinkRecord, LinkPlaces
  <2>2. PICK after : after = next
    OBVIOUS
  <2>3. thread' = [thread EXCEPT ![t] = after]
    BY <1>12, <2>2
  <2>4. /\ after \in LinkRecord /\ after.at \in LinkAt /\ after.at # "readV"
        /\ after.u = thread[t].u /\ after.rest = thread[t].rest
        /\ AtEnds(after.p1, after.p2, after.u, Head(after.rest)) /\ after.p1 # after.p2
    BY <1>1, <1>4, <1>11, <1>12, <2>1, <2>2 DEF LinkAt
  <2>5. QED BY <1>1, <1>2, <1>12, <2>3, <2>4, EdgeGoesOn
<1>13. CASE ReadHigh(t)
  <2>1. th.at = "readHigh" /\ UNCHANGED <<kernel, graph, step, todo, comp, round, skipped>>
    BY <1>1, <1>13 DEF ReadHigh, Goes
  <2>2. CASE comp[hi] = lo
    <3>1. thread' = [thread EXCEPT ![t] = NextLink(u, rest)]
      BY <1>1, <1>4, <1>6, <1>13, <2>2 DEF ReadHigh, Goes
    <3>2. SameTree(lo, hi) /\ SameTree(hi, lo)
      BY <1>7, <1>8, <2>2 DEF SameTree
    <3>3. SameTree(th.p1, th.p2)
      BY <1>7, <3>2
    <3>4. SameTree(u, v)
      BY <1>11, <2>1, <3>3, EndsFacts
    <3>5. Grows /\ SameTree(u, v)'
      BY <2>1, <3>4 DEF Grows, SameTree, Root
    <3>6. \A n \in Node : comp[n] < n => comp'[n] < n
      BY <2>1
    <3>7. QED BY <1>1, <1>2, <1>4, <2>1, <3>1, <3>5, <3>6, HookDone
  <2>3. CASE comp[hi] # lo
    <3>1. \E at \in {"cas", "climb"} : thread' = [thread EXCEPT ![t] = [th EXCEPT !.at = at]]
      BY <1>1, <1>6, <1>13, <2>3 DEF ReadHigh, Goes
    <3>2. QED BY <1>12, <2>1, <3>1
  <2>4. QED BY <2>2, <2>3
<1>14. CASE CompareAndSwap(t)
  <2>1. th.at = "cas" /\ UNCHANGED <<kernel, graph, step, todo, round, skipped>>
    BY <1>1, <1>14 DEF CompareAndSwap, Goes
  <2>2. CASE comp[hi] = hi
    <3>1. /\ thread' = [thread EXCEPT ![t] = NextLink(u, rest)]
          /\ comp' = [comp EXCEPT ![hi] = lo]
      BY <1>1, <1>4, <1>6, <1>14, <2>2 DEF CompareAndSwap, Goes
    <3>2. /\ Grows /\ SameTree(hi, lo)' /\ SameTree(lo, hi)'
          /\ \A n \in Node : comp[n] < n => comp'[n] < n
      BY <1>7, <1>11, <2>1, <2>2, <3>1, GrowsHooked
    <3>3. PICK p, q : p = th.p1 /\ q = th.p2
      OBVIOUS
    <3>4. AtEnds(p, q, u, v)' /\ SameTree(p, q)'
      BY <1>5, <1>7, <1>11, <2>1, <3>2, <3>3, AtEndsGrows
    <3>5. SameTree(u, v)'
      BY <3>4, EndsJoined
    <3>6. QED BY <1>1, <1>2, <1>4, <2>1, <3>1, <3>2, <3>5, HookDone
  <2>3. CASE comp[hi] # hi
    <3>1. thread' = [thread EXCEPT ![t] = [th EXCEPT !.at = "climb"]] /\ comp' = comp
      BY <1>1, <1>6, <1>14, <2>3 DEF CompareAndSwap, Goes
    <3>2. QED BY <1>12, <2>1, <3>1
  <2>4. QED BY <2>2, <2>3
<1>15. ASSUME th.at \in {"climb", "climbOn", "climbLow"} PROVE AtEnds(th.p1, th.p2, u, v)
  BY <1>3, <1>4, <1>15 DEF LinksEnds, LinkAt
<1>16. CASE Climb(t)
  <2> DEFINE next == [th EXCEPT !.at = "climbOn", !.p1 = comp[hi], !.p2 = lo]
  <2>1. /\ next \in LinkRecord /\ next.at = "climbOn" /\ next.u = u /\ next.rest = th.rest
        /\ next.p1 = comp[hi] /\ next.p2 = lo
    BY <1>4, <1>5, <1>7, <1>8 DEF LinkRecord, LinkPlaces
  <2>2. PICK after : after = next
    OBVIOUS
  <2>3. thread' = [thread EXCEPT ![t] = after]
        /\ UNCHANGED <<kernel, graph, step, todo, comp, round, skipped>>
    BY <1>1, <1>6, <1>16, <2>2 DEF Climb, Goes
  <2>4. AtEnds(hi, lo, u, v)
    BY <1>1, <1>7, <1>15, <1>16, EndsFacts DEF Climb
  <2>5. AtEnds(comp[hi], lo, u, v)
    BY <1>7, <1>8, <2>4, EndsFacts
  <2>6. /\ after \in LinkRecord /\ after.at \in LinkAt /\ after.at = "climbOn"
        /\ after.u = thread[t].u /\ after.rest = thread[t].rest
        /\ AtEnds(after.p1, after.p2, after.u, Head(after.rest))
    BY <1>1, <1>4, <2>1, <2>2, <2>5 DEF LinkAt
  <2>7. QED BY <1>1, <1>2, <2>3, <2>6, EdgeGoesOn
<1>17. CASE ClimbOn(t)
  <2> DEFINE next == [th EXCEPT !.at = "climbLow", !.p1 = comp[th.p1]]
  <2>1. /\ next \in LinkRecord /\ next.at = "climbLow" /\ next.u = u /\ next.rest = th.rest
        /\ next.p1 = comp[th.p1] /\ next.p2 = th.p2
    BY <1>4, <1>5, <1>8 DEF LinkRecord, LinkPlaces
  <2>2. PICK after : after = next
    OBVIOUS
  <2>3. thread' = [thread EXCEPT ![t] = after]
        /\ UNCHANGED <<kernel, graph, step, todo, comp, round, skipped>>
    BY <1>1, <1>17, <2>2 DEF ClimbOn, Goes
  <2>4. AtEnds(th.p1, th.p2, u, v)
    BY <1>1, <1>15, <1>17 DEF ClimbOn
  <2>5. AtEnds(comp[th.p1], th.p2, u, v)
    BY <1>5, <1>8, <2>4, EndsFacts
  <2>6. /\ after \in LinkRecord /\ after.at \in LinkAt /\ after.at = "climbLow"
        /\ after.u = thread[t].u /\ after.rest = thread[t].rest
        /\ AtEnds(after.p1, after.p2, after.u, Head(after.rest))
    BY <1>1, <1>4, <2>1, <2>2, <2>5 DEF LinkAt
  <2>7. QED BY <1>1, <1>2, <2>3, <2>6, EdgeGoesOn
<1>18. CASE ClimbLow(t)
  <2> DEFINE next == [th EXCEPT !.p2 = comp[th.p2]]
  <2>1. /\ next \in LinkRecord /\ next.u = u /\ next.rest = th.rest
        /\ next.p1 = th.p1 /\ next.p2 = comp[th.p2]
    BY <1>4, <1>5, <1>8 DEF LinkRecord
  <2>2. PICK after : after = next
    OBVIOUS
  <2>3. thread' = [thread EXCEPT ![t] = Tested(after)]
        /\ UNCHANGED <<kernel, graph, step, todo, comp, round, skipped>>
    BY <1>1, <1>18, <2>2 DEF ClimbLow, Goes
  <2>4. AtEnds(th.p2, th.p1, u, v)
    BY <1>1, <1>15, <1>18, EndsFacts DEF ClimbLow
  <2>5. AtEnds(comp[th.p2], th.p1, u, v)
    BY <1>5, <1>8, <2>4, EndsFacts
  <2>6. AtEnds(th.p1, comp[th.p2], u, v)
    BY <2>5, EndsFacts
  <2>7. /\ after \in LinkRecord /\ after.u = thread[t].u /\ after.rest = thread[t].rest
        /\ AtEnds(after.p1, after.p2, after.u, Head(after.rest))
    BY <1>1, <1>4, <2>1, <2>2, <2>6
  <2>8. QED BY <1>1, <1>2, <2>3, <2>7, EdgeTested
<1>19. QED BY <1>9, <1>10, <1>13, <1>14, <1>16, <1>17, <1>18 DEF Link

-----------------------------------------------------------------------------
(* Taking a vertex.                                                        *)
LEMMA OwedWithin ==
  ASSUME CcInv, NEW u \in Node
  PROVE  Owed(u) \subseteq Elems(graph.out[u]) \cup Elems(graph.in[u])
<1> DEFINE s == graph.out[u]
           a == SubSeq(s, NeighborRounds + 1, Len(s))
           b == IF graph.directed THEN graph.in[u] ELSE <<>>
<1>1. graph \in Graphs /\ NeighborRounds \in Nat /\ round \in Nat
  BY RoundsAssumption DEF CcInv, CcTypeOK
<1>2. s \in Seq(Node) /\ graph.in[u] \in Seq(Node)
  BY <1>1, GraphType
<1>3. Elems(Sampled(u)) \subseteq Elems(s)
  <2>1. CASE round < Len(s)
    <3>1. s[round + 1] \in Elems(s)
      BY <1>1, <1>2, <2>1 DEF Elems
    <3>2. Elems(Sampled(u)) = {s[round + 1]}
      BY <2>1 DEF Sampled, Elems
    <3>3. QED BY <3>1, <3>2
  <2>2. CASE ~(round < Len(s))
    BY <2>2 DEF Sampled, Elems
  <2>3. QED BY <2>1, <2>2
<1>4. a \in Seq(Node) /\ \A i \in DOMAIN a : a[i] \in Elems(s)
  <2>1. Len(s) \in Nat /\ DOMAIN s = 1 .. Len(s)
    BY <1>2
  <2>2. /\ a \in Seq(Node)
        /\ \A i \in DOMAIN a : a[i] = s[NeighborRounds + i] /\ NeighborRounds + i \in 1 .. Len(s)
    BY <1>1, <1>2, <2>1
  <2>3. QED BY <2>1, <2>2 DEF Elems
<1>5. b \in Seq(Node) /\ \A i \in DOMAIN b : b[i] \in Elems(graph.in[u])
  BY <1>2 DEF Elems
<1> HIDE DEF a, b
<1>6. \A i \in DOMAIN (a \o b) : \/ i \in DOMAIN a /\ (a \o b)[i] = a[i]
                                 \/ i - Len(a) \in DOMAIN b /\ (a \o b)[i] = b[i - Len(a)]
  BY <1>4, <1>5
<1>7. Remaining(u) = a \o b
  BY DEF Remaining, a, b
<1>8. \A i \in DOMAIN (a \o b) : (a \o b)[i] \in Elems(s) \cup Elems(graph.in[u])
  BY <1>4, <1>5, <1>6
<1>9. Elems(Remaining(u)) \subseteq Elems(s) \cup Elems(graph.in[u])
  BY <1>7, <1>8 DEF Elems
<1>10. QED BY <1>3, <1>9 DEF Owed

LEMMA TreeTake ==
  ASSUME CcInv, TreeInv, kernel = "cc", NEW t \in Threads, NEW u \in todo,
         TakeSample(t, u) \/ TakeFinish(t, u)
  PROVE  TreeInv'
<1>1. /\ UNCHANGED <<kernel, graph, step, comp, round, skipped>>
      /\ step \in {"sample", "finish"} /\ step' = step
      /\ thread[t] = Idle /\ todo' = todo \ {u}
  BY DEF TakeSample, TakeFinish, Take
<1>2. u \in Node /\ DOMAIN thread = Threads
  BY DEF CcInv, CcTypeOK
<1>3. Grows /\ \A n \in Node : comp[n] < n => comp'[n] < n
  BY <1>1, GrowsUnmoved
<1>4. /\ Owed(u)' = Owed(u)
      /\ Owed(u) \subseteq (Elems(graph.out[u]) \cup Elems(graph.in[u]))'
  BY <1>1, <1>2, OwedSame, OwedWithin
<1>5. PICK next : /\ thread' = [thread EXCEPT ![t] = next]
                  /\ \/ \E rest \in Seq(Node) : next = NextLink(u, rest) /\ Elems(rest) = Owed(u)
                     \/ next = Idle /\ comp[u] = skipped /\ step = "finish"
  <2>1. CASE TakeSample(t, u)
    <3>1. Sampled(u) \in Seq(Node) /\ Elems(Sampled(u)) = Owed(u)
      BY <1>2, <2>1, SampledFacts DEF TakeSample, Owed
    <3>2. QED BY <2>1, <3>1 DEF TakeSample, Take
  <2>2. CASE TakeFinish(t, u) /\ comp[u] = skipped
    <3>1. NextLink(u, <<>>) = Idle
      BY DEF NextLink
    <3>2. QED BY <2>2, <3>1 DEF TakeFinish, Take
  <2>3. CASE TakeFinish(t, u) /\ comp[u] # skipped
    <3>1. Remaining(u) \in Seq(Node) /\ Elems(Remaining(u)) = Owed(u)
      BY <1>2, <2>3, RemainingFacts DEF TakeFinish, Owed
    <3>2. QED BY <2>3, <3>1 DEF TakeFinish, Take
  <2>4. QED BY <2>1, <2>2, <2>3
<1>6. ThreadFits(next)' /\ HookBegun(u, next)'
  <2>1. CASE \E rest \in Seq(Node) : next = NextLink(u, rest) /\ Elems(rest) = Owed(u)
    <3>1. PICK rest \in Seq(Node) : next = NextLink(u, rest) /\ Elems(rest) = Owed(u)
      BY <2>1
    <3>2. QED BY <1>1, <1>2, <1>4, <3>1, EdgesLeft
  <2>2. CASE next = Idle /\ comp[u] = skipped /\ step = "finish"
    <3>1. SameTree(u, skipped)
      BY <1>2, <2>2, TreeFacts
    <3>2. SameTree(u, skipped)'
      BY <1>1, <3>1 DEF SameTree, Root
    <3>3. QED BY <1>1, <2>2, <3>2 DEF ThreadFits, HookBegun, Settled
  <2>3. QED BY <1>5, <2>1, <2>2
<1>7. ThreadFits(thread[t])'
  BY <1>2, <1>5, <1>6
<1>8. \A n \in Node : n \in todo \ todo' \/ (thread[t] # Idle /\ thread[t].u = n)
        => (next # Idle /\ next.u = n) \/ Settled(n)'
  BY <1>1, <1>6 DEF HookBegun
<1>9. UNCHANGED <<kernel, graph, step, round, skipped>> /\ todo' \subseteq todo
  BY <1>1
<1>10. QED BY <1>3, <1>5, <1>7, <1>8, <1>9, TreeMoves

(* Shortening, which any number of threads do at a time.                   *)
LEMMA TreeShortThread ==
  ASSUME TreeInv, kernel = "cc", NEW t \in Threads, thread[t].at \in ShortAt
  PROVE  step \in {"compress", "final"} /\ ShortensWithin(thread[t])
<1>1. thread[t] # Idle /\ thread[t].at \notin LinkAt
  BY DEF Idle, LinkAt, ShortAt
<1>2. QED BY <1>1, TreeThread DEF ThreadFits

LEMMA ShorteningFits ==
  ASSUME step \in {"compress", "final"}, NEW at \in ShortAt, NEW n, NEW up,
         at = "reread" => comp[n] < n,
         at = "write" => up < n /\ SameTree(up, n)
  PROVE  ThreadFits(Shortening(at, n, up))
BY DEF ThreadFits, Shortening, ShortensWithin

LEMMA FitsUnmoved ==
  ASSUME UNCHANGED <<graph, step, comp, round>>, NEW next, ThreadFits(next)
  PROVE  ThreadFits(next)'
BY OwedSame DEF ThreadFits, LinksEnds, ShortensWithin, AtEnds, SameTree, Root

LEMMA TreeCompress ==
  ASSUME CcInv, TreeInv, kernel = "cc", NEW t \in Threads, Compress(t)
  PROVE  TreeInv'
<1>1. DOMAIN thread = Threads /\ todo \subseteq Node
  BY DEF CcInv, CcTypeOK
<1>2. ASSUME NEW next, thread' = [thread EXCEPT ![t] = next], ThreadFits(next),
             step \in {"compress", "final"}, todo' \subseteq todo,
             UNCHANGED <<kernel, graph, step, comp, round, skipped>>
      PROVE  TreeInv'
  <2>1. Grows /\ \A n \in Node : comp[n] < n => comp'[n] < n
    BY <1>2, GrowsUnmoved
  <2>2. ThreadFits(thread[t])'
    BY <1>1, <1>2, FitsUnmoved
  <2>3. QED BY <1>2, <2>1, <2>2, TreeMoves
<1>3. ASSUME NEW n \in todo, TakeShort(t, n) PROVE TreeInv'
  <2>1. /\ step \in {"compress", "final"} /\ todo' \subseteq todo
        /\ UNCHANGED <<kernel, graph, step, comp, round, skipped>>
        /\ thread' = [thread EXCEPT ![t] = Shortening("test", n, n)]
    BY <1>3 DEF TakeShort, Take, TreeInv, AfforestSteps
  <2>2. ThreadFits(Shortening("test", n, n))
    BY <2>1, ShorteningFits DEF ShortAt
  <2>3. QED BY <1>2, <2>1, <2>2
<1>4. ASSUME thread[t].at \in ShortAt
      PROVE  /\ step \in {"compress", "final"} /\ ShortensWithin(thread[t])
             /\ thread[t].n \in Node /\ thread[t].up \in Node
  BY <1>4, TreeShortThread, ShortThread DEF ShortAt
<1>5. CASE Test(t)
  <2>1. PICK n : n = thread[t].n
    OBVIOUS
  <2>2. thread[t].at \in ShortAt /\ UNCHANGED <<kernel, graph, step, todo, comp, round, skipped>>
    BY <1>5 DEF Test, Goes, ShortAt
  <2>3. n \in Node /\ step \in {"compress", "final"}
    BY <1>4, <2>1, <2>2
  <2>4. CASE comp[n] = comp[comp[n]]
    <3>1. thread' = [thread EXCEPT ![t] = Idle]
      BY <1>5, <2>1, <2>4 DEF Test, Goes
    <3>2. ThreadFits(Idle)
      BY DEF ThreadFits
    <3>3. QED BY <1>2, <2>2, <2>3, <3>1, <3>2
  <2>5. CASE comp[n] # comp[comp[n]]
    <3>1. thread' = [thread EXCEPT ![t] = Shortening("reread", n, n)]
      BY <1>5, <2>1, <2>5 DEF Test, Goes
    <3>2. n \in Nat /\ comp[n] \in Nat /\ comp[n] <= n /\ comp[n] # n
      BY <2>3, <2>5, PointerFacts, NodeType
    <3>3. comp[n] < n
      BY <3>2
    <3>4. ThreadFits(Shortening("reread", n, n))
      BY <2>3, <3>3, ShorteningFits DEF ShortAt
    <3>5. QED BY <1>2, <2>2, <2>3, <3>1, <3>4
  <2>6. QED BY <2>4, <2>5
<1>6. CASE Reread(t)
  <2>1. PICK n, up : n = thread[t].n /\ up = comp[comp[n]]
    OBVIOUS
  <2>2. /\ thread[t].at \in ShortAt /\ thread[t].at = "reread"
        /\ UNCHANGED <<kernel, graph, step, todo, comp, round, skipped>>
        /\ thread' = [thread EXCEPT ![t] = Shortening("write", n, up)]
    BY <1>6, <2>1 DEF Reread, Goes, ShortAt
  <2>3. n \in Node /\ step \in {"compress", "final"} /\ comp[n] < n
    BY <1>4, <2>1, <2>2 DEF ShortensWithin
  <2>4. /\ comp[n] \in Node /\ up \in Node /\ up <= comp[n]
        /\ SameTree(up, comp[n]) /\ SameTree(comp[n], n)
    BY <2>1, <2>3, PointerFacts, TreeFacts
  <2>5. n \in Nat /\ comp[n] \in Nat /\ up \in Nat /\ comp[n] < n /\ up <= comp[n]
    BY <2>3, <2>4, NodeType
  <2>6. up < n
    BY <2>5
  <2>7. SameTree(up, n)
    BY <2>4 DEF SameTree
  <2>8. ThreadFits(Shortening("write", n, up))
    BY <2>3, <2>6, <2>7, ShorteningFits DEF ShortAt
  <2>9. QED BY <1>2, <2>2, <2>3, <2>8
<1>7. CASE Write(t)
  <2>1. PICK n, up : n = thread[t].n /\ up = thread[t].up
    OBVIOUS
  <2>2. /\ thread[t].at \in ShortAt /\ thread[t].at = "write"
        /\ UNCHANGED <<kernel, graph, step, todo, round, skipped>>
        /\ comp' = [comp EXCEPT ![n] = up]
        /\ thread' = [thread EXCEPT ![t] = Shortening("test", n, n)]
    BY <1>7, <2>1 DEF Write, Goes, ShortAt
  <2>3. /\ n \in Node /\ up \in Node /\ step \in {"compress", "final"}
        /\ up < n /\ SameTree(up, n)
    BY <1>4, <2>1, <2>2 DEF ShortensWithin
  <2>4. Grows /\ \A m \in Node : comp[m] < m => comp'[m] < m
    BY <2>2, <2>3, GrowsShortened
  <2>5. PICK next : next = Shortening("test", n, n)
    OBVIOUS
  <2>6. next.at = "test" /\ step' = step
    BY <2>2, <2>5 DEF Shortening
  <2>7. ThreadFits(next)'
    BY <2>3, <2>6 DEF ThreadFits, ShortAt, ShortensWithin
  <2>8. thread' = [thread EXCEPT ![t] = next] /\ ThreadFits(thread[t])'
    BY <1>1, <2>2, <2>5, <2>7
  <2>9. QED BY <2>2, <2>3, <2>4, <2>8, TreeMoves
<1>8. QED BY <1>3, <1>5, <1>6, <1>7 DEF Compress

-----------------------------------------------------------------------------
(* Between two loops nothing is being linked, so all that was owed is.     *)
LEMMA TreeLoop ==
  ASSUME CcInv, NEW name \in AfforestSteps, NEW S \in SUBSET Node,
         BeginLoop(name, S), UNCHANGED <<kernel, graph, comp>>,
         IF name \in {"sample", "compress"} THEN round' < NeighborRounds
         ELSE round' = NeighborRounds,
         \A u \in Node : \A i \in DOMAIN graph.out[u] :
           i <= round' => SameTree(u, graph.out[u][i]),
         name \notin {"pick", "done"} =>
           \A u \in Node : (u \in S /\ name \in {"sample", "finish"}) \/ Settled(u)'
  PROVE  TreeInv'
<1>1. step' = name /\ todo' = S /\ \A t \in Threads : thread'[t] = Idle
  BY DEF BeginLoop
<1>2. \A u \in Node : \A i \in DOMAIN graph'.out[u] :
        i <= round' => SameTree(u, graph.out[u][i])'
  <2>1. SUFFICES ASSUME NEW u \in Node, NEW i \in DOMAIN graph.out[u], i <= round'
                 PROVE  SameTree(u, graph.out[u][i])'
    OBVIOUS
  <2>2. SameTree(u, graph.out[u][i])
    BY <2>1
  <2>3. QED BY <2>2 DEF SameTree, Root
<1>3. step' \notin {"pick", "done"} => \A u \in Node : Working(u)' \/ Settled(u)'
  BY <1>1 DEF Working
<1>4. QED BY <1>1, <1>2, <1>3 DEF TreeInv

LEMMA AllSettled ==
  ASSUME CcInv, TreeInv, kernel = "cc", step \notin {"pick", "done"},
         TeamDone \/ step \notin {"sample", "finish"}, NEW u \in Node
  PROVE  Settled(u)
<1>1. ~Working(u)
  BY DEF TeamDone, Working
<1>2. QED BY <1>1 DEF TreeInv

LEMMA TreeBarrier ==
  ASSUME CcInv, TreeInv, kernel = "cc",
         EndSample \/ EndCompress \/ Pick \/ EndFinish \/ EndFinal
  PROVE  TreeInv'
<1>1. /\ graph \in Graphs /\ round \in Nat /\ NeighborRounds \in Nat
      /\ IF step \in {"sample", "compress"} THEN round < NeighborRounds
         ELSE round = NeighborRounds
  BY RoundsAssumption DEF CcInv, CcTypeOK, TreeInv
<1>2. \A u \in Node : \A i \in DOMAIN graph.out[u] : i <= round => SameTree(u, graph.out[u][i])
  BY DEF TreeInv
<1>3. /\ {"sample", "compress", "pick", "finish", "final", "done"} \subseteq AfforestSteps
      /\ {} \in SUBSET Node /\ Node \in SUBSET Node
  BY DEF AfforestSteps
<1>4. CASE EndSample
  <2>1. /\ step = "sample" /\ TeamDone /\ BeginLoop("compress", Node)
        /\ UNCHANGED <<kernel, graph, comp, round>>
    BY <1>4 DEF EndSample
  <2>2. step' = "compress"
    BY <2>1 DEF BeginLoop
  <2>3. ASSUME NEW u \in Node PROVE Settled(u)'
    <3>1. Settled(u) /\ Owed(u)' = Owed(u)
      BY <2>1, <2>2, AllSettled DEF Owed, Sampled
    <3>2. QED BY <2>1, <3>1 DEF Settled, SameTree, Root
  <2>4. QED BY <1>1, <1>2, <1>3, <2>1, <2>3, TreeLoop
<1>5. CASE EndCompress
  <2>1. /\ step = "compress" /\ round' = round + 1
        /\ IF round + 1 < NeighborRounds THEN BeginLoop("sample", Node) ELSE BeginLoop("pick", {})
        /\ UNCHANGED <<kernel, graph, comp, skipped>>
    BY <1>5 DEF EndCompress
  <2>2. ASSUME NEW u \in Node, NEW i \in DOMAIN graph.out[u], i <= round'
        PROVE  SameTree(u, graph.out[u][i])
    <3>1. CASE i <= round
      BY <1>2, <3>1
    <3>2. CASE ~(i <= round)
      <4>1. graph.out[u] \in Seq(Node)
        BY <1>1, GraphType
      <4>2. i \in Nat /\ i = round + 1 /\ round < Len(graph.out[u])
        BY <1>1, <2>1, <2>2, <3>2, <4>1
      <4>3. Sampled(u) = <<graph.out[u][i]>>
        BY <4>2 DEF Sampled
      <4>4. graph.out[u][i] \in Owed(u)
        BY <2>1, <4>3 DEF Owed, Elems
      <4>5. Settled(u)
        BY <2>1, AllSettled
      <4>6. QED BY <2>1, <4>4, <4>5 DEF Settled
    <3>3. QED BY <3>1, <3>2
  <2>3. CASE round + 1 < NeighborRounds
    BY <1>3, <2>1, <2>2, <2>3, TreeLoop
  <2>4. CASE ~(round + 1 < NeighborRounds)
    <3>1. round' = NeighborRounds
      BY <1>1, <2>1, <2>4
    <3>2. QED BY <1>3, <2>1, <2>2, <2>4, <3>1, TreeLoop
  <2>5. QED BY <2>3, <2>4
<1>6. CASE Pick
  BY <1>1, <1>2, <1>3, <1>6, TreeLoop DEF Pick
<1>7. CASE EndFinish
  <2>1. /\ step = "finish" /\ TeamDone /\ BeginLoop("final", Node)
        /\ UNCHANGED <<kernel, graph, comp, round, skipped>>
    BY <1>7 DEF EndFinish
  <2>2. step' = "final"
    BY <2>1 DEF BeginLoop
  <2>3. ASSUME NEW u \in Node PROVE Settled(u)'
    <3>1. Settled(u) /\ Owed(u)' = Owed(u)
      BY <2>1, <2>2, AllSettled DEF Owed, Remaining
    <3>2. QED BY <2>1, <2>2, <3>1 DEF Settled, SameTree, Root
  <2>4. QED BY <1>1, <1>2, <1>3, <2>1, <2>3, TreeLoop
<1>8. CASE EndFinal
  BY <1>1, <1>2, <1>3, <1>8, TreeLoop DEF EndFinal
<1>9. QED BY <1>4, <1>5, <1>6, <1>7, <1>8

LEMMA TreeInitially == CcInit => TreeInv
<1>1. SUFFICES ASSUME CcInit, kernel = "cc" PROVE TreeInv
  BY DEF TreeInv
<1>2. \A t \in Threads : thread[t] = Idle
  BY <1>1 DEF CcInit
<1>3. NeighborRounds \in Nat /\ round = 0
  BY <1>1, RoundsAssumption DEF CcInit
<1>4. \/ step = "pick" /\ NeighborRounds = 0
      \/ step = "sample" /\ todo = Node /\ NeighborRounds # 0
  BY <1>1 DEF CcInit
<1>5. ASSUME NEW u \in Node, NEW i \in DOMAIN graph.out[u], i <= round PROVE FALSE
  <2>1. graph.out[u] \in Seq(Node)
    BY <1>1, GraphType DEF CcInit
  <2>2. i \in Nat \ {0}
    BY <2>1
  <2>3. QED BY <1>3, <1>5, <2>2
<1>6. step \notin {"pick", "done"} => \A u \in Node : Working(u)
  BY <1>4 DEF Working
<1>7. step \in AfforestSteps
  BY <1>4 DEF AfforestSteps
<1>8. IF step \in {"sample", "compress"} THEN round < NeighborRounds ELSE round = NeighborRounds
  BY <1>3, <1>4
<1>9. QED BY <1>2, <1>5, <1>6, <1>7, <1>8 DEF TreeInv

LEMMA TreeStutters ==
  ASSUME TreeInv, UNCHANGED ccVars
  PROVE  TreeInv'
<1>1. UNCHANGED <<kernel, graph, step, todo, thread, comp, round, skipped>>
  BY DEF ccVars, teamVars
<1>2. SUFFICES ASSUME kernel = "cc" PROVE TreeInv'
  BY <1>1 DEF TreeInv
<1>3. ASSUME NEW t \in Threads PROVE ThreadFits(thread[t])'
  <2>1. PICK th : th = thread[t]
    OBVIOUS
  <2>2. ThreadFits(th)
    BY <1>2, <2>1, TreeThread
  <2>3. ThreadFits(th)'
    BY <1>1, <2>2, FitsUnmoved
  <2>4. QED BY <1>1, <2>1, <2>3
<1>4. \A u \in Node : \A i \in DOMAIN graph'.out[u] :
        i <= round' => SameTree(u, graph.out[u][i])'
  BY <1>1, <1>2 DEF TreeInv, SameTree, Root
<1>5. step' \notin {"pick", "done"} => \A u \in Node : Working(u)' \/ Settled(u)'
  <2>1. SUFFICES ASSUME step \notin {"pick", "done"}, NEW u \in Node
                 PROVE  Working(u)' \/ Settled(u)'
    BY <1>1
  <2>2. Owed(u)' = Owed(u)
    BY <1>1, OwedSame
  <2>3. Working(u) => Working(u)'
    BY <1>1 DEF Working
  <2>4. Settled(u) => Settled(u)'
    BY <1>1, <2>2 DEF Settled, SameTree, Root
  <2>5. QED BY <1>2, <2>1, <2>3, <2>4 DEF TreeInv
<1>6. /\ step' \in AfforestSteps
      /\ IF step' \in {"sample", "compress"} THEN round' < NeighborRounds
         ELSE round' = NeighborRounds
  BY <1>1, <1>2 DEF TreeInv
<1>7. QED BY <1>3, <1>4, <1>5, <1>6 DEF TreeInv, ThreadFits

LEMMA TreeKept == CcInv /\ TreeInv /\ [CcNext]_ccVars => TreeInv'
<1>1. SUFFICES ASSUME CcInv, TreeInv, CcNext PROVE TreeInv'
  BY TreeStutters
<1>2. CASE Afforest
  BY <1>1, <1>2, TreeTake, TreeLink, TreeCompress, TreeBarrier DEF Afforest
<1>3. CASE ShiloachVishkin
  <2>1. kernel = "cc_sv" /\ kernel' = kernel
    BY <1>3 DEF ShiloachVishkin, TakeHook, HookU, HookV, HookTest, HookWrite, Compress,
         TakeShort, Test, Reread, Write, EndHook, EndShortcut, Goes
  <2>2. QED BY <2>1 DEF TreeInv
<1>4. QED BY <1>1, <1>2, <1>3 DEF CcNext

LEMMA TreeAlways == CcSpec => []TreeInv
<1>1. QED BY CcAlways, TreeInitially, TreeKept, PTL DEF CcSpec

-----------------------------------------------------------------------------
(* Afforest implements Merging.                                            *)
TreeAt(R, r) == {m \in Node : R[m] = r}
TreesOf(R) == {TreeAt(R, r) : r \in {R[n] : n \in Node}}

LEMMA TreesAre == Trees = TreesOf(Root)
BY DEF Trees, TreesOf, TreeAt

(* A hook of the root h below l puts the two trees together and leaves the *)
(* others as they are.                                                     *)
LEMMA TreesRehung ==
  ASSUME NEW R \in [Node -> Node], NEW h \in Node, NEW l \in Node,
         \A n \in Node : R[R[n]] = R[n], R[h] = h, R[l] # h,
         NEW A, NEW B, A = TreeAt(R, h), B = TreeAt(R, R[l])
  PROVE  /\ A \in TreesOf(R) /\ B \in TreesOf(R) /\ A # B
         /\ TreesOf(Rehung(R, h, l)) = (TreesOf(R) \ {A, B}) \cup {A \cup B}
<1> DEFINE Q == Rehung(R, h, l)
<1>1. \A n \in Node : R[n] \in Node
  OBVIOUS
<1>2. \A n \in Node : Q[n] = IF R[n] = h THEN R[l] ELSE R[n]
  BY DEF Rehung
<1> HIDE DEF Q
<1>3. A \in TreesOf(R) /\ B \in TreesOf(R)
  BY DEF TreesOf
<1>4. h \in A /\ h \notin B /\ l \in B /\ l \notin A
  BY DEF TreeAt
<1>5. TreeAt(Q, R[l]) = A \cup B
  BY <1>2 DEF TreeAt
<1>6. \A n \in Node : Q[n] # h
  BY <1>2
<1>7. ASSUME NEW r \in Node, r # h, r # R[l] PROVE TreeAt(Q, r) = TreeAt(R, r)
  BY <1>2, <1>7 DEF TreeAt
<1>8. ASSUME NEW T \in TreesOf(Q) PROVE T \in (TreesOf(R) \ {A, B}) \cup {A \cup B}
  <2>1. PICK n \in Node : T = TreeAt(Q, Q[n])
    BY <1>8 DEF TreesOf
  <2>2. CASE Q[n] = R[l]
    BY <1>5, <2>1, <2>2
  <2>3. CASE Q[n] # R[l]
    <3>1. Q[n] = R[n] /\ R[n] # h /\ R[n] # R[l]
      BY <1>2, <2>3
    <3>2. T = TreeAt(R, R[n])
      BY <1>1, <1>7, <2>1, <3>1
    <3>3. n \in T /\ n \notin A /\ n \notin B
      BY <3>1, <3>2 DEF TreeAt
    <3>4. T \in TreesOf(R)
      BY <3>2 DEF TreesOf
    <3>5. QED BY <3>3, <3>4
  <2>4. QED BY <2>2, <2>3
<1>9. ASSUME NEW T \in (TreesOf(R) \ {A, B}) \cup {A \cup B} PROVE T \in TreesOf(Q)
  <2>1. CASE T = A \cup B
    <3>1. Q[l] = R[l]
      BY <1>2
    <3>2. QED BY <1>5, <2>1, <3>1 DEF TreesOf
  <2>2. CASE T \in TreesOf(R) /\ T # A /\ T # B
    <3>1. PICK n \in Node : T = TreeAt(R, R[n])
      BY <2>2 DEF TreesOf
    <3>2. R[n] # h /\ R[n] # R[l]
      BY <2>2, <3>1
    <3>3. Q[n] = R[n] /\ TreeAt(Q, Q[n]) = T
      BY <1>1, <1>2, <1>7, <3>1, <3>2
    <3>4. QED BY <3>3 DEF TreesOf
  <2>3. QED BY <1>9, <2>1, <2>2
<1>10. A # B
  BY <1>4
<1>11. QED BY <1>3, <1>8, <1>9, <1>10 DEF Q

LEMMA RootType ==
  ASSUME CcInv
  PROVE  Root \in [Node -> Node] /\ \A n \in Node : Root[Root[n]] = Root[n]
<1>1. comp \in Downward
  BY CompDownward
<1>2. Root \in [Node -> Node]
  BY <1>1, RootIs DEF Root
<1>3. QED BY <1>1, <1>2, RootFacts DEF Root

(* What the map reads.                                                     *)
Joins == {e \in Node \X Node : Edge(graph, e[1], e[2])}
Kept == UNCHANGED <<kernel, graph>> /\ Root' = Root
        /\ (step = "done" <=> step' = "done")

LEMMA KeptStutters ==
  ASSUME Kept
  PROVE  UNCHANGED Merged!mergingVars
<1>1. Trees' = Trees
  BY DEF Kept, Trees
<1>2. QED BY <1>1 DEF Kept, Merged!mergingVars, Edge

LEMMA NeighboursJoin ==
  ASSUME CcInv, NEW u \in Node, NEW v \in Node,
         v \in Elems(graph.out[u]) \cup Elems(graph.in[u])
  PROVE  <<u, v>> \in Joins \/ <<v, u>> \in Joins
<1>1. Inverted(graph)
  BY GraphType DEF CcInv, CcTypeOK
<1>2. Edge(graph, u, v) \/ Edge(graph, v, u)
  BY <1>1 DEF Inverted, Edge
<1>3. QED BY <1>2 DEF Joins

(* A hook joins two trees along an edge.                                   *)
LEMMA HookMerges ==
  ASSUME CcInv, kernel = "cc", UNCHANGED <<kernel, graph, step>>, step # "done",
         NEW h \in Node, NEW l \in Node, l < h, comp[h] = h,
         comp' = [comp EXCEPT ![h] = l],
         NEW u \in Node, NEW v \in Node, v \in Elems(graph.out[u]) \cup Elems(graph.in[u]),
         AtEnds(h, l, u, v)
  PROVE  Merged!Merge
<1>1. PICK R : R = Root
  OBVIOUS
<1>2. /\ R \in [Node -> Node] /\ \A n \in Node : R[R[n]] = R[n]
      /\ R[h] = h /\ R[l] # h /\ Root' = Rehung(R, h, l)
  BY <1>1, RootType, GrowsHooked
<1>3. PICK A, B : A = TreeAt(R, h) /\ B = TreeAt(R, R[l])
  OBVIOUS
<1>4. /\ A \in TreesOf(R) /\ B \in TreesOf(R) /\ A # B
      /\ TreesOf(Rehung(R, h, l)) = (TreesOf(R) \ {A, B}) \cup {A \cup B}
  BY <1>2, <1>3, TreesRehung
<1>5. A \in Trees /\ B \in Trees /\ Trees' = (Trees \ {A, B}) \cup {A \cup B}
  <2>1. Trees = TreesOf(R)
    BY <1>1, TreesAre
  <2>2. Trees' = TreesOf(Rehung(R, h, l))
    BY <1>2 DEF Trees, TreesOf, TreeAt
  <2>3. QED BY <1>4, <2>1, <2>2
<1>6. (u \in A /\ v \in B) \/ (v \in A /\ u \in B)
  BY <1>1, <1>2, <1>3 DEF AtEnds, SameTree, TreeAt
<1>7. \E a \in A, b \in B : <<a, b>> \in Joins \/ <<b, a>> \in Joins
  BY <1>6, NeighboursJoin
<1>8. Merged!Joined(A, B)
  BY <1>7 DEF Merged!Joined, Joins
<1>9. UNCHANGED Joins
  BY DEF Joins, Edge
<1>10. QED BY <1>4, <1>5, <1>8, <1>9 DEF Merged!Merge, Joins

(* At the end every edge lies within a tree, the edges Afforest never      *)
(* looked at included: they are between vertices of the skipped component, *)
(* or the vertex at the other end has looked at them.                      *)
LEMMA RemainingHas ==
  ASSUME CcInv, NEW u \in Node
  PROVE  /\ \A i \in DOMAIN graph.out[u] :
              i > NeighborRounds => graph.out[u][i] \in Elems(Remaining(u))
         /\ graph.directed => Elems(graph.in[u]) \subseteq Elems(Remaining(u))
<1> DEFINE s == graph.out[u]
           a == SubSeq(s, NeighborRounds + 1, Len(s))
           b == IF graph.directed THEN graph.in[u] ELSE <<>>
<1>1. graph \in Graphs /\ NeighborRounds \in Nat
  BY RoundsAssumption DEF CcInv, CcTypeOK
<1>2. s \in Seq(Node) /\ graph.in[u] \in Seq(Node)
  BY <1>1, GraphType
<1>3. a \in Seq(Node) /\ b \in Seq(Node)
  BY <1>1, <1>2
<1>4. Remaining(u) = a \o b
  BY DEF Remaining
<1>5. ASSUME NEW i \in DOMAIN s, i > NeighborRounds PROVE s[i] \in Elems(a)
  <2>1. Len(s) \in Nat /\ i \in 1 .. Len(s) /\ i \in Nat
    BY <1>2, <1>5
  <2>2. i - NeighborRounds \in DOMAIN a /\ a[i - NeighborRounds] = s[i]
    BY <1>1, <1>2, <1>5, <2>1
  <2>3. QED BY <2>2 DEF Elems
<1>6. graph.directed => b = graph.in[u]
  OBVIOUS
<1> HIDE DEF a, b
<1>7. /\ \A i \in DOMAIN a : i \in DOMAIN (a \o b) /\ (a \o b)[i] = a[i]
      /\ \A i \in DOMAIN b : Len(a) + i \in DOMAIN (a \o b) /\ (a \o b)[Len(a) + i] = b[i]
  BY <1>3
<1>8. Elems(a) \subseteq Elems(a \o b) /\ Elems(b) \subseteq Elems(a \o b)
  BY <1>7 DEF Elems
<1>9. QED BY <1>4, <1>5, <1>6, <1>8

LEMMA EdgesWithinTrees ==
  ASSUME CcInv, TreeInv, kernel = "cc", step = "final", NEW a \in Node, NEW b \in Node,
         Edge(graph, a, b)
  PROVE  SameTree(a, b)
<1>1. round = NeighborRounds /\ graph \in Graphs /\ NeighborRounds \in Nat
  BY RoundsAssumption DEF CcInv, CcTypeOK, TreeInv
<1>2. \A u \in Node : \A i \in DOMAIN graph.out[u] : i <= round => SameTree(u, graph.out[u][i])
  BY DEF TreeInv
<1>3. \A u \in Node : Settled(u)
  BY AllSettled
<1>4. ASSUME NEW u \in Node, \A w \in Owed(u) : SameTree(u, w),
             NEW v \in Elems(graph.out[u])
      PROVE  SameTree(u, v)
  <2>1. PICK i \in DOMAIN graph.out[u] : v = graph.out[u][i]
    BY DEF Elems
  <2>2. i \in Nat
    BY <1>1, GraphType
  <2>3. CASE i <= NeighborRounds
    BY <1>1, <1>2, <2>1, <2>3
  <2>4. CASE i > NeighborRounds
    <3>1. v \in Elems(Remaining(u))
      BY <2>1, <2>4, RemainingHas
    <3>2. QED BY <1>4, <3>1 DEF Owed
  <2>5. QED BY <1>1, <2>2, <2>3, <2>4
<1>5. CASE \A w \in Owed(a) : SameTree(a, w)
  BY <1>4, <1>5 DEF Edge
<1>6. CASE \A w \in Owed(b) : SameTree(b, w)
  <2>1. a \in Elems(graph.in[b])
    BY <1>1, GraphType DEF Inverted
  <2>2. CASE graph.directed
    <3>1. a \in Owed(b)
      BY <2>1, <2>2, RemainingHas DEF Owed
    <3>2. QED BY <1>6, <3>1 DEF SameTree
  <2>3. CASE ~graph.directed
    <3>1. graph.in = graph.out
      BY <1>1, <2>3, KernelAssumption
    <3>2. SameTree(b, a)
      BY <1>4, <1>6, <2>1, <3>1
    <3>3. QED BY <3>2 DEF SameTree
  <2>4. QED BY <2>2, <2>3
<1>7. CASE SameTree(a, skipped) /\ SameTree(b, skipped)
  BY <1>7 DEF SameTree
<1>8. QED BY <1>3, <1>5, <1>6, <1>7 DEF Settled

LEMMA EndFinishes ==
  ASSUME CcInv, TreeInv, kernel = "cc", EndFinal
  PROVE  Merged!Finish
<1>1. /\ step = "final" /\ step' = "done" /\ UNCHANGED <<kernel, graph, comp>>
  BY DEF EndFinal, BeginLoop
<1>2. ASSUME NEW A \in Trees, NEW B \in Trees, NEW a \in A, NEW b \in B,
             <<a, b>> \in Joins \/ <<b, a>> \in Joins
      PROVE  A = B
  <2>1. PICK r, s : A = TreeAt(Root, r) /\ B = TreeAt(Root, s)
    BY TreesAre DEF TreesOf
  <2>2. a \in Node /\ b \in Node /\ Root[a] = r /\ Root[b] = s
    BY <2>1 DEF TreeAt
  <2>3. Edge(graph, a, b) \/ Edge(graph, b, a)
    BY <1>2 DEF Joins
  <2>4. Root[a] = Root[b]
    BY <1>1, <2>2, <2>3, EdgesWithinTrees DEF SameTree
  <2>5. QED BY <2>1, <2>2, <2>4
<1>3. \A A, B \in Trees : Merged!Joined(A, B) => A = B
  BY <1>2 DEF Merged!Joined, Joins
<1>4. UNCHANGED Joins /\ Trees' = Trees
  BY <1>1 DEF Joins, Edge, Trees, Root
<1>5. QED BY <1>1, <1>3, <1>4 DEF Merged!Finish, Joins

LEMMA StartsApart == CcInit => Merged!Init
<1>1. SUFFICES ASSUME CcInit PROVE Merged!Init
  OBVIOUS
<1>2. step # "done"
  BY <1>1 DEF CcInit
<1>3. Joins \subseteq Node \X Node
  BY DEF Joins
<1>4. \A n \in Node : Root[n] = n
  <2>1. comp \in Downward /\ \A n \in Node : comp[n] = n
    BY <1>1, CcInitially, CompDownward DEF CcInit
  <2>2. QED BY <2>1, RootFacts DEF Root
<1>5. Trees = {{n} : n \in Node}
  <2>1. \A n \in Node : {m \in Node : Root[m] = n} = {n}
    BY <1>4
  <2>2. QED BY <1>4, <2>1 DEF Trees
<1>6. QED BY <1>2, <1>3, <1>5 DEF Merged!Init, Joins

(* Every other step leaves the trees as they are.                          *)
LEMMA LinkMerges ==
  ASSUME CcInv, TreeInv, kernel = "cc", NEW t \in Threads, Link(t)
  PROVE  Kept \/ Merged!Merge
<1>1. PICK th : th = thread[t]
  OBVIOUS
<1>2. th.at \in LinkAt
  BY <1>1 DEF Link, ReadU, ReadV, ReadHigh, CompareAndSwap, Climb, ClimbOn, ClimbLow, LinkAt
<1>3. /\ LinksEnds(th) /\ th.at \in LinkPlaces /\ step \in {"sample", "finish"}
      /\ UNCHANGED <<kernel, graph, step>>
  BY <1>1, <1>2, TreeLinkThread
       DEF Link, ReadU, ReadV, ReadHigh, CompareAndSwap, Climb, ClimbOn, ClimbLow, Goes
<1>4. CASE comp' = comp
  BY <1>3, <1>4 DEF Kept, Root
<1>5. CASE comp' # comp
  <2>1. PICK hi, lo : hi = Hi(th) /\ lo = Lo(th)
    OBVIOUS
  <2>2. th.at = "cas" /\ comp[hi] = hi /\ comp' = [comp EXCEPT ![hi] = lo]
    BY <1>1, <1>5, <2>1
         DEF Link, ReadU, ReadV, ReadHigh, CompareAndSwap, Climb, ClimbOn, ClimbLow
  <2>3. PICK u, v : u = th.u /\ v = Head(th.rest)
    OBVIOUS
  <2>4. /\ u \in Node /\ v \in Node /\ th.rest \in Seq(Node) /\ th.rest # <<>>
        /\ v \in Elems(th.rest)
    BY <1>1, <1>3, <2>3, LinkThread, RestFacts
  <2>5. /\ hi \in Node /\ lo \in Node /\ lo <= hi
        /\ \/ hi = th.p1 /\ lo = th.p2
           \/ hi = th.p2 /\ lo = th.p1
    <3>1. th \in ThreadStates
      BY <1>1 DEF CcInv, CcTypeOK
    <3>2. QED BY <1>3, <2>1, <3>1, LinkingFacts
  <2>6. AtEnds(th.p1, th.p2, u, v) /\ th.p1 # th.p2
    BY <1>3, <2>2, <2>3 DEF LinksEnds, LinkAt
  <2>7. hi \in Nat /\ lo \in Nat /\ hi # lo /\ lo <= hi
    BY <2>5, <2>6, NodeType
  <2>8. lo < hi
    BY <2>7
  <2>9. AtEnds(hi, lo, u, v)
    BY <2>5, <2>6, EndsFacts
  <2>10. v \in Elems(graph.out[u]) \cup Elems(graph.in[u])
    BY <1>3, <2>3, <2>4 DEF LinksEnds
  <2>11. step # "done"
    BY <1>3
  <2>12. QED BY <1>3, <2>2, <2>4, <2>5, <2>8, <2>9, <2>10, <2>11, HookMerges
<1>6. QED BY <1>4, <1>5

LEMMA CompressKeeps ==
  ASSUME CcInv, TreeInv, kernel = "cc", NEW t \in Threads, Compress(t)
  PROVE  Kept
<1>1. UNCHANGED <<kernel, graph, step>>
  BY DEF Compress, TakeShort, Test, Reread, Write, Goes
<1>2. CASE comp' = comp
  BY <1>1, <1>2 DEF Kept, Root
<1>3. CASE Write(t)
  <2>1. PICK n, up : n = thread[t].n /\ up = thread[t].up
    OBVIOUS
  <2>2. thread[t].at \in ShortAt /\ thread[t].at = "write" /\ comp' = [comp EXCEPT ![n] = up]
    BY <1>3, <2>1 DEF Write, ShortAt
  <2>3. n \in Node /\ up \in Node /\ up < n /\ SameTree(up, n)
    BY <2>1, <2>2, TreeShortThread, ShortThread DEF ShortensWithin
  <2>4. Root' = Root
    BY <2>2, <2>3, GrowsShortened
  <2>5. QED BY <1>1, <2>4 DEF Kept
<1>4. QED BY <1>2, <1>3 DEF Compress, TakeShort, Test, Reread

LEMMA RestKeeps ==
  ASSUME CcInv, TreeInv, kernel = "cc",
         \/ \E t \in Threads, u \in todo : TakeSample(t, u) \/ TakeFinish(t, u)
         \/ EndSample \/ EndCompress \/ Pick \/ EndFinish
  PROVE  Kept
<1>1. UNCHANGED <<kernel, graph, comp>>
  BY DEF TakeSample, TakeFinish, EndSample, EndCompress, Pick, EndFinish
<1>2. step # "done" /\ step' # "done"
  BY DEF TakeSample, TakeFinish, EndSample, EndCompress, Pick, EndFinish, BeginLoop
<1>3. QED BY <1>1, <1>2 DEF Kept, Root

LEMMA StepMerges ==
  CcInv /\ TreeInv /\ [CcNext]_ccVars => [Merged!Next]_(Merged!mergingVars)
<1>1. SUFFICES ASSUME CcInv, TreeInv, [CcNext]_ccVars
               PROVE  Merged!Next \/ UNCHANGED Merged!mergingVars
  OBVIOUS
<1>2. CASE UNCHANGED ccVars
  <2>1. Kept
    BY <1>2 DEF Kept, Root, ccVars, teamVars
  <2>2. QED BY <2>1, KeptStutters
<1>3. CASE Afforest
  <2>1. kernel = "cc"
    BY <1>3 DEF Afforest
  <2>2. Kept \/ Merged!Merge \/ Merged!Finish
    BY <1>1, <1>3, <2>1, LinkMerges, CompressKeeps, RestKeeps, EndFinishes DEF Afforest
  <2>3. QED BY <2>2, KeptStutters DEF Merged!Next
<1>4. CASE ShiloachVishkin
  <2>1. kernel = "cc_sv" /\ UNCHANGED <<kernel, graph>>
    BY <1>4 DEF ShiloachVishkin, TakeHook, HookU, HookV, HookTest, HookWrite, Compress,
         TakeShort, Test, Reread, Write, EndHook, EndShortcut, Goes
  <2>2. UNCHANGED Merged!mergingVars
    BY <2>1 DEF Merged!mergingVars, Edge
  <2>3. QED BY <2>2
<1>5. QED BY <1>1, <1>2, <1>3, <1>4 DEF CcNext

(* Afforest implements Merging, for any graph, any team and any number of  *)
(* sampling rounds: a compare-and-swap that wins joins exactly two trees   *)
(* along an edge (cc.cc:44-54), compression, in parallel with itself,      *)
(* changes no tree (cc.cc:61-65), and the kernel returns with no edge      *)
(* between two trees, although it never looks at the edges of the          *)
(* component it skips (cc.cc:122-146).                                     *)
THEOREM AfforestUnites == CcSpec => UnitesTrees
<1>1. CcInit => Merged!Init
  BY StartsApart
<1>2. CcInv /\ TreeInv /\ [CcNext]_ccVars => [Merged!Next]_(Merged!mergingVars)
  BY StepMerges
<1>3. QED BY <1>1, <1>2, CcAlways, TreeAlways, PTL DEF CcSpec, UnitesTrees, Merged!Spec

-----------------------------------------------------------------------------
(* The answer. In a loop that shortens, a vertex whose iteration is over   *)
(* points to a root, and which vertices are roots does not change.         *)
ShortLoops == {"compress", "final", "shortcut"}
HookAt == {"hookU", "hookV", "hookTest", "hookWrite"}

Flat == \A n \in Node : comp[comp[n]] = comp[n]
NoneAtWork == \A t \in Threads : thread[t] = Idle

Shortens(th) ==
  /\ th.at \in ShortAt
  /\ th.at \in {"reread", "write"} => comp[th.n] < th.n
  /\ th.at = "write" => th.up < th.n

FlatInv ==
  /\ kernel = "cc" => step \in AfforestSteps
  /\ kernel = "cc_sv" => step \in SVSteps
  /\ step \in ShortLoops =>
       /\ \A t \in Threads : thread[t] = Idle \/ Shortens(thread[t])
       /\ \A n \in Node : \/ n \in todo
                          \/ \E t \in Threads : thread[t] # Idle /\ thread[t].n = n
                          \/ comp[comp[n]] = comp[n]
  /\ step = "hook" => \A t \in Threads : thread[t] = Idle \/ thread[t].at \in HookAt
  /\ step \in {"sample", "hook"} /\ todo = Node => Flat /\ NoneAtWork
  /\ step \in {"pick", "done"} => Flat /\ NoneAtWork

(* As long as a pass of Shiloach-Vishkin has hooked nothing, no pointer    *)
(* has moved, and the edges looked at had ends with one label.             *)
Agree(u) == \A w \in Elems(graph.out[u]) : comp[w] = comp[u]

HasSeen(th) ==
  /\ \A w \in Elems(graph.out[th.u]) : comp[w] = comp[th.u] \/ w \in Elems(th.rest)
  /\ th.at \in {"hookV", "hookTest"} => th.p1 = comp[th.u]
  /\ th.at = "hookTest" => th.p2 = comp[Head(th.rest)]

PassInv ==
  kernel = "cc_sv" =>
    /\ step = "hook" /\ ~change =>
         /\ Flat
         /\ \A t \in Threads : thread[t] = Idle \/ HasSeen(thread[t])
         /\ \A u \in Node : \/ u \in todo
                            \/ \E t \in Threads : thread[t] # Idle /\ thread[t].u = u
                            \/ Agree(u)
    /\ step = "shortcut" /\ ~change =>
         /\ Flat
         /\ \A t \in Threads : thread[t] = Idle \/ thread[t].at = "test"
         /\ \A u \in Node : Agree(u)
    /\ step = "done" => \A u \in Node : Agree(u)

(* At the end.                                                             *)
EndInv == kernel = "cc" /\ step = "done" => \A u \in Node : Agree(u)

LabelInv == FlatInv /\ PassInv /\ EndInv


\* What there is when Afforest or Shiloach-Vishkin moves.
LabelCommon == CcInv /\ TreeInv /\ LabelInv /\ CcInv' /\ TreeInv'

LEMMA CommonTypes ==
  ASSUME CcInv
  PROVE  /\ graph \in Graphs /\ todo \subseteq Node /\ comp \in [Node -> Node]
         /\ thread \in [Threads -> ThreadStates] /\ change \in BOOLEAN
         /\ \A u \in Node : graph.out[u] \in Seq(Node)
         /\ \A n \in Node : comp[n] \in Node /\ comp[n] <= n /\ n \in Nat /\ comp[n] \in Nat
         /\ \A n \in Node : comp[n] # n => comp[n] < n
<1>1. /\ graph \in Graphs /\ todo \subseteq Node /\ comp \in [Node -> Node]
      /\ thread \in [Threads -> ThreadStates] /\ change \in BOOLEAN
  BY DEF CcInv, CcTypeOK
<1>2. \A u \in Node : graph.out[u] \in Seq(Node)
  BY <1>1, GraphType
<1>3. \A n \in Node : comp[n] \in Node /\ comp[n] <= n /\ n \in Nat /\ comp[n] \in Nat
  BY <1>1, NodeType DEF CcInv
<1> QED
  BY <1>1, <1>2, <1>3

\* In which loop a thread at such a place is.
LEMMA PlaceTells ==
  ASSUME TreeInv, FlatInv, CcInv, NEW t \in Threads
  PROVE  /\ thread[t].at \in LinkAt /\ kernel = "cc" => step \in {"sample", "finish"}
         /\ thread[t].at \in HookAt /\ kernel = "cc_sv" => step = "hook"
         /\ thread[t].at \in ShortAt => step \in ShortLoops
<1>1. Idle.at \notin LinkAt \cup HookAt \cup ShortAt /\ LinkAt \cap ShortAt = {} /\ HookAt \cap ShortAt = {}
  BY DEF Idle, LinkAt, HookAt, ShortAt
<1>2. kernel \in {"cc", "cc_sv"}
  BY DEF CcInv
<1>3. CASE kernel = "cc"
  <2>1. ThreadFits(thread[t])
    BY <1>3, TreeThread
  <2> QED
    BY <1>1, <1>3, <2>1 DEF ThreadFits, ShortLoops
<1>4. CASE kernel = "cc_sv"
  <2>1. step \in {"hook", "shortcut", "done"}
    BY <1>4 DEF FlatInv, SVSteps
  <2>2. step = "hook" => thread[t] = Idle \/ thread[t].at \in HookAt
    BY DEF FlatInv
  <2>3. step = "shortcut" => thread[t] = Idle \/ thread[t].at \in ShortAt
    BY DEF FlatInv, ShortLoops, Shortens
  <2>4. step = "done" => thread[t] = Idle
    BY DEF FlatInv, NoneAtWork
  <2> QED
    BY <1>1, <1>4, <2>1, <2>2, <2>3, <2>4 DEF ShortLoops
<1> QED
  BY <1>2, <1>3, <1>4

-----------------------------------------------------------------------------
(* Linking                                                                 *)

\* While vertices are linked, the invariant says nothing of their pointers.
LEMMA LabelsLink ==
  ASSUME LabelCommon, kernel = "cc", NEW t \in Threads,
         \/ Link(t)
         \/ \E u \in todo : TakeSample(t, u) \/ TakeFinish(t, u)
  PROVE  LabelInv'
<1>1. kernel' = kernel /\ step' = step /\ step \in {"sample", "finish"}
  <2>1. ASSUME Link(t) PROVE thread[t].at \in LinkAt /\ kernel' = kernel /\ step' = step
    BY <2>1 DEF Link, ReadU, ReadV, ReadHigh, CompareAndSwap, Climb, ClimbOn, ClimbLow, Goes, LinkAt
  <2>2. ASSUME NEW u \in todo, TakeSample(t, u) \/ TakeFinish(t, u)
        PROVE  step \in {"sample", "finish"} /\ kernel' = kernel /\ step' = step
    BY <2>2 DEF TakeSample, TakeFinish
  <2> QED
    BY <2>1, <2>2, PlaceTells DEF LabelCommon, LabelInv
<1>2. step = "sample" => todo' # Node
  <2>1. ASSUME Link(t), todo' = Node, step = "sample" PROVE FALSE
    <3>1. thread[t].at \in LinkAt /\ todo' = todo
      BY <2>1 DEF Link, ReadU, ReadV, ReadHigh, CompareAndSwap, Climb, ClimbOn, ClimbLow, Goes, LinkAt
    <3>2. thread[t] # Idle
      BY <3>1 DEF Idle, LinkAt
    <3> QED
      BY <2>1, <3>1, <3>2 DEF LabelCommon, LabelInv, FlatInv, NoneAtWork
  <2>2. ASSUME NEW u \in todo, TakeSample(t, u) \/ TakeFinish(t, u) PROVE todo' # Node
    <3>1. u \in Node /\ todo' = todo \ {u}
      BY <2>2, CommonTypes DEF LabelCommon, TakeSample, TakeFinish, Take
    <3> QED
      BY <3>1
  <2> QED
    BY <2>1, <2>2
<1>3. FlatInv'
  BY <1>1, <1>2 DEF LabelCommon, LabelInv, FlatInv, ShortLoops
<1> QED
  BY <1>1, <1>3 DEF LabelInv, PassInv, EndInv

-----------------------------------------------------------------------------
(* Shortening                                                              *)

\* What one iteration of a loop that shortens does to the pointers: it
\* leaves all of them, or lowers that of a vertex that is no root.
LEMMA FlatMoves ==
  ASSUME CcInv, FlatInv, NEW t \in Threads, NEW n \in Node, NEW next,
         step \in ShortLoops, UNCHANGED <<kernel, graph, step>>,
         todo' = todo \/ (thread[t] = Idle /\ todo' = todo \ {n}),
         thread[t] = Idle \/ thread[t].n = n,
         thread' = [thread EXCEPT ![t] = next],
         \/ next = Idle /\ comp[comp[n]] = comp[n]
         \/ next # Idle /\ next.n = n /\ Shortens(next)',
         \/ comp' = comp
         \/ /\ thread[t] # Idle /\ next # Idle
            /\ comp[n] < n /\ \E up \in Node : up < n /\ comp' = [comp EXCEPT ![n] = up]
  PROVE  FlatInv'
<1>1. /\ comp \in [Node -> Node] /\ \A m \in Node : comp[m] \in Node /\ comp[m] \in Nat /\ m \in Nat
      /\ thread \in [Threads -> ThreadStates]
  BY CommonTypes
<1>2. thread'[t] = next /\ \A q \in Threads : q # t => thread'[q] = thread[q]
  BY <1>1
<1>3. \A m \in Node : m # n => comp'[m] = comp[m]
  BY <1>1
<1>4. comp'[n] < n \/ comp'[n] = comp[n]
  BY <1>1
<1>5. \A m \in Node : comp[m] < m => comp'[m] < m
  BY <1>3, <1>4
<1>6. \A m \in Node : comp[comp[m]] = comp[m] /\ m # n => comp'[comp'[m]] = comp'[m]
  <2> SUFFICES ASSUME NEW m \in Node, comp[comp[m]] = comp[m], m # n PROVE comp'[comp'[m]] = comp'[m]
    OBVIOUS
  <2>1. comp' = comp \/ comp[n] < n
    OBVIOUS
  <2>2. CASE comp' = comp
    BY <2>2
  <2>3. CASE comp[n] < n
    <3>1. comp[m] # n
      BY <1>1, <2>3
    <3> QED
      BY <1>1, <1>3, <3>1
  <2> QED
    BY <2>1, <2>2, <2>3
<1>7. \A q \in Threads : thread'[q] = Idle \/ Shortens(thread[q])'
  <2> SUFFICES ASSUME NEW q \in Threads, thread'[q] # Idle PROVE Shortens(thread[q])'
    OBVIOUS
  <2>1. CASE q = t
    BY <1>2, <2>1
  <2>2. CASE q # t
    <3>1. PICK th : th = thread[q]
      OBVIOUS
    <3>2. thread'[q] = th /\ th # Idle /\ Shortens(th)
      BY <1>2, <2>2, <3>1 DEF FlatInv
    <3>3. th \in ThreadStates
      BY <1>1, <3>1
    <3>4. th.n \in Node
      BY <3>2, <3>3, ShorteningFacts DEF Shortens, ShortAt
    <3>5. Shortens(th)'
      BY <1>5, <3>2, <3>4 DEF Shortens
    <3> QED
      BY <3>2, <3>5 DEF Shortens
  <2> QED
    BY <2>1, <2>2
<1>8. \A m \in Node : \/ m \in todo'
                      \/ \E q \in Threads : thread'[q] # Idle /\ thread'[q].n = m
                      \/ comp'[comp'[m]] = comp'[m]
  <2> SUFFICES ASSUME NEW m \in Node
               PROVE  \/ m \in todo'
                      \/ \E q \in Threads : thread'[q] # Idle /\ thread'[q].n = m
                      \/ comp'[comp'[m]] = comp'[m]
    OBVIOUS
  <2>1. CASE m = n /\ next # Idle
    BY <1>2, <2>1
  <2>2. CASE m = n /\ next = Idle
    <3>1. comp' = comp /\ comp[comp[n]] = comp[n]
      BY <2>2
    <3> QED
      BY <2>2, <3>1
  <2>3. CASE m # n
    <3>1. \/ m \in todo
          \/ \E q \in Threads : thread[q] # Idle /\ thread[q].n = m
          \/ comp[comp[m]] = comp[m]
      BY DEF FlatInv
    <3>2. m \in todo => m \in todo'
      BY <2>3
    <3>3. ASSUME NEW q \in Threads, thread[q] # Idle, thread[q].n = m
          PROVE  thread'[q] # Idle /\ thread'[q].n = m
      <4>1. q # t
        BY <2>3, <3>3
      <4> QED
        BY <1>2, <3>3, <4>1
    <3> QED
      BY <1>6, <2>3, <3>1, <3>2, <3>3
  <2> QED
    BY <2>1, <2>2, <2>3
<1> QED
  BY <1>7, <1>8 DEF FlatInv, ShortLoops

\* A thread of the loop, at the place the step begins with.
LEMMA LabelsCompress ==
  ASSUME LabelCommon, NEW t \in Threads, Compress(t)
  PROVE  LabelInv'
<1>0. /\ CcInv /\ TreeInv /\ FlatInv /\ PassInv
      /\ \A m \in Node : comp[m] \in Node /\ comp[m] \in Nat /\ m \in Nat /\ comp[m] <= m
  BY CommonTypes DEF LabelCommon, LabelInv
<1>1. UNCHANGED <<kernel, graph, step, change>> /\ step \in ShortLoops
  <2>1. UNCHANGED <<kernel, graph, step, change>>
    BY DEF Compress, TakeShort, Test, Reread, Write, Goes
  <2>2. ASSUME NEW m \in todo, TakeShort(t, m) PROVE step \in ShortLoops
    BY <2>2 DEF TakeShort, ShortLoops
  <2>3. ASSUME Test(t) \/ Reread(t) \/ Write(t) PROVE step \in ShortLoops
    <3>1. thread[t].at \in ShortAt
      BY <2>3 DEF Test, Reread, Write, ShortAt
    <3> QED
      BY <1>0, <3>1, PlaceTells
  <2> QED
    BY <2>1, <2>2, <2>3 DEF Compress
<1>2. \A at, m, up : /\ Shortening(at, m, up) # Idle
                     /\ Shortening(at, m, up).at = at /\ Shortening(at, m, up).n = m /\ Shortening(at, m, up).up = up
  <2> SUFFICES ASSUME NEW at, NEW m, NEW up
               PROVE  /\ Shortening(at, m, up) # Idle
                      /\ Shortening(at, m, up).at = at /\ Shortening(at, m, up).n = m /\ Shortening(at, m, up).up = up
    OBVIOUS
  <2>1. DOMAIN Shortening(at, m, up) = {"at", "n", "up"} /\ DOMAIN Idle = {"at"}
    BY DEF Shortening, Idle
  <2> QED
    BY <2>1 DEF Shortening
<1>3. PICK th : th = thread[t]
  OBVIOUS
<1>4. th \in ThreadStates
  BY <1>0, <1>3, CommonTypes
<1>5. ASSUME NEW m \in todo, TakeShort(t, m)
      PROVE  FlatInv' /\ comp' = comp /\ thread' = [thread EXCEPT ![t] = Shortening("test", m, m)]
  <2>1. /\ thread[t] = Idle /\ todo' = todo \ {m}
        /\ thread' = [thread EXCEPT ![t] = Shortening("test", m, m)] /\ comp' = comp
    BY <1>5 DEF TakeShort, Take
  <2>2. m \in Node
    BY <1>0, CommonTypes
  <2>3. PICK next : next = Shortening("test", m, m)
    OBVIOUS
  <2>4. next # Idle /\ next.n = m /\ next.at = "test"
    BY <1>2, <2>3
  <2>5. Shortens(next)'
    BY <2>4 DEF Shortens, ShortAt
  <2>6. FlatInv'
    BY <1>0, <1>1, <2>1, <2>2, <2>3, <2>4, <2>5, FlatMoves
  <2> QED
    BY <2>1, <2>6
<1>6. ASSUME Test(t)
      PROVE  /\ FlatInv' /\ comp' = comp
             /\ \E next : thread' = [thread EXCEPT ![t] = next] /\ (next = Idle \/ ~Flat)
  <2>1. PICK n : n = th.n
    OBVIOUS
  <2>2. th.at = "test"
    BY <1>3, <1>6 DEF Test
  <2>3. n \in Node
    BY <1>4, <2>1, <2>2, ShorteningFacts
  <2>4. PICK next : next = IF comp[n] = comp[comp[n]] THEN Idle ELSE Shortening("reread", n, n)
    OBVIOUS
  <2>5. thread' = [thread EXCEPT ![t] = next] /\ todo' = todo /\ comp' = comp
    BY <1>3, <1>6, <2>1, <2>4 DEF Test, Goes
  <2>6. thread[t] # Idle /\ thread[t].n = n
    BY <1>3, <2>1, <2>2 DEF Idle
  <2>7. CASE comp[n] = comp[comp[n]]
    <3>1. next = Idle
      BY <2>4, <2>7
    <3>2. FlatInv'
      BY <1>0, <1>1, <2>3, <2>5, <2>6, <2>7, <3>1, FlatMoves
    <3> QED
      BY <2>5, <3>1, <3>2
  <2>8. CASE comp[n] # comp[comp[n]]
    <3>1. next # Idle /\ next.n = n /\ next.at = "reread"
      BY <1>2, <2>4, <2>8
    <3>2. comp[n] # n
      BY <2>8
    <3>3. comp[n] < n
      BY <1>0, <2>3, <3>2
    <3>4. Shortens(next)'
      BY <2>5, <3>1, <3>3 DEF Shortens, ShortAt
    <3>5. FlatInv'
      BY <1>0, <1>1, <2>3, <2>5, <2>6, <3>1, <3>4, FlatMoves
    <3>6. ~Flat
      BY <2>3, <2>8 DEF Flat
    <3> QED
      BY <2>5, <3>5, <3>6
  <2> QED
    BY <2>7, <2>8
<1>7. ASSUME Reread(t) PROVE FlatInv'
  <2>1. PICK n, up : n = th.n /\ up = comp[comp[n]]
    OBVIOUS
  <2>2. th.at = "reread"
    BY <1>3, <1>7 DEF Reread
  <2>3. n \in Node
    BY <1>4, <2>1, <2>2, ShorteningFacts
  <2>4. PICK next : next = Shortening("write", n, up)
    OBVIOUS
  <2>5. thread' = [thread EXCEPT ![t] = next] /\ todo' = todo /\ comp' = comp
    BY <1>3, <1>7, <2>1, <2>4 DEF Reread, Goes
  <2>6. thread[t] # Idle /\ thread[t].n = n
    BY <1>3, <2>1, <2>2 DEF Idle
  <2>7. comp[n] < n
    <3>1. Shortens(th)
      BY <1>0, <1>1, <1>3, <2>6 DEF FlatInv
    <3> QED
      BY <2>1, <2>2, <3>1 DEF Shortens
  <2>8. up < n
    <3>1. PICK p : p = comp[n]
      OBVIOUS
    <3>2. p \in Node /\ p \in Nat /\ p < n /\ n \in Nat
      BY <1>0, <2>3, <2>7, <3>1
    <3>3. up <= p /\ up \in Nat
      BY <1>0, <2>1, <3>1, <3>2
    <3> QED
      BY <3>2, <3>3
  <2>9. next # Idle /\ next.n = n /\ next.at = "write" /\ next.up = up
    BY <1>2, <2>4
  <2>10. Shortens(next)'
    BY <2>5, <2>7, <2>8, <2>9 DEF Shortens, ShortAt
  <2> QED
    BY <1>0, <1>1, <2>3, <2>5, <2>6, <2>9, <2>10, FlatMoves
<1>8. ASSUME Write(t) PROVE FlatInv'
  <2>1. PICK n, up : n = th.n /\ up = th.up
    OBVIOUS
  <2>2. th.at = "write"
    BY <1>3, <1>8 DEF Write
  <2>3. n \in Node /\ up \in Node
    BY <1>4, <2>1, <2>2, ShorteningFacts
  <2>4. PICK next : next = Shortening("test", n, n)
    OBVIOUS
  <2>5. thread' = [thread EXCEPT ![t] = next] /\ todo' = todo /\ comp' = [comp EXCEPT ![n] = up]
    BY <1>3, <1>8, <2>1, <2>4 DEF Write, Goes
  <2>6. thread[t] # Idle /\ thread[t].n = n
    BY <1>3, <2>1, <2>2 DEF Idle
  <2>7. comp[n] < n /\ up < n
    <3>1. Shortens(th)
      BY <1>0, <1>1, <1>3, <2>6 DEF FlatInv
    <3> QED
      BY <2>1, <2>2, <3>1 DEF Shortens
  <2>8. next # Idle /\ next.n = n /\ next.at = "test"
    BY <1>2, <2>4
  <2>9. Shortens(next)'
    BY <2>8 DEF Shortens, ShortAt
  <2> QED
    BY <1>0, <1>1, <2>3, <2>5, <2>6, <2>7, <2>8, <2>9, FlatMoves
<1>9. FlatInv'
  BY <1>5, <1>6, <1>7, <1>8 DEF Compress
<1>10. PassInv'
  <2> SUFFICES ASSUME kernel = "cc_sv", step = "shortcut", ~change
               PROVE  /\ Flat' /\ (\A q \in Threads : thread'[q] = Idle \/ thread'[q].at = "test")
                      /\ \A u \in Node : Agree(u)'
    BY <1>1 DEF PassInv, ShortLoops
  <2>1. Flat /\ (\A q \in Threads : thread[q] = Idle \/ thread[q].at = "test") /\ \A u \in Node : Agree(u)
    BY <1>0 DEF PassInv
  <2>2. ~Reread(t) /\ ~Write(t)
    BY <2>1 DEF Reread, Write, Idle
  <2>3. PICK next : comp' = comp /\ thread' = [thread EXCEPT ![t] = next] /\ (next = Idle \/ next.at = "test")
    <3>1. \A m : Shortening("test", m, m).at = "test"
      BY <1>2
    <3> QED
      BY <1>5, <1>6, <2>1, <2>2, <3>1 DEF Compress
  <2>4. \A q \in Threads : thread'[q] = Idle \/ thread'[q].at = "test"
    <3>1. thread \in [Threads -> ThreadStates]
      BY <1>0, CommonTypes
    <3> QED
      BY <2>1, <2>3, <3>1
  <2>5. Flat' /\ \A u \in Node : Agree(u)'
    BY <1>1, <2>1, <2>3 DEF Flat, Agree
  <2> QED
    BY <2>4, <2>5
<1>11. EndInv'
  BY <1>1 DEF EndInv, ShortLoops
<1> QED
  BY <1>9, <1>10, <1>11 DEF LabelInv
-----------------------------------------------------------------------------
(* Hooking                                                                 *)

\* What NextHook returns.
LEMMA NextHookIs ==
  ASSUME NEW u, NEW rest
  PROVE  \/ rest = <<>> /\ NextHook(u, rest) = Idle
         \/ /\ rest # <<>> /\ NextHook(u, rest) # Idle
            /\ NextHook(u, rest).at = "hookU" /\ NextHook(u, rest).u = u /\ NextHook(u, rest).rest = rest
<1>1. PICK th : th = Linking("hookU", u, rest, u, u)
  OBVIOUS
<1>2. th.at = "hookU" /\ th.u = u /\ th.rest = rest
  BY <1>1 DEF Linking
<1>3. th # Idle
  BY <1>2 DEF Idle
<1> QED
  BY <1>1, <1>2, <1>3 DEF NextHook, Hooking

\* A thread of the hooking loop moves on in its vertex, or is done with it,
\* and hooks nothing.
LEMMA PassMoves ==
  ASSUME LabelCommon, kernel = "cc_sv", step = "hook", NEW t \in Threads, NEW next, NEW u \in Node,
         UNCHANGED <<kernel, graph, step, change, comp>>,
         \/ thread[t] # Idle /\ thread[t].u = u /\ todo' = todo
         \/ thread[t] = Idle /\ u \in todo /\ todo' = todo \ {u},
         thread' = [thread EXCEPT ![t] = next],
         next = Idle \/ (next.at \in HookAt /\ next.u = u),
         ~change /\ Flat => IF next = Idle THEN Agree(u) ELSE HasSeen(next)
  PROVE  LabelInv'
<1>1. CcInv /\ FlatInv /\ PassInv /\ thread \in [Threads -> ThreadStates] /\ todo \subseteq Node
  BY CommonTypes DEF LabelCommon, LabelInv
<1>2. thread'[t] = next /\ \A q \in Threads : q # t => thread'[q] = thread[q]
  BY <1>1
<1>3. todo' # Node
  <2>1. CASE thread[t] = Idle
    BY <1>1, <2>1
  <2>2. CASE thread[t] # Idle
    <3>1. todo # Node
      BY <1>1, <2>2 DEF FlatInv, NoneAtWork
    <3> QED
      BY <2>2, <3>1
  <2> QED
    BY <2>1, <2>2
<1>4. \A q \in Threads : thread'[q] = Idle \/ thread'[q].at \in HookAt
  <2>1. \A q \in Threads : thread[q] = Idle \/ thread[q].at \in HookAt
    BY <1>1 DEF FlatInv
  <2> QED
    BY <1>2, <2>1
<1>5. FlatInv'
  BY <1>1, <1>3, <1>4 DEF FlatInv, ShortLoops
<1>6. ASSUME ~change
      PROVE  /\ Flat'
             /\ \A q \in Threads : thread'[q] = Idle \/ HasSeen(thread[q])'
             /\ \A v \in Node : \/ v \in todo'
                                \/ \E q \in Threads : thread'[q] # Idle /\ thread'[q].u = v
                                \/ Agree(v)'
  <2>1. /\ Flat
        /\ \A q \in Threads : thread[q] = Idle \/ HasSeen(thread[q])
        /\ \A v \in Node : \/ v \in todo
                           \/ \E q \in Threads : thread[q] # Idle /\ thread[q].u = v
                           \/ Agree(v)
    BY <1>1, <1>6 DEF PassInv
  <2>2. IF next = Idle THEN Agree(u) ELSE HasSeen(next)
    BY <1>6, <2>1
  <2>3. Flat' /\ \A v : Agree(v)' <=> Agree(v)
    BY <2>1 DEF Flat, Agree
  <2>4. \A q \in Threads : thread'[q] = Idle \/ HasSeen(thread[q])'
    <3> SUFFICES ASSUME NEW q \in Threads, thread'[q] # Idle PROVE HasSeen(thread[q])'
      OBVIOUS
    <3>1. PICK th : th = thread'[q]
      OBVIOUS
    <3>2. HasSeen(th)
      BY <1>2, <2>1, <2>2, <3>1
    <3>3. HasSeen(th)'
      BY <3>2 DEF HasSeen
    <3> QED
      BY <3>1, <3>3 DEF HasSeen
  <2>5. ASSUME NEW v \in Node
        PROVE  \/ v \in todo'
               \/ \E q \in Threads : thread'[q] # Idle /\ thread'[q].u = v
               \/ Agree(v)
    <3>1. CASE v = u
      BY <1>2, <2>2, <3>1
    <3>2. CASE v # u
      <4>1. v \in todo => v \in todo'
        BY <3>2
      <4>2. \A q \in Threads : thread[q] # Idle /\ thread[q].u = v => q # t
        BY <3>2
      <4> QED
        BY <1>2, <2>1, <4>1, <4>2
    <3> QED
      BY <3>1, <3>2
  <2> QED
    BY <2>3, <2>4, <2>5
<1>7. PassInv'
  BY <1>6 DEF PassInv
<1>8. EndInv'
  BY DEF EndInv
<1> QED
  BY <1>5, <1>7, <1>8 DEF LabelInv

\* The accesses of one edge.
LEMMA LabelsHook ==
  ASSUME LabelCommon, kernel = "cc_sv", NEW t \in Threads,
         \/ \E u \in todo : TakeHook(t, u)
         \/ HookU(t) \/ HookV(t) \/ HookTest(t) \/ HookWrite(t)
  PROVE  LabelInv'
<1>0. /\ CcInv /\ TreeInv /\ FlatInv /\ PassInv /\ todo \subseteq Node
      /\ \A u \in Node : graph.out[u] \in Seq(Node)
      /\ \A n \in Node : comp[n] \in Node
  BY CommonTypes DEF LabelCommon, LabelInv
<1>1. PICK th : th = thread[t]
  OBVIOUS
<1>2. ASSUME NEW u \in todo, TakeHook(t, u) PROVE LabelInv'
  <2>1. PICK next : next = NextHook(u, graph.out[u])
    OBVIOUS
  <2>2. /\ step = "hook" /\ thread[t] = Idle /\ todo' = todo \ {u} /\ thread' = [thread EXCEPT ![t] = next]
        /\ UNCHANGED <<kernel, graph, step, change, comp>>
    BY <1>2, <2>1 DEF TakeHook, Take
  <2>3. next = Idle \/ (next.at \in HookAt /\ next.u = u)
    BY <2>1, NextHookIs DEF HookAt
  <2>4. IF next = Idle THEN Agree(u) ELSE HasSeen(next)
    <3>1. CASE graph.out[u] = <<>>
      <4>1. Elems(graph.out[u]) = {}
        BY <3>1 DEF Elems
      <4> QED
        BY <2>1, <3>1, <4>1, NextHookIs DEF Agree
    <3>2. CASE graph.out[u] # <<>>
      <4>1. next # Idle /\ next.at = "hookU" /\ next.u = u /\ next.rest = graph.out[u]
        BY <2>1, <3>2, NextHookIs
      <4> QED
        BY <4>1 DEF HasSeen
    <3> QED
      BY <3>1, <3>2
  <2> QED
    BY <1>0, <2>2, <2>3, <2>4, PassMoves
<1>3. ASSUME HookU(t) \/ HookV(t) \/ HookTest(t) \/ HookWrite(t) PROVE LabelInv'
  <2>1. th.at \in HookAt /\ th.at \in LinkPlaces
    BY <1>1, <1>3 DEF HookU, HookV, HookTest, HookWrite, HookAt, LinkPlaces
  <2>2. step = "hook" /\ th # Idle
    BY <1>0, <1>1, <2>1, PlaceTells DEF Idle, HookAt
  <2>3. th \in LinkRecord /\ th.rest # <<>> /\ Head(th.rest) \in Node /\ th.rest \in Seq(Node)
    BY <1>0, <1>1, <2>1, ThreadRecord, LinkThread
  <2>4. PICK u, rest, v : u = th.u /\ rest = th.rest /\ v = Head(rest)
    OBVIOUS
  <2>5. u \in Node /\ v \in Node /\ rest \in Seq(Node) /\ rest # <<>>
    BY <2>3, <2>4 DEF LinkRecord
  <2>6. ~change => HasSeen(th) /\ Flat
    BY <1>0, <1>1, <2>2 DEF PassInv
  <2>7. ASSUME ~change, comp[v] = comp[u], NEW next, next = NextHook(u, Tail(rest))
        PROVE  IF next = Idle THEN Agree(u) ELSE HasSeen(next)
    <3>0. PICK tail : tail = Tail(rest)
      OBVIOUS
    <3>1. \A w \in Elems(graph.out[u]) : comp[w] = comp[u] \/ w \in Elems(rest)
      BY <2>4, <2>6, <2>7 DEF HasSeen
    <3>2. \A w \in Elems(rest) : w = v \/ w \in Elems(tail)
      BY <2>4, <2>5, <3>0, RestSplit
    <3>3. \A w \in Elems(graph.out[u]) : comp[w] = comp[u] \/ w \in Elems(tail)
      BY <2>7, <3>1, <3>2
    <3>4. next = NextHook(u, tail)
      BY <2>7, <3>0
    <3>5. CASE tail = <<>>
      <4>1. Elems(tail) = {}
        BY <3>5 DEF Elems
      <4> QED
        BY <3>3, <3>4, <3>5, <4>1, NextHookIs DEF Agree
    <3>6. CASE tail # <<>>
      <4>1. next # Idle /\ next.at = "hookU" /\ next.u = u /\ next.rest = tail
        BY <3>4, <3>6, NextHookIs
      <4> QED
        BY <3>3, <4>1 DEF HasSeen
    <3> QED
      BY <3>5, <3>6
  <2>8. \A next : next = NextHook(u, Tail(rest)) => next = Idle \/ (next.at \in HookAt /\ next.u = u)
    BY NextHookIs DEF HookAt
  <2>9. CASE HookU(t)
    <3>1. PICK next : next = [th EXCEPT !.at = "hookV", !.p1 = comp[u]]
      OBVIOUS
    <3>2. next.at = "hookV" /\ next.u = u /\ next.rest = rest /\ next.p1 = comp[u]
      BY <2>3, <2>4, <3>1 DEF LinkRecord
    <3>3. next # Idle /\ next.at \in HookAt
      BY <3>2 DEF Idle, HookAt
    <3>4. /\ todo' = todo /\ thread' = [thread EXCEPT ![t] = next]
          /\ UNCHANGED <<kernel, graph, step, change, comp>>
      BY <1>1, <2>4, <2>9, <3>1 DEF HookU, Goes
    <3>5. ~change => HasSeen(next)
      BY <2>4, <2>6, <3>2 DEF HasSeen
    <3> QED
      BY <1>1, <2>2, <2>4, <2>5, <3>2, <3>3, <3>4, <3>5, PassMoves
  <2>10. CASE HookV(t)
    <3>1. PICK next : next = IF th.p1 = comp[v] THEN NextHook(u, Tail(rest))
                             ELSE [th EXCEPT !.at = "hookTest", !.p2 = comp[v]]
      OBVIOUS
    <3>2. /\ todo' = todo /\ thread' = [thread EXCEPT ![t] = next] /\ th.at = "hookV"
          /\ UNCHANGED <<kernel, graph, step, change, comp>>
      BY <1>1, <2>4, <2>10, <3>1 DEF HookV, Goes
    <3>3. ~change => th.p1 = comp[u]
      BY <2>4, <2>6, <3>2 DEF HasSeen
    <3>4. CASE th.p1 = comp[v]
      <4>1. next = NextHook(u, Tail(rest))
        BY <3>1, <3>4
      <4>2. ~change => IF next = Idle THEN Agree(u) ELSE HasSeen(next)
        BY <2>7, <3>3, <3>4, <4>1
      <4> QED
        BY <1>1, <2>2, <2>4, <2>5, <2>8, <3>2, <4>1, <4>2, PassMoves
    <3>5. CASE th.p1 # comp[v]
      <4>1. next.at = "hookTest" /\ next.u = u /\ next.rest = rest /\ next.p1 = th.p1 /\ next.p2 = comp[v]
        BY <2>3, <2>4, <3>1, <3>5 DEF LinkRecord
      <4>2. next # Idle /\ next.at \in HookAt
        BY <4>1 DEF Idle, HookAt
      <4>3. ~change => HasSeen(next)
        BY <2>4, <2>6, <3>3, <4>1 DEF HasSeen
      <4> QED
        BY <1>1, <2>2, <2>4, <2>5, <3>2, <4>1, <4>2, <4>3, PassMoves
    <3> QED
      BY <3>4, <3>5
  <2>11. CASE HookTest(t)
    <3>1. PICK next : next = IF comp[Hi(th)] = Hi(th) THEN [th EXCEPT !.at = "hookWrite"]
                             ELSE NextHook(u, Tail(rest))
      OBVIOUS
    <3>2. /\ todo' = todo /\ thread' = [thread EXCEPT ![t] = next] /\ th.at = "hookTest"
          /\ UNCHANGED <<kernel, graph, step, change, comp>>
      BY <1>1, <2>4, <2>11, <3>1 DEF HookTest, Goes
    <3>3. ~change => comp[Hi(th)] = Hi(th)
      <4>1. ~change => th.p1 = comp[u] /\ th.p2 = comp[v] /\ Flat
        BY <2>4, <2>6, <3>2 DEF HasSeen
      <4>2. Hi(th) = th.p1 \/ Hi(th) = th.p2
        BY DEF Hi, Larger
      <4> QED
        BY <2>5, <4>1, <4>2 DEF Flat
    <3>4. CASE comp[Hi(th)] = Hi(th)
      <4>1. next.at = "hookWrite" /\ next.u = u /\ next.rest = rest
        BY <2>3, <2>4, <3>1, <3>4 DEF LinkRecord
      <4>2. next # Idle /\ next.at \in HookAt
        BY <4>1 DEF Idle, HookAt
      <4>3. ~change => HasSeen(next)
        BY <2>4, <2>6, <4>1 DEF HasSeen
      <4> QED
        BY <1>1, <2>2, <2>4, <2>5, <3>2, <4>1, <4>2, <4>3, PassMoves
    <3>5. CASE comp[Hi(th)] # Hi(th)
      <4>1. next = NextHook(u, Tail(rest)) /\ change
        BY <3>1, <3>3, <3>5
      <4> QED
        BY <1>1, <2>2, <2>4, <2>5, <2>8, <3>2, <4>1, PassMoves
    <3> QED
      BY <3>4, <3>5
  <2>12. CASE HookWrite(t)
    <3>1. PICK next : next = NextHook(u, Tail(rest))
      OBVIOUS
    <3>2. /\ todo' = todo /\ thread' = [thread EXCEPT ![t] = next] /\ change' = TRUE
          /\ UNCHANGED <<kernel, graph, step>>
      BY <1>1, <2>4, <2>12, <3>1 DEF HookWrite, Goes
    <3>3. todo' # Node
      BY <1>0, <1>1, <2>2, <3>2 DEF FlatInv, NoneAtWork
    <3>4. \A q \in Threads : thread'[q] = Idle \/ thread'[q].at \in HookAt
      <4>1. \A q \in Threads : thread[q] = Idle \/ thread[q].at \in HookAt
        BY <1>0, <2>2 DEF FlatInv
      <4>2. thread \in [Threads -> ThreadStates]
        BY <1>0, CommonTypes
      <4>3. next = Idle \/ next.at \in HookAt
        BY <2>8, <3>1
      <4> QED
        BY <3>2, <4>1, <4>2, <4>3
    <3>5. FlatInv'
      BY <1>0, <2>2, <3>2, <3>3, <3>4 DEF FlatInv, ShortLoops
    <3>6. PassInv' /\ EndInv'
      BY <2>2, <3>2 DEF PassInv, EndInv
    <3> QED
      BY <3>5, <3>6 DEF LabelInv
  <2> QED
    BY <1>3, <2>9, <2>10, <2>11, <2>12
<1> QED
  BY <1>2, <1>3
-----------------------------------------------------------------------------
(* Barriers                                                                *)

\* Once its team is done, a loop that shortens has flattened the trees.
LEMMA ShortensAll ==
  ASSUME FlatInv, TeamDone, step \in ShortLoops
  PROVE  Flat
BY DEF FlatInv, TeamDone, Flat

\* The loop that begins starts on all vertices, or there is none.
LEMMA LoopFlat ==
  ASSUME NEW name, NEW iterations, BeginLoop(name, iterations),
         kernel' = "cc" => name \in AfforestSteps,
         kernel' = "cc_sv" => name \in SVSteps,
         UNCHANGED comp,
         name \in {"sample", "hook", "pick", "done"} => Flat,
         name \in ShortLoops => iterations = Node
  PROVE  FlatInv' /\ NoneAtWork'
<1>1. step' = name /\ todo' = iterations /\ thread' = [t \in Threads |-> Idle]
  BY DEF BeginLoop
<1>2. NoneAtWork'
  BY <1>1 DEF NoneAtWork
<1>3. Flat => Flat'
  BY DEF Flat
<1>4. step' \in ShortLoops =>
         /\ \A t \in Threads : thread'[t] = Idle \/ Shortens(thread[t])'
         /\ \A n \in Node : \/ n \in todo'
                            \/ \E t \in Threads : thread'[t] # Idle /\ thread'[t].n = n
                            \/ comp'[comp'[n]] = comp'[n]
  BY <1>1, <1>2 DEF NoneAtWork
<1>5. step' = "hook" => \A t \in Threads : thread'[t] = Idle \/ thread'[t].at \in HookAt
  BY <1>2 DEF NoneAtWork
<1>6. /\ step' \in {"sample", "hook"} /\ todo' = Node => Flat' /\ NoneAtWork'
      /\ step' \in {"pick", "done"} => Flat' /\ NoneAtWork'
  BY <1>1, <1>2, <1>3
<1>7. /\ kernel' = "cc" => step' \in AfforestSteps
      /\ kernel' = "cc_sv" => step' \in SVSteps
  BY <1>1
<1> QED
  BY <1>2, <1>4, <1>5, <1>6, <1>7 DEF FlatInv

\* In flat trees, the pointer of a vertex is its root.
LEMMA FlatRoots ==
  ASSUME CcInv, Flat, NEW n \in Node
  PROVE  Root[n] = comp[n]
<1>1. comp \in Downward
  BY CompDownward
<1>2. comp[n] \in Node /\ comp[comp[n]] = comp[n]
  BY CommonTypes DEF Flat
<1>3. PICK R : R = RootOf(comp)
  OBVIOUS
<1>4. R[comp[n]] = R[n]
  BY <1>1, <1>3, RootFacts
<1>5. R[comp[n]] = comp[n]
  BY <1>1, <1>2, <1>3, RootFacts
<1> QED
  BY <1>3, <1>4, <1>5 DEF Root

LEMMA LabelsBarrier ==
  ASSUME LabelCommon,
         \/ /\ kernel = "cc"
            /\ EndSample \/ EndCompress \/ Pick \/ EndFinish \/ EndFinal
         \/ /\ kernel = "cc_sv"
            /\ EndHook \/ EndShortcut
  PROVE  LabelInv'
<1>0. /\ CcInv /\ TreeInv /\ FlatInv /\ PassInv
      /\ {"sample", "compress", "pick", "finish", "final", "done"} \subseteq AfforestSteps
      /\ {"hook", "shortcut", "done"} \subseteq SVSteps
      /\ "sample" \notin ShortLoops /\ "pick" \notin ShortLoops /\ "finish" \notin ShortLoops
      /\ "done" \notin ShortLoops /\ "hook" \notin ShortLoops
      /\ {"compress", "final", "shortcut"} \subseteq ShortLoops
  BY DEF LabelCommon, LabelInv, AfforestSteps, SVSteps, ShortLoops
<1>1. CASE kernel = "cc" /\ EndSample
  <2>1. BeginLoop("compress", Node) /\ UNCHANGED <<kernel, comp>> /\ step' = "compress"
    BY <1>1 DEF EndSample, BeginLoop
  <2>2. FlatInv'
    BY <1>0, <1>1, <2>1, LoopFlat
  <2> QED
    BY <1>1, <2>1, <2>2 DEF LabelInv, PassInv, EndInv
<1>2. CASE kernel = "cc" /\ EndCompress
  <2>1. Flat
    BY <1>0, <1>2, ShortensAll DEF EndCompress
  <2>2. /\ UNCHANGED <<kernel, comp>>
        /\ BeginLoop("sample", Node) \/ BeginLoop("pick", {})
    BY <1>2 DEF EndCompress
  <2>3. FlatInv'
    <3>1. CASE BeginLoop("sample", Node)
      BY <1>0, <1>2, <2>1, <2>2, <3>1, LoopFlat
    <3>2. CASE BeginLoop("pick", {})
      BY <1>0, <1>2, <2>1, <2>2, <3>2, LoopFlat
    <3> QED
      BY <2>2, <3>1, <3>2
  <2>4. step' # "done"
    BY <2>2 DEF BeginLoop
  <2> QED
    BY <1>2, <2>2, <2>3, <2>4 DEF LabelInv, PassInv, EndInv
<1>3. CASE kernel = "cc" /\ Pick
  <2>1. BeginLoop("finish", Node) /\ UNCHANGED <<kernel, comp>> /\ step' = "finish"
    BY <1>3 DEF Pick, BeginLoop
  <2>2. FlatInv'
    BY <1>0, <1>3, <2>1, LoopFlat
  <2> QED
    BY <1>3, <2>1, <2>2 DEF LabelInv, PassInv, EndInv
<1>4. CASE kernel = "cc" /\ EndFinish
  <2>1. BeginLoop("final", Node) /\ UNCHANGED <<kernel, comp>> /\ step' = "final"
    BY <1>4 DEF EndFinish, BeginLoop
  <2>2. FlatInv'
    BY <1>0, <1>4, <2>1, LoopFlat
  <2> QED
    BY <1>4, <2>1, <2>2 DEF LabelInv, PassInv, EndInv
<1>5. CASE kernel = "cc" /\ EndFinal
  <2>1. /\ BeginLoop("done", {}) /\ UNCHANGED <<kernel, graph, comp>>
        /\ step = "final" /\ TeamDone
    BY <1>5 DEF EndFinal
  <2>2. Flat
    BY <1>0, <2>1, ShortensAll
  <2>3. FlatInv'
    BY <1>0, <1>5, <2>1, <2>2, LoopFlat
  <2>4. ASSUME NEW u \in Node PROVE Agree(u)'
    <3>1. \A w \in Elems(graph.out[u]) : w \in Node /\ Root[u] = Root[w]
      <4>1. ASSUME NEW w \in Elems(graph.out[u]) PROVE w \in Node /\ Root[u] = Root[w]
        <5>1. w \in Node
          BY <1>0, CommonTypes DEF Elems
        <5>2. Edge(graph, u, w)
          BY DEF Edge
        <5> QED
          BY <1>0, <1>5, <2>1, <5>1, <5>2, EdgesWithinTrees DEF SameTree
      <4> QED
        BY <4>1
    <3>2. \A w \in Elems(graph.out[u]) : comp[w] = comp[u]
      BY <1>0, <2>2, <3>1, FlatRoots
    <3> QED
      BY <2>1, <3>2 DEF Agree
  <2> QED
    BY <1>5, <2>1, <2>3, <2>4 DEF LabelInv, PassInv, EndInv
<1>6. CASE kernel = "cc_sv" /\ EndHook
  <2>1. /\ BeginLoop("shortcut", Node) /\ UNCHANGED <<kernel, graph, comp, change>>
        /\ step = "hook" /\ TeamDone /\ step' = "shortcut"
    BY <1>6 DEF EndHook, BeginLoop
  <2>2. FlatInv' /\ NoneAtWork'
    BY <1>0, <1>6, <2>1, LoopFlat
  <2>3. ASSUME ~change PROVE Flat' /\ \A u \in Node : Agree(u)'
    <3>1. Flat /\ \A u \in Node : Agree(u)
      BY <1>0, <1>6, <2>1, <2>3 DEF PassInv, TeamDone
    <3> QED
      BY <2>1, <3>1 DEF Flat, Agree
  <2>4. PassInv'
    BY <1>6, <2>1, <2>2, <2>3 DEF PassInv, NoneAtWork
  <2> QED
    BY <1>6, <2>1, <2>2, <2>4 DEF LabelInv, EndInv
<1>7. CASE kernel = "cc_sv" /\ EndShortcut
  <2>1. /\ IF change THEN BeginLoop("hook", Node) ELSE BeginLoop("done", {})
        /\ UNCHANGED <<kernel, graph, comp>>
        /\ step = "shortcut" /\ TeamDone
    BY <1>7 DEF EndShortcut
  <2>2. Flat
    BY <1>0, <2>1, ShortensAll
  <2>3. CASE change
    <3>1. BeginLoop("hook", Node)
      BY <2>1, <2>3
    <3>2. FlatInv' /\ NoneAtWork'
      BY <1>0, <1>7, <2>1, <2>2, <3>1, LoopFlat
    <3>3. step' = "hook" /\ todo' = Node
      BY <3>1 DEF BeginLoop
    <3>4. Flat'
      BY <2>1, <2>2 DEF Flat
    <3>5. PassInv'
      BY <3>2, <3>3, <3>4 DEF PassInv, NoneAtWork
    <3> QED
      BY <3>2, <3>3, <3>5 DEF LabelInv, EndInv
  <2>4. CASE ~change
    <3>1. BeginLoop("done", {})
      BY <2>1, <2>4
    <3>2. FlatInv'
      BY <1>0, <1>7, <2>1, <2>2, <3>1, LoopFlat
    <3>3. step' = "done"
      BY <3>1 DEF BeginLoop
    <3>4. \A u \in Node : Agree(u)
      BY <1>0, <1>7, <2>1, <2>4 DEF PassInv
    <3>5. \A u \in Node : Agree(u)'
      BY <2>1, <3>4 DEF Agree
    <3> QED
      BY <1>7, <2>1, <3>2, <3>3, <3>5 DEF LabelInv, PassInv, EndInv
  <2> QED
    BY <2>3, <2>4
<1> QED
  BY <1>1, <1>2, <1>3, <1>4, <1>5, <1>6, <1>7

LEMMA LabelsInitially == CcInit => LabelInv
<1>1. SUFFICES ASSUME CcInit PROVE LabelInv
  OBVIOUS
<1>2. \A t \in Threads : thread[t] = Idle
  BY <1>1 DEF CcInit
<1>3. \A n \in Node : comp[comp[n]] = comp[n]
  BY <1>1 DEF CcInit
<1>4. /\ kernel = "cc_sv" => step = "hook" /\ todo = Node
      /\ kernel = "cc" => step \in {"pick", "sample"}
      /\ kernel \in {"cc", "cc_sv"}
  BY <1>1 DEF CcInit
<1>5. step \notin ShortLoops /\ step # "done" /\ step # "shortcut"
  BY <1>4 DEF ShortLoops
<1>6. FlatInv
  BY <1>2, <1>3, <1>4, <1>5 DEF FlatInv, Flat, NoneAtWork, AfforestSteps, SVSteps
<1>7. PassInv
  BY <1>2, <1>3, <1>4, <1>5 DEF PassInv, Flat
<1> QED
  BY <1>5, <1>6, <1>7 DEF LabelInv, EndInv

LEMMA LabelsStutter ==
  ASSUME LabelInv, UNCHANGED ccVars
  PROVE  LabelInv'
<1>1. UNCHANGED <<kernel, graph, step, todo, thread, comp, round, skipped, change>>
  BY DEF ccVars, teamVars
<1>2. \A th : (Shortens(th)' <=> Shortens(th)) /\ (HasSeen(th)' <=> HasSeen(th))
  BY <1>1 DEF Shortens, HasSeen
<1>3. \A u : Agree(u)' <=> Agree(u)
  BY <1>1 DEF Agree
<1>4. (Flat' <=> Flat) /\ (NoneAtWork' <=> NoneAtWork)
  BY <1>1 DEF Flat, NoneAtWork
<1>5. \A t : (Shortens(thread[t])' <=> Shortens(thread[t])) /\ (HasSeen(thread[t])' <=> HasSeen(thread[t]))
  BY <1>1 DEF Shortens, HasSeen
<1>6. FlatInv'
  BY <1>1, <1>4, <1>5 DEF LabelInv, FlatInv
<1>7. PassInv'
  BY <1>1, <1>3, <1>4, <1>5 DEF LabelInv, PassInv
<1>8. EndInv'
  BY <1>1, <1>3 DEF LabelInv, EndInv
<1> QED
  BY <1>6, <1>7, <1>8 DEF LabelInv

LEMMA LabelsKept == CcInv /\ TreeInv /\ LabelInv /\ [CcNext]_ccVars => LabelInv'
<1>1. SUFFICES ASSUME CcInv, TreeInv, LabelInv, CcNext PROVE LabelInv'
  BY LabelsStutter
<1>2. LabelCommon
  BY <1>1, CcKept, TreeKept DEF LabelCommon
<1>3. CASE Afforest
  BY <1>2, <1>3, LabelsLink, LabelsCompress, LabelsBarrier DEF Afforest
<1>4. CASE ShiloachVishkin
  BY <1>2, <1>4, LabelsHook, LabelsCompress, LabelsBarrier DEF ShiloachVishkin
<1> QED
  BY <1>1, <1>3, <1>4 DEF CcNext

LEMMA LabelsAlways == CcSpec => []LabelInv
<1> QED
  BY CcAlways, TreeAlways, LabelsInitially, LabelsKept, PTL DEF CcSpec
-----------------------------------------------------------------------------
(* The verifier's searches                                                 *)

\* With both ends of every edge labelled alike, all that is adjacent to a
\* vertex has its label.
LEMMA AdjacentFacts ==
  ASSUME graph \in Graphs, NEW u \in Node
  PROVE  /\ Adjacent(u) \subseteq Node
         /\ Elems(graph.out[u]) \subseteq Adjacent(u) /\ Elems(graph.in[u]) \subseteq Adjacent(u)
         /\ (\A w \in Node : Agree(w)) => \A v \in Adjacent(u) : comp[v] = comp[u]
<1>1. /\ graph.out[u] \in Seq(Node) /\ graph.in[u] \in Seq(Node) /\ Inverted(graph)
      /\ ~graph.directed => graph.in = graph.out
  BY GraphType, KernelAssumption
<1>2. Elems(graph.out[u]) \subseteq Node /\ Elems(graph.in[u]) \subseteq Node
  BY <1>1 DEF Elems
<1>3. ~graph.directed => Elems(graph.in[u]) = Elems(graph.out[u])
  BY <1>1
<1>4. Elems(graph.in[u]) \subseteq Adjacent(u)
  BY <1>3 DEF Adjacent
<1>5. ASSUME \A w \in Node : Agree(w), NEW v \in Adjacent(u) PROVE comp[v] = comp[u]
  <2>1. CASE v \in Elems(graph.out[u])
    BY <1>5, <2>1 DEF Agree
  <2>2. CASE v \in Elems(graph.in[u])
    <3>1. v \in Node /\ u \in Elems(graph.out[v])
      BY <1>1, <1>2, <2>2 DEF Inverted, Edge
    <3> QED
      BY <1>5, <3>1 DEF Agree
  <2> QED
    BY <2>1, <2>2 DEF Adjacent
<1> QED
  BY <1>2, <1>4, <1>5 DEF Adjacent

Around(A) == UNION {Adjacent(u) : u \in A}

\* What a search visits in N rounds.
IsSearch(s, V) ==
  /\ V[0] = {s}
  /\ \A k \in 0 .. N : V[k] \subseteq Node
  /\ \A k \in 1 .. N : V[k] = V[k - 1] \cup Around(V[k - 1])

\* The recursion of SearchedFrom has a solution.
LEMMA SearchExists ==
  ASSUME graph \in Graphs, NEW s \in Node
  PROVE  \E V : IsSearch(s, V) /\ SearchedFrom(s) = V[N]
<1> DEFINE Solves(F) == F = [k \in 0 .. N |-> IF k = 0 THEN {s}
                                          ELSE F[k - 1] \cup UNION {Adjacent(u) : u \in F[k - 1]}]
           D == [k \in 0 .. N |-> SUBSET Node]
           G == [k \in 0 .. N |-> [A \in SUBSET Node |-> A \cup Around(A)]]
<1>1. N \in Nat /\ 0 \in 0 .. N
  BY KernelAssumption
<1>2. \A A \in SUBSET Node : A \cup Around(A) \in SUBSET Node
  BY AdjacentFacts DEF Around
<1>3. \E F : Solves(F)
  <2>1. \A k \in 0 .. N : D[k] = SUBSET Node
    OBVIOUS
  <2>2. \A k \in 0 .. N : \A A \in SUBSET Node : G[k][A] = A \cup Around(A)
    OBVIOUS
  <2> HIDE DEF D, G
  <2>3. \A k \in 1 .. N : k \in 0 .. N /\ k - 1 \in 0 .. N
    BY <1>1
  <2>4. \A k \in 1 .. N : \A A \in D[k - 1] : G[k][A] \in D[k]
    BY <1>2, <2>1, <2>2, <2>3
  <2>5. {s} \in D[0]
    BY <1>1, <2>1
  <2>6. PICK F : Follows(F, N, {s}, G) /\ \A k \in 0 .. N : F[k] \in D[k]
    BY <1>1, <2>4, <2>5, Recursion
  <2>7. F = [k \in 0 .. N |-> IF k = 0 THEN {s} ELSE G[k][F[k - 1]]]
    BY <2>6 DEF Follows
  <2>8. \A k \in 0 .. N : k # 0 => G[k][F[k - 1]] = F[k - 1] \cup UNION {Adjacent(u) : u \in F[k - 1]}
    <3>1. ASSUME NEW k \in 0 .. N, k # 0
          PROVE  G[k][F[k - 1]] = F[k - 1] \cup UNION {Adjacent(u) : u \in F[k - 1]}
      <4>1. k - 1 \in 0 .. N
        BY <1>1, <3>1
      <4>2. PICK A : A = F[k - 1]
        OBVIOUS
      <4>3. A \in SUBSET Node
        BY <2>1, <2>6, <4>1, <4>2
      <4> QED
        BY <2>2, <4>2, <4>3 DEF Around
    <3> QED
      BY <3>1
  <2>9. \A k \in 0 .. N : (IF k = 0 THEN {s} ELSE G[k][F[k - 1]])
                         = (IF k = 0 THEN {s} ELSE F[k - 1] \cup UNION {Adjacent(u) : u \in F[k - 1]})
    BY <2>8
  <2>10. Solves(F)
    BY <2>7, <2>9
  <2> QED
    BY <2>10
<1>4. PICK V : V = CHOOSE F : Solves(F)
  OBVIOUS
<1>5. Solves(V)
  BY <1>3, <1>4
<1>6. SearchedFrom(s) = V[N]
  BY <1>4 DEF SearchedFrom
<1>7. \A k \in 0 .. N : V[k] = IF k = 0 THEN {s} ELSE V[k - 1] \cup UNION {Adjacent(u) : u \in V[k - 1]}
  BY <1>5
<1> HIDE DEF Solves, D, G
<1>8. V[0] = {s}
  BY <1>1, <1>7
<1>9. \A k \in 1 .. N : V[k] = V[k - 1] \cup Around(V[k - 1])
  <2>1. \A k \in 1 .. N : k \in 0 .. N /\ k # 0
    BY <1>1
  <2> QED
    BY <1>7, <2>1 DEF Around
<1>10. \A k \in 0 .. N : V[k] \subseteq Node
  <2> DEFINE P == {k \in 0 .. N : V[k] \in SUBSET Node}
  <2>1. 0 \in P
    BY <1>1, <1>8
  <2>2. ASSUME NEW k \in 1 .. N, k - 1 \in P PROVE k \in P
    <3>1. k \in 0 .. N /\ V[k - 1] \in SUBSET Node
      BY <1>1, <2>2
    <3>2. V[k] \in SUBSET Node
      BY <1>2, <1>9, <3>1
    <3> QED
      BY <3>1, <3>2
  <2> HIDE DEF P
  <2>3. \A k \in 0 .. N : k \in P
    BY <1>1, <2>1, <2>2, UpTo
  <2> QED
    BY <2>3 DEF P
<1> QED
  BY <1>6, <1>8, <1>9, <1>10 DEF IsSearch

\* A search ends with all that is adjacent to what it has visited.
LEMMA SearchCloses ==
  ASSUME graph \in Graphs, NEW s \in Node, NEW V, IsSearch(s, V)
  PROVE  s \in V[N] /\ V[N] \subseteq Node /\ Closed(V[N])
<1>1. N \in Nat /\ 0 \in 0 .. N /\ N \in 0 .. N
  BY KernelAssumption
<1>2. IsFiniteSet(Node) /\ Cardinality(Node) <= N
  <2>1. 0 \in Int /\ N - 1 \in Int
    BY <1>1
  <2>2. IsFiniteSet(Node) /\ Cardinality(Node) = IF 0 > N - 1 THEN 0 ELSE (N - 1) - 0 + 1
    BY <2>1, FS_Interval DEF Node
  <2> QED
    BY <1>1, <2>2
<1>3. /\ V[0] = {s} /\ \A k \in 0 .. N : V[k] \subseteq Node
      /\ \A k \in 1 .. N : V[k] = V[k - 1] \cup Around(V[k - 1])
  BY DEF IsSearch
<1>4. PICK i \in 1 .. N : V[i] = V[i - 1]
  <2>1. V[0] # {} /\ \A k \in 1 .. N : V[k - 1] \subseteq V[k]
    BY <1>3
  <2> QED
    BY <1>1, <1>2, <1>3, <2>1, ChainStops
<1>5. i \in 0 .. N /\ i \in Nat /\ Around(V[i]) \subseteq V[i]
  BY <1>1, <1>3, <1>4
<1> DEFINE P == {k \in 0 .. N : s \in V[k] /\ (k >= i => V[k] = V[i])}
<1>6. 0 \in P
  BY <1>1, <1>3, <1>4
<1>7. ASSUME NEW k \in 1 .. N, k - 1 \in P PROVE k \in P
  <2>1. k \in 0 .. N /\ k \in Nat /\ V[k] = V[k - 1] \cup Around(V[k - 1])
    BY <1>1, <1>3
  <2>2. s \in V[k]
    BY <1>7, <2>1
  <2>3. CASE k > i
    <3>1. V[k - 1] = V[i]
      BY <1>5, <1>7, <2>1, <2>3
    <3>2. V[k] = V[i]
      BY <1>5, <2>1, <3>1
    <3> QED
      BY <2>1, <2>2, <3>2
  <2>4. CASE ~(k > i)
    <3>1. k >= i => k = i
      BY <1>5, <2>1, <2>4
    <3> QED
      BY <2>1, <2>2, <3>1
  <2> QED
    BY <2>3, <2>4
<1> HIDE DEF P
<1>8. N \in P
  BY <1>1, <1>6, <1>7, UpTo
<1>9. s \in V[N] /\ V[N] = V[i]
  BY <1>5, <1>8 DEF P
<1>10. V[N] \subseteq Node
  BY <1>1, <1>3
<1>11. ASSUME NEW u \in V[N]
       PROVE  Elems(graph.out[u]) \subseteq V[N] /\ Elems(graph.in[u]) \subseteq V[N]
  <2>1. u \in Node /\ Adjacent(u) \subseteq Around(V[i])
    BY <1>9, <1>10 DEF Around
  <2> QED
    BY <1>5, <1>9, <2>1, AdjacentFacts
<1> QED
  BY <1>9, <1>10, <1>11 DEF Closed

\* And it meets one label only.
LEMMA SearchAgrees ==
  ASSUME graph \in Graphs, NEW s \in Node, NEW V, IsSearch(s, V), \A w \in Node : Agree(w)
  PROVE  \A v \in V[N] : comp[v] = comp[s]
<1>1. N \in Nat /\ 0 \in 0 .. N /\ N \in 0 .. N
  BY KernelAssumption
<1>2. /\ V[0] = {s} /\ \A k \in 0 .. N : V[k] \subseteq Node
      /\ \A k \in 1 .. N : V[k] = V[k - 1] \cup Around(V[k - 1])
  BY DEF IsSearch
<1> DEFINE P == {k \in 0 .. N : \A v \in V[k] : comp[v] = comp[s]}
<1>3. 0 \in P
  BY <1>1, <1>2
<1>4. ASSUME NEW k \in 1 .. N, k - 1 \in P PROVE k \in P
  <2>1. k \in 0 .. N /\ k - 1 \in 0 .. N
    BY <1>1
  <2>2. ASSUME NEW v \in V[k] PROVE comp[v] = comp[s]
    <3>1. CASE v \in V[k - 1]
      BY <1>4, <3>1
    <3>2. CASE v \in Around(V[k - 1])
      <4>1. PICK u \in V[k - 1] : v \in Adjacent(u)
        BY <3>2 DEF Around
      <4>2. u \in Node /\ comp[u] = comp[s]
        BY <1>2, <1>4, <2>1
      <4> QED
        BY <4>1, <4>2, AdjacentFacts
    <3> QED
      BY <1>2, <3>1, <3>2
  <2> QED
    BY <2>1, <2>2
<1> HIDE DEF P
<1>5. N \in P
  BY <1>1, <1>3, <1>4, UpTo
<1> QED
  BY <1>5 DEF P

\* Of the vertices with one label, one is the last.
LEMMA LastOf ==
  ASSUME NEW P \in SUBSET Node, P # {}
  PROVE  \E n \in P : \A m \in P : m <= n
<1>1. N \in Nat /\ Node \subseteq Int
  BY KernelAssumption, NodeType
<1> DEFINE Q == {k \in 0 .. N : (\E n \in P : n < k) => \E n \in P : n < k /\ \A m \in P : m < k => m <= n}
<1>2. 0 \in Q
  BY <1>1, NodeType DEF Node
<1>3. ASSUME NEW k \in 1 .. N, k - 1 \in Q PROVE k \in Q
  <2>1. k \in 0 .. N /\ k \in Nat
    BY <1>1
  <2>2. \A m \in P : m \in Int /\ (m < k <=> m = k - 1 \/ m < k - 1)
    BY <1>1, <2>1
  <2>3. CASE k - 1 \in P
    <3>1. k - 1 < k /\ \A m \in P : m < k => m <= k - 1
      BY <2>1, <2>2
    <3> QED
      BY <2>1, <2>3, <3>1
  <2>4. CASE k - 1 \notin P
    <3>1. \A m \in P : m < k <=> m < k - 1
      BY <2>2, <2>4
    <3> QED
      BY <1>3, <2>1, <3>1
  <2> QED
    BY <2>3, <2>4
<1> HIDE DEF Q
<1>4. N \in Q
  BY <1>1, <1>2, <1>3, UpTo
<1>5. \A m \in P : m < N
  BY <1>1 DEF Node
<1> QED
  BY <1>4, <1>5 DEF Q

LEMMA VerifierPasses ==
  ASSUME CcInv, \A u \in Node : Agree(u)
  PROVE  CCVerifier
<1> DEFINE firsts == {n \in Node : \A m \in Node : comp[m] = comp[n] => m <= n}
<1>1. graph \in Graphs /\ \A n \in Node : comp[n] \in Node /\ Connected(n, comp[n])
  BY CommonTypes DEF CcInv
<1>2. ASSUME NEW s \in Node
      PROVE  /\ \A v \in SearchedFrom(s) : comp[v] = comp[s]
             /\ SearchedFrom(s) \subseteq Node
             /\ s \in SearchedFrom(s) /\ Closed(SearchedFrom(s))
  <2>1. PICK V : IsSearch(s, V) /\ SearchedFrom(s) = V[N]
    BY <1>1, SearchExists
  <2>2. s \in V[N] /\ V[N] \subseteq Node /\ Closed(V[N])
    BY <1>1, <2>1, SearchCloses
  <2>3. \A v \in V[N] : comp[v] = comp[s]
    BY <1>1, <2>1, SearchAgrees
  <2> QED
    BY <2>1, <2>2, <2>3
<1>3. ASSUME NEW v \in Node PROVE \E s \in firsts : v \in SearchedFrom(s)
  <2> DEFINE P == {n \in Node : comp[n] = comp[v]}
  <2>1. PICK s \in P : \A m \in P : m <= s
    <3>1. P \in SUBSET Node /\ v \in P
      OBVIOUS
    <3> HIDE DEF P
    <3> QED
      BY <3>1, LastOf
  <2>2. s \in firsts /\ s \in Node /\ comp[s] = comp[v]
    BY <2>1
  <2>3. Connected(s, comp[v]) /\ Connected(comp[v], v)
    BY <1>1, <2>2, ConnectedSymmetric
  <2>4. SearchedFrom(s) \in SUBSET Node /\ s \in SearchedFrom(s) /\ Closed(SearchedFrom(s))
    BY <1>2, <2>2
  <2>5. v \in SearchedFrom(s)
    BY <2>3, <2>4 DEF Connected
  <2> QED
    BY <2>2, <2>5
<1>4. \A s \in firsts : \A v \in SearchedFrom(s) : comp[v] = comp[s] /\ v \in Node
  BY <1>2
<1>5. UNION {SearchedFrom(s) : s \in firsts} = Node
  BY <1>3, <1>4
<1> QED
  BY <1>4, <1>5 DEF CCVerifier

(* Whatever the schedule, pointers stay within a component, once a loop    *)
(* that shortens has ended every tree has depth 1 (cc.cc:58,               *)
(* cc.cc:118-119), and the labels the kernels return pass CCVerifier       *)
(* (cc.cc:177-217): Afforest's, which never looks at the edges of the      *)
(* component it skips, and Shiloach-Vishkin's, which overwrites hooks of   *)
(* other threads, on every graph.                                          *)
THEOREM ComponentsLabelled == CcSpec => []LabelsComponents
<1>1. CcInv /\ LabelInv => LabelsComponents
  <2> SUFFICES ASSUME CcInv, LabelInv PROVE LabelsComponents
    OBVIOUS
  <2>1. kernel \in {"cc", "cc_sv"}
    BY DEF CcInv
  <2>2. \/ step \in {"pick", "done"}
        \/ step \in {"sample", "hook"} /\ todo = Node
        => \A n \in Node : comp[comp[n]] = comp[n]
    BY DEF LabelInv, FlatInv, Flat
  <2>3. step = "done" => \A u \in Node : Agree(u)
    BY <2>1 DEF LabelInv, PassInv, EndInv
  <2>4. step = "done" => CCVerifier
    BY <2>3, VerifierPasses
  <2>5. PointsWithin
    BY DEF CcInv, PointsWithin
  <2> QED
    BY <2>2, <2>4, <2>5 DEF LabelsComponents
<1> QED
  BY <1>1, CcAlways, LabelsAlways, PTL

-----------------------------------------------------------------------------
(* Rounding *)

\* What is left over by a division.
LEMMA QuotientFacts ==
    ASSUME NEW a \in Nat, NEW k \in Nat \ {0}
    PROVE  a \div k \in Nat /\ k * (a \div k) <= a /\ a < k * (a \div k) + k
  OBVIOUS

LEMMA ApartNat ==
    ASSUME NEW a \in Nat, NEW b \in Nat
    PROVE  /\ Apart(a, b) \in Nat /\ Apart(a, b) = Apart(b, a) /\ Apart(a, a) = 0
           /\ a <= b + Apart(a, b)
  BY DEF Apart

\* Shares of two scores differ, k times, by at most what the scores do and k.
LEMMA SharesApart ==
    ASSUME NEW a \in Nat, NEW b \in Nat, NEW k \in Nat \ {0}
    PROVE  k * Apart(a \div k, b \div k) <= Apart(a, b) + k
<1>1. PICK p, q : p = a \div k /\ q = b \div k
  OBVIOUS
<1>2. /\ p \in Nat /\ k * p <= a /\ a < k * p + k
      /\ q \in Nat /\ k * q <= b /\ b < k * q + k
  BY <1>1, QuotientFacts
<1>3. k * (p - q) = k * p - k * q /\ k * (q - p) = k * q - k * p
  BY <1>2
<1>4. PICK x, y : x = k * p /\ y = k * q
  OBVIOUS
<1>5. x \in Nat /\ y \in Nat
  BY <1>2, <1>4
<1>6. k * Apart(p, q) <= Apart(a, b) + k
  <2>1. CASE p > q
    <3>1. x - y <= Apart(a, b) + k
      BY <1>2, <1>4, <1>5 DEF Apart
    <3> QED
      BY <1>3, <1>4, <2>1, <3>1 DEF Apart
  <2>2. CASE ~(p > q)
    <3>1. y - x <= Apart(a, b) + k
      BY <1>2, <1>4, <1>5 DEF Apart
    <3> QED
      BY <1>3, <1>4, <2>2, <3>1 DEF Apart
  <2> QED
    BY <2>1, <2>2
<1> QED
  BY <1>1, <1>6

\* Damping does not take two totals further apart.
LEMMA DampedApart ==
    ASSUME NEW a \in Nat, NEW b \in Nat
    PROVE  /\ Damped(a) \in Nat
           /\ Apart(Damped(a), Damped(b)) <= Apart(a, b)
<1>0. /\ One \in Nat /\ DampDen \in Nat \ {0} /\ DampNum \in Nat /\ DampNum < DampDen /\ N \in Nat \ {0}
  BY PageRankAssumption, KernelAssumption
<1>1. Base \in Nat
  <2>1. One * (DampDen - DampNum) \in Nat /\ DampDen * N \in Nat \ {0}
    BY <1>0
  <2> QED
    BY <2>1, QuotientFacts DEF Base
<1>2. PICK x, y : x = DampNum * a /\ y = DampNum * b
  OBVIOUS
<1>3. x \in Nat /\ y \in Nat
  BY <1>0, <1>2
<1>4. PICK p, q : p = x \div DampDen /\ q = y \div DampDen
  OBVIOUS
<1>5. /\ p \in Nat /\ DampDen * p <= x /\ x < DampDen * p + DampDen
      /\ q \in Nat /\ DampDen * q <= y /\ y < DampDen * q + DampDen
  BY <1>0, <1>3, <1>4, QuotientFacts
<1>6. /\ a >= b => x - y <= DampDen * (a - b) /\ x >= y
      /\ b >= a => y - x <= DampDen * (b - a) /\ y >= x
  <2>1. ASSUME NEW c \in Nat PROVE DampNum * c <= DampDen * c /\ DampNum * c >= 0
    BY <1>0
  <2>2. a >= b => x - y = DampNum * (a - b) /\ a - b \in Nat
    BY <1>0, <1>2
  <2>3. b >= a => y - x = DampNum * (b - a) /\ b - a \in Nat
    BY <1>0, <1>2
  <2> QED
    BY <1>3, <2>1, <2>2, <2>3
<1>7. ASSUME NEW u \in Nat, NEW v \in Nat, NEW m \in Nat, NEW n \in Nat, NEW d \in Nat,
             u >= v, u - v <= DampDen * d,
             DampDen * m <= u, u < DampDen * m + DampDen,
             DampDen * n <= v, v < DampDen * n + DampDen
      PROVE  m >= n /\ m - n <= d
  <2>1. DampDen * (m - n - d) = DampDen * m - DampDen * n - DampDen * d
    BY <1>0
  <2>2. DampDen * (m - n - d) < DampDen
    BY <1>0, <1>7, <2>1
  <2>3. m - n - d < 1
    BY <1>0, <2>2
  <2>4. DampDen * (n - m) = DampDen * n - DampDen * m
    BY <1>0
  <2>5. DampDen * (n - m) < DampDen
    BY <1>0, <1>7, <2>4
  <2>6. n - m < 1
    BY <1>0, <2>5
  <2> QED
    BY <2>3, <2>6
<1>8. Apart(p, q) <= Apart(a, b)
  <2>1. CASE a >= b
    <3>1. p >= q /\ p - q <= a - b
      BY <1>3, <1>5, <1>6, <1>7, <2>1
    <3> QED
      BY <1>5, <2>1, <3>1 DEF Apart
  <2>2. CASE b >= a
    <3>1. q >= p /\ q - p <= b - a
      BY <1>3, <1>5, <1>6, <1>7, <2>2
    <3> QED
      BY <1>5, <2>2, <3>1 DEF Apart
  <2> QED
    BY <2>1, <2>2
<1>9. Damped(a) = Base + p /\ Damped(b) = Base + q
  BY <1>2, <1>4 DEF Damped
<1> QED
  BY <1>1, <1>5, <1>8, <1>9 DEF Apart

-----------------------------------------------------------------------------
(* The bound of the verifier's error *)

\* The sums of two functions are no further apart than the values.
LEMMA SumApart ==
    ASSUME NEW S, IsFiniteSet(S), NEW f, NEW g, NEW d,
           \A x \in S : f[x] \in Nat, \A x \in S : g[x] \in Nat, \A x \in S : d[x] \in Nat,
           \A x \in S : Apart(f[x], g[x]) <= d[x]
    PROVE  Apart(SumFunctionOnSet(f, S), SumFunctionOnSet(g, S)) <= SumFunctionOnSet(d, S)
<1>1. \A x \in S : f[x] <= g[x] + d[x] /\ g[x] <= f[x] + d[x]
  BY DEF Apart
<1>2. PICK a : a = [x \in S |-> f[x] + d[x]]
  OBVIOUS
<1>3. PICK b : b = [x \in S |-> g[x] + d[x]]
  OBVIOUS
<1>4. /\ \A x \in S : f[x] \in Int /\ d[x] \in Int /\ a[x] = f[x] + d[x]
      /\ \A x \in S : g[x] \in Int /\ d[x] \in Int /\ b[x] = g[x] + d[x]
      /\ \A x \in S : g[x] \in Int /\ a[x] \in Int /\ g[x] <= a[x]
      /\ \A x \in S : f[x] \in Int /\ b[x] \in Int /\ f[x] <= b[x]
  BY <1>1, <1>2, <1>3
<1>5. SumFunctionOnSet(a, S) = SumFunctionOnSet(f, S) + SumFunctionOnSet(d, S)
  BY ONLY IsFiniteSet(S), <1>4, SumPlus
<1>6. SumFunctionOnSet(b, S) = SumFunctionOnSet(g, S) + SumFunctionOnSet(d, S)
  BY ONLY IsFiniteSet(S), <1>4, SumPlus
<1>7. SumFunctionOnSet(g, S) <= SumFunctionOnSet(a, S)
  BY ONLY IsFiniteSet(S), <1>4, SumGrows
<1>8. SumFunctionOnSet(f, S) <= SumFunctionOnSet(b, S)
  BY ONLY IsFiniteSet(S), <1>4, SumGrows
<1>9. SumFunctionOnSet(f, S) \in Nat /\ SumFunctionOnSet(g, S) \in Nat /\ SumFunctionOnSet(d, S) \in Nat
  BY SumNat
<1> QED
  BY <1>5, <1>6, <1>7, <1>8, <1>9 DEF Apart

In(n) == Elems(graph.in[n])

LEMMA InFacts ==
    ASSUME graph \in Graphs
    PROVE  /\ N \in Nat \ {0} /\ Node \subseteq Nat /\ 0 \in Node /\ IsFiniteSet(Node)
           /\ \A n \in Node : /\ graph.in[n] \in Seq(Node) /\ IsInjective(graph.in[n])
                              /\ In(n) \subseteq Node /\ IsFiniteSet(In(n))
                              /\ graph.out[n] \in Seq(Node)
                              /\ Elems(graph.out[n]) \subseteq Node
                              /\ \A i \in Node : /\ i \in In(n) <=> Edge(graph, i, n)
                                                 /\ Edge(graph, i, n) => graph.out[i] # <<>>
<1>1. /\ graph.out \in [Node -> Seq(Node)] /\ graph.in \in [Node -> Seq(Node)]
      /\ Inverted(graph) /\ NoRepetition(graph)
  BY KernelAssumption DEF Graph
<1>2. N \in Nat \ {0} /\ Node \subseteq Nat /\ 0 \in Node /\ IsFiniteSet(Node)
  BY KernelAssumption, FS_Interval DEF Node
<1>3. \A s \in Seq(Node) : Elems(s) \subseteq Node
  BY DEF Elems
<1>4. ASSUME NEW n \in Node
      PROVE  /\ graph.in[n] \in Seq(Node) /\ IsInjective(graph.in[n])
             /\ In(n) \subseteq Node /\ IsFiniteSet(In(n))
             /\ graph.out[n] \in Seq(Node)
             /\ Elems(graph.out[n]) \subseteq Node
  BY <1>1, <1>2, <1>3, FS_Subset DEF In, NoRepetition
<1>5. ASSUME NEW n \in Node, NEW i \in Node
      PROVE  /\ i \in In(n) <=> Edge(graph, i, n)
             /\ Edge(graph, i, n) => graph.out[i] # <<>>
  <2>1. i \in In(n) <=> Edge(graph, i, n)
    BY <1>1 DEF In, Inverted
  <2>2. ASSUME graph.out[i] = <<>> PROVE Elems(graph.out[i]) = {}
    BY <2>2 DEF Elems
  <2> QED
    BY <2>1, <2>2 DEF Edge
<1> QED
  BY <1>2, <1>4, <1>5

\* A list has at most as many elements as places.
LEMMA ElemsCount ==
    ASSUME NEW s \in Seq(Node)
    PROVE  Cardinality(Elems(s)) \in Nat /\ Cardinality(Elems(s)) <= Len(s)
<1>0. PICK n : n = Len(s)
  OBVIOUS
<1>1. n \in Nat /\ IsFiniteSet(1 .. n) /\ Cardinality(1 .. n) = n /\ DOMAIN s = 1 .. n
  <2>1. n \in Nat /\ DOMAIN s = 1 .. n
    BY <1>0
  <2>2. IsFiniteSet(1 .. n) /\ Cardinality(1 .. n) = n
    BY <2>1, FS_Interval
  <2> QED
    BY <2>1, <2>2
<1>2. PICK f : f = [i \in 1 .. n |-> s[i]]
  OBVIOUS
<1>3. f \in Surjection(1 .. n, Elems(s))
  BY <1>1, <1>2 DEF Surjection, Elems
<1>4. IsFiniteSet(Elems(s)) /\ Cardinality(Elems(s)) <= Cardinality(1 .. n)
  BY <1>1, <1>3, FS_Surjection
<1> QED
  BY <1>0, <1>1, <1>4, FS_CardinalityType

\* How far the contribution of i moved, where it has any.
Moved(old, i) == IF graph.out[i] = <<>> THEN 0 ELSE Apart(Outgoing(i, old[i]), Outgoing(i, ranks[i]))

\* Each contribution comes from an old score or from a new one.
Mixed(old, c, S) == \A i \in S : c[i] = Outgoing(i, old[i]) \/ c[i] = Outgoing(i, ranks[i])

\* The score of n was computed in this iteration.
Computed(old, n) ==
  \E c \in [Node -> Int] : Mixed(old, c, In(n)) /\ ranks[n] = Damped(SumFunctionOnSet(c, In(n)))

Change(old) == SumFunctionOnSet([n \in Node |-> Apart(ranks[n], old[n])], Node)

\* The contributions that count are numbers.
LEMMA MovedFacts ==
    ASSUME graph \in Graphs, ranks \in [Node -> Nat], NEW old \in [Node -> Nat], NEW i \in Node
    PROVE  /\ Moved(old, i) \in Nat
           /\ graph.out[i] # <<>> =>
                /\ Outgoing(i, old[i]) \in Nat /\ Outgoing(i, ranks[i]) \in Nat
                /\ Len(graph.out[i]) * Moved(old, i) <= Apart(ranks[i], old[i]) + Len(graph.out[i])
<1>1. CASE graph.out[i] = <<>>
  BY <1>1 DEF Moved
<1>2. CASE graph.out[i] # <<>>
  <2>1. PICK k, a, b : k = Len(graph.out[i]) /\ a = ranks[i] /\ b = old[i]
    OBVIOUS
  <2>2. k \in Nat \ {0} /\ a \in Nat /\ b \in Nat
    BY <1>2, <2>1, InFacts
  <2>3. Outgoing(i, ranks[i]) = a \div k /\ Outgoing(i, old[i]) = b \div k
    BY <1>2, <2>1 DEF Outgoing
  <2>4. a \div k \in Nat /\ b \div k \in Nat
    BY <2>2, QuotientFacts
  <2>5. k * Apart(a \div k, b \div k) <= Apart(a, b) + k
    BY <2>2, SharesApart
  <2>6. Moved(old, i) = Apart(a \div k, b \div k) /\ Moved(old, i) \in Nat
    BY <1>2, <2>3, <2>4, ApartNat DEF Moved
  <2> QED
    BY <2>1, <2>3, <2>4, <2>5, <2>6
<1> QED
  BY <1>1, <1>2

\* The error of one more iteration at n, if n was computed in this one.
LEMMA OneMore ==
    ASSUME graph \in Graphs, ranks \in [Node -> Nat], NEW old \in [Node -> Nat],
           NEW n \in Node, Computed(old, n), NEW b,
           b = [u \in Node |-> IF Edge(graph, u, n) THEN Outgoing(u, ranks[u]) ELSE 0]
    PROVE  /\ Damped(SumFunctionOnSet(b, Node)) \in Nat
           /\ Apart(Damped(SumFunctionOnSet(b, Node)), ranks[n])
                <= SumFunctionOnSet([i \in Node |-> Moved(old, i)], In(n))
<1>1. PICK c \in [Node -> Int] : Mixed(old, c, In(n)) /\ ranks[n] = Damped(SumFunctionOnSet(c, In(n)))
  BY DEF Computed
<1>2. PICK d : d = [i \in Node |-> Moved(old, i)]
  OBVIOUS
<1>3. /\ IsFiniteSet(Node) /\ In(n) \subseteq Node /\ IsFiniteSet(In(n))
      /\ \A i \in Node : /\ i \in In(n) <=> Edge(graph, i, n)
                         /\ i \in In(n) => graph.out[i] # <<>>
  BY InFacts
<1>13. \A u \in Node : /\ Edge(graph, u, n) => b[u] = Outgoing(u, ranks[u])
                       /\ ~Edge(graph, u, n) => b[u] = 0
  <2>1. ASSUME NEW u \in Node
        PROVE  b[u] = IF Edge(graph, u, n) THEN Outgoing(u, ranks[u]) ELSE 0
    OBVIOUS
  <2> QED
    BY <2>1
<1>14. \A u \in Node : d[u] = Moved(old, u)
  BY <1>2
<1>4. ASSUME NEW i \in In(n)
      PROVE  b[i] \in Nat /\ c[i] \in Nat /\ d[i] \in Nat /\ Apart(b[i], c[i]) <= d[i]
  <2>1. i \in Node /\ graph.out[i] # <<>> /\ b[i] = Outgoing(i, ranks[i]) /\ d[i] = Moved(old, i)
    <3>1. i \in Node
      BY ONLY <1>3
    <3>2. graph.out[i] # <<>> /\ Edge(graph, i, n)
      BY ONLY <1>3, <3>1
    <3> QED
      BY ONLY <1>13, <1>14, <3>1, <3>2
  <2>2. Outgoing(i, old[i]) \in Nat /\ Outgoing(i, ranks[i]) \in Nat /\ d[i] \in Nat
    BY <2>1, MovedFacts
  <2>3. d[i] = Apart(Outgoing(i, old[i]), Outgoing(i, ranks[i]))
    BY <2>1 DEF Moved
  <2>4. c[i] = Outgoing(i, old[i]) \/ c[i] = Outgoing(i, ranks[i])
    BY <1>1 DEF Mixed
  <2> QED
    BY <2>1, <2>2, <2>3, <2>4 DEF Apart
<1>5. \A i \in Node : b[i] \in Nat /\ (i \notin In(n) => b[i] = 0)
  <2>1. ASSUME NEW i \in Node, i \notin In(n) PROVE b[i] = 0
    BY ONLY <1>3, <1>13, <2>1
  <2> QED
    BY ONLY <1>4, <2>1
<1>6. SumFunctionOnSet(b, Node) = SumFunctionOnSet(b, In(n))
  <2>1. (\A i \in Node : b[i] \in Int) /\ \A i \in Node \ In(n) : b[i] = 0
    BY <1>5
  <2> QED
    BY ONLY <1>3, <2>1, SumWithin
<1>7. Apart(SumFunctionOnSet(b, In(n)), SumFunctionOnSet(c, In(n))) <= SumFunctionOnSet(d, In(n))
  BY ONLY <1>3, <1>4, SumApart
<1>8. /\ SumFunctionOnSet(b, In(n)) \in Nat /\ SumFunctionOnSet(c, In(n)) \in Nat
      /\ SumFunctionOnSet(d, In(n)) \in Nat
  BY ONLY <1>3, <1>4, SumNat
<1>9. PICK x, y : x = SumFunctionOnSet(b, In(n)) /\ y = SumFunctionOnSet(c, In(n))
  OBVIOUS
<1>10. /\ Damped(x) \in Nat /\ Damped(y) \in Nat
       /\ Apart(Damped(x), Damped(y)) <= Apart(x, y)
  BY <1>8, <1>9, DampedApart
<1>11. Apart(x, y) <= SumFunctionOnSet(d, In(n)) /\ Apart(x, y) \in Nat /\ Apart(Damped(x), Damped(y)) \in Nat
  BY <1>7, <1>8, <1>9, <1>10, ApartNat
<1>12. Apart(Damped(x), Damped(y)) <= SumFunctionOnSet(d, In(n))
  BY <1>8, <1>10, <1>11
<1> QED
  BY <1>1, <1>2, <1>6, <1>9, <1>10, <1>12

\* What i contributes to all errors: its move, once for each edge.
LEMMA ColumnBounded ==
    ASSUME graph \in Graphs, ranks \in [Node -> Nat], NEW old \in [Node -> Nat], NEW i \in Node,
           NEW f, \A n \in Node : f[n] = IF n \in Elems(graph.out[i]) THEN Moved(old, i) ELSE 0
    PROVE  /\ \A n \in Node : f[n] \in Nat
           /\ SumFunctionOnSet(f, Node) \in Nat
           /\ SumFunctionOnSet(f, Node) <= Apart(ranks[i], old[i]) + Len(graph.out[i])
<1>1. PICK m, s, T : m = Moved(old, i) /\ s = graph.out[i] /\ T = Elems(s)
  OBVIOUS
<1>2. /\ m \in Nat /\ s \in Seq(Node) /\ T \subseteq Node /\ IsFiniteSet(Node) /\ Len(s) \in Nat
      /\ Apart(ranks[i], old[i]) \in Nat
      /\ s # <<>> => Len(s) * m <= Apart(ranks[i], old[i]) + Len(s)
  <2>1. m \in Nat /\ (s # <<>> => Len(s) * m <= Apart(ranks[i], old[i]) + Len(s))
    BY <1>1, MovedFacts
  <2>2. s \in Seq(Node) /\ T \subseteq Node /\ IsFiniteSet(Node)
    BY <1>1, InFacts
  <2>3. Apart(ranks[i], old[i]) \in Nat
    BY ApartNat
  <2> QED
    BY <2>1, <2>2, <2>3
<1>3. /\ \A n \in Node : f[n] \in Nat /\ f[n] \in Int
      /\ \A n \in T : f[n] = m
      /\ \A n \in Node \ T : f[n] = 0
  <2>1. \A n \in Node : f[n] = IF n \in T THEN m ELSE 0
    BY <1>1
  <2> QED
    BY ONLY <1>2, <2>1
<1>4. IsFiniteSet(T)
  BY <1>2, FS_Subset
<1>5. SumFunctionOnSet(f, Node) = SumFunctionOnSet(f, T)
  BY ONLY <1>2, <1>3, SumWithin
<1>6. SumFunctionOnSet(f, T) = Cardinality(T) * m
  <2>1. m \in Int
    BY <1>2
  <2> QED
    BY ONLY <2>1, <1>3, <1>4, SumEqual
<1>7. PICK k, c : k = Len(s) /\ c = Cardinality(T)
  OBVIOUS
<1>8. k \in Nat /\ c \in Nat /\ c <= k
  BY <1>1, <1>2, <1>7, ElemsCount
<1>9. c * m <= k * m /\ c * m \in Nat
  <2>1. (k - c) * m = k * m - c * m /\ (k - c) * m >= 0 /\ c * m \in Nat /\ k * m \in Nat
    BY <1>2, <1>8
  <2> QED
    BY <2>1
<1>10. c * m <= Apart(ranks[i], old[i]) + k
  <2>1. CASE s = <<>>
    <3>1. k = 0
      BY <1>7, <2>1
    <3>2. c = 0
      BY <1>8, <3>1
    <3> QED
      BY <1>2, <3>1, <3>2
  <2>2. CASE s # <<>>
    <3>1. k * m <= Apart(ranks[i], old[i]) + k
      BY <1>2, <1>7, <2>2
    <3>2. PICK x, y, z : x = c * m /\ y = k * m /\ z = Apart(ranks[i], old[i])
      OBVIOUS
    <3>3. x \in Nat /\ y \in Nat /\ z \in Nat /\ x <= y /\ y <= z + k
      BY <1>2, <1>8, <1>9, <3>1, <3>2
    <3>4. x <= z + k
      BY ONLY <1>8, <3>3
    <3> QED
      BY ONLY <3>2, <3>4
  <2> QED
    BY <2>1, <2>2
<1> QED
  BY <1>1, <1>3, <1>5, <1>6, <1>7, <1>9, <1>10

\* The error of one more iteration is at most the change of the last one,
\* and what is rounded off.
LEMMA ErrorBounded ==
    ASSUME graph \in Graphs, ranks \in [Node -> Nat], NEW old \in [Node -> Nat],
           \A n \in Node : Computed(old, n)
    PROVE  /\ VerifierError <= Change(old) + Rounding
           /\ VerifierError \in Int /\ Change(old) \in Int /\ Rounding \in Int
<1> DEFINE b(n) == [u \in Node |-> IF Edge(graph, u, n) THEN Outgoing(u, ranks[u]) ELSE 0]
           e == [n \in Node |-> Apart(Damped(SumFunctionOnSet(b(n), Node)), ranks[n])]
           move == [i \in Node |-> Moved(old, i)]
           F == [x \in Node \X Node |-> IF x[1] \in Elems(graph.out[x[2]]) THEN Moved(old, x[2]) ELSE 0]
           Row(n) == [i \in Node |-> F[<<n, i>>]]
           Column(i) == [n \in Node |-> F[<<n, i>>]]
           rows == [n \in Node |-> SumFunctionOnSet(Row(n), Node)]
           columns == [i \in Node |-> SumFunctionOnSet(Column(i), Node)]
           moves == [n \in Node |-> Apart(ranks[n], old[n])]
           degree == [u \in Node |-> Len(graph.out[u])]
           both == [i \in Node |-> moves[i] + degree[i]]
<1>1. VerifierError = SumFunctionOnSet(e, Node)
  BY DEF VerifierError
<1>2. /\ IsFiniteSet(Node)
      /\ \A n \in Node : In(n) \subseteq Node /\ IsFiniteSet(In(n))
      /\ \A n, i \in Node : i \in In(n) <=> n \in Elems(graph.out[i])
  BY InFacts DEF Edge
<1>3. \A n, i \in Node : F[<<n, i>>] = IF n \in Elems(graph.out[i]) THEN Moved(old, i) ELSE 0
  OBVIOUS
<1>4. \A i \in Node : move[i] = Moved(old, i) /\ move[i] \in Nat
  BY MovedFacts
<1>5. \A n, i \in Node : Row(n)[i] = F[<<n, i>>] /\ Column(i)[n] = F[<<n, i>>]
  OBVIOUS
<1>6. \A n, i \in Node : F[<<n, i>>] \in Int
  <2>1. \A i \in Node : Moved(old, i) \in Int
    BY MovedFacts
  <2> HIDE DEF F
  <2>2. ASSUME NEW n \in Node, NEW i \in Node PROVE F[<<n, i>>] \in Int
    <3>1. PICK m : m = Moved(old, i)
      OBVIOUS
    <3>2. m \in Int
      BY <2>1, <3>1
    <3>3. F[<<n, i>>] = m \/ F[<<n, i>>] = 0
      BY <1>3, <3>1
    <3> QED
      BY ONLY <3>2, <3>3
  <2> QED
    BY <2>2
<1>7. \A i \in Node : moves[i] \in Nat /\ degree[i] \in Nat /\ both[i] = moves[i] + degree[i]
  <2>1. ASSUME NEW i \in Node PROVE Apart(ranks[i], old[i]) \in Nat /\ Len(graph.out[i]) \in Nat
    <3>1. ranks[i] \in Nat /\ old[i] \in Nat
      OBVIOUS
    <3>2. graph.out[i] \in Seq(Node)
      BY InFacts
    <3>3. Apart(ranks[i], old[i]) \in Nat
      BY ONLY <3>1, ApartNat
    <3>4. Len(graph.out[i]) \in Nat
      BY ONLY <3>2
    <3> QED
      BY <3>3, <3>4
  <2> QED
    BY <2>1
<1>8. \A n \in Node : e[n] \in Int /\ rows[n] \in Int /\ e[n] <= rows[n]
  <2>1. ASSUME NEW n \in Node
        PROVE  e[n] \in Int /\ rows[n] \in Int /\ e[n] <= rows[n]
    <3>1. PICK r : r = Row(n)
      OBVIOUS
    <3>2. rows[n] = SumFunctionOnSet(r, Node)
      BY <3>1
    <3>3. PICK g : g = b(n)
      OBVIOUS
    <3>4. g = [u \in Node |-> IF Edge(graph, u, n) THEN Outgoing(u, ranks[u]) ELSE 0]
      BY <3>3
    <3>5. e[n] = Apart(Damped(SumFunctionOnSet(g, Node)), ranks[n])
      BY <3>3
    <3>6. /\ Damped(SumFunctionOnSet(g, Node)) \in Nat
          /\ Apart(Damped(SumFunctionOnSet(g, Node)), ranks[n]) <= SumFunctionOnSet([i \in Node |-> Moved(old, i)], In(n))
      BY <3>4, OneMore
    <3>7. e[n] \in Int /\ e[n] <= SumFunctionOnSet(move, In(n))
      <4>1. ranks[n] \in Nat
        OBVIOUS
      <4>2. Apart(Damped(SumFunctionOnSet(g, Node)), ranks[n]) \in Nat
        BY <3>6, <4>1, ApartNat
      <4> QED
        BY <3>5, <3>6, <4>2
    <3>8. \A i \in Node : r[i] = IF n \in Elems(graph.out[i]) THEN Moved(old, i) ELSE 0
      BY <1>3, <1>5, <3>1
    <3> HIDE DEF move, F, Row, rows, e, b, Column
    <3>9. /\ \A i \in Node : r[i] \in Int
          /\ \A i \in Node \ In(n) : r[i] = 0
          /\ \A i \in In(n) : move[i] \in Int /\ r[i] = move[i]
      BY <1>2, <1>4, <3>8
    <3>10. SumFunctionOnSet(r, Node) = SumFunctionOnSet(r, In(n))
      BY ONLY <1>2, <3>9, n \in Node, SumWithin
    <3>11. SumFunctionOnSet(r, In(n)) = SumFunctionOnSet(move, In(n))
      BY ONLY <1>2, <3>9, n \in Node, SumSame
    <3>12. SumFunctionOnSet(r, Node) \in Int
      BY ONLY <1>2, <3>9, SumSplit
    <3> QED
      BY <3>2, <3>7, <3>10, <3>11, <3>12
  <2> QED
    BY <2>1
<1>9. \A i \in Node : columns[i] \in Int /\ both[i] \in Int /\ columns[i] <= both[i]
  <2>1. ASSUME NEW i \in Node
        PROVE  columns[i] \in Int /\ both[i] \in Int /\ columns[i] <= both[i]
    <3>1. PICK f : f = Column(i)
      OBVIOUS
    <3>2. columns[i] = SumFunctionOnSet(f, Node)
      BY <3>1
    <3>3. \A n \in Node : f[n] = IF n \in Elems(graph.out[i]) THEN Moved(old, i) ELSE 0
      BY <1>3, <1>5, <3>1
    <3>4. /\ SumFunctionOnSet(f, Node) \in Nat
          /\ SumFunctionOnSet(f, Node) <= Apart(ranks[i], old[i]) + Len(graph.out[i])
      BY <3>3, ColumnBounded
    <3>5. both[i] = Apart(ranks[i], old[i]) + Len(graph.out[i]) /\ both[i] \in Int
      BY <1>7
    <3> QED
      BY <3>2, <3>4, <3>5
  <2> QED
    BY <2>1
<1>10. SumFunctionOnSet(rows, Node) = SumFunctionOnSet(columns, Node)
  <2> HIDE DEF F
  <2>1. PICK V, G : V = Node /\ G = F
    OBVIOUS
  <2>2. IsFiniteSet(V) /\ \A n \in V : \A i \in V : G[<<n, i>>] \in Int
    BY ONLY <1>2, <1>6, <2>1
  <2>3. SumFunctionOnSet([n \in V |-> SumFunctionOnSet([i \in V |-> G[<<n, i>>]], V)], V)
          = SumFunctionOnSet([i \in V |-> SumFunctionOnSet([n \in V |-> G[<<n, i>>]], V)], V)
    BY ONLY <2>2, SumExchange
  <2> QED
    BY ONLY <2>1, <2>3 DEF rows, columns, Row, Column
<1>11. Change(old) = SumFunctionOnSet(moves, Node) /\ Rounding = SumFunctionOnSet(degree, Node)
  BY DEF Change, Rounding, NumEdgesDirected
<1> HIDE DEF b, e, move, F, Row, Column, rows, columns, moves, degree, both
<1>12. SumFunctionOnSet(e, Node) <= SumFunctionOnSet(rows, Node)
  BY ONLY <1>2, <1>8, SumGrows
<1>13. SumFunctionOnSet(columns, Node) <= SumFunctionOnSet(both, Node)
  BY ONLY <1>2, <1>9, SumGrows
<1>14. SumFunctionOnSet(both, Node) = SumFunctionOnSet(moves, Node) + SumFunctionOnSet(degree, Node)
  <2>1. \A i \in Node : moves[i] \in Int /\ degree[i] \in Int /\ both[i] = moves[i] + degree[i]
    BY <1>7
  <2> QED
    BY ONLY <1>2, <2>1, SumPlus
<1>15. /\ SumFunctionOnSet(e, Node) \in Int /\ SumFunctionOnSet(rows, Node) \in Int
       /\ SumFunctionOnSet(columns, Node) \in Int /\ SumFunctionOnSet(both, Node) \in Int
  BY ONLY <1>2, <1>8, <1>9, SumSplit
<1>16. SumFunctionOnSet(moves, Node) \in Int /\ SumFunctionOnSet(degree, Node) \in Int
  <2>1. (\A i \in Node : moves[i] \in Int) /\ \A i \in Node : degree[i] \in Int
    BY <1>7
  <2> QED
    BY ONLY <1>2, <2>1, SumSplit
<1> QED
  BY <1>1, <1>10, <1>11, <1>12, <1>13, <1>14, <1>15, <1>16

-----------------------------------------------------------------------------
(* The chunks *)

\* The vertices of a chunk from u on.
RestOfChunk(u) == {v \in Node : u <= v /\ \A w \in u + 1 .. v : w \notin FirstOfChunks}

LEMMA RestOfChunkFacts ==
    ASSUME NEW u \in Node
    PROVE  /\ u \in RestOfChunk(u) /\ RestOfChunk(u) \subseteq Node
           /\ u + 1 \in Node \ FirstOfChunks => RestOfChunk(u) = {u} \cup RestOfChunk(u + 1) /\ u \notin RestOfChunk(u + 1)
           /\ u + 1 \notin Node \ FirstOfChunks => RestOfChunk(u) = {u}
<1>1. N \in Nat \ {0} /\ Node = 0 .. N - 1
  BY KernelAssumption DEF Node
<1>2. PICK n : n = u + 1
  OBVIOUS
<1>3. n \in Nat /\ u \in Nat /\ n = u + 1
  BY <1>1, <1>2
<1>4. u \in RestOfChunk(u) /\ RestOfChunk(u) \subseteq Node /\ u \notin RestOfChunk(n)
  BY <1>1, <1>3 DEF RestOfChunk
<1>5. ASSUME NEW v \in RestOfChunk(u), v # u
      PROVE  v \in RestOfChunk(n) /\ n \in Node \ FirstOfChunks
  <2>1. v \in Node /\ u <= v /\ \A w \in n .. v : w \notin FirstOfChunks
    BY <1>3, <1>5 DEF RestOfChunk
  <2>2. v \in Nat /\ n <= v /\ n \in Node
    BY <1>1, <1>3, <1>5, <2>1
  <2>3. n \in n .. v
    BY <1>3, <2>2
  <2>4. \A w \in n + 1 .. v : w \in n .. v
    BY <1>3, <2>2
  <2> QED
    BY <2>1, <2>2, <2>3, <2>4 DEF RestOfChunk
<1>6. ASSUME n \in Node \ FirstOfChunks, NEW v \in RestOfChunk(n) PROVE v \in RestOfChunk(u)
  <2>1. v \in Node /\ n <= v /\ \A w \in n + 1 .. v : w \notin FirstOfChunks
    BY <1>6 DEF RestOfChunk
  <2>2. v \in Nat /\ u <= v
    BY <1>1, <1>3, <2>1
  <2>3. \A w \in n .. v : w = n \/ w \in n + 1 .. v
    BY <1>3, <2>2
  <2>4. \A w \in u + 1 .. v : w \notin FirstOfChunks
    BY <1>3, <1>6, <2>1, <2>3
  <2> QED
    BY <2>1, <2>2, <2>4 DEF RestOfChunk
<1>7. n \in Node \ FirstOfChunks => RestOfChunk(u) = {u} \cup RestOfChunk(n) /\ u \notin RestOfChunk(n)
  BY <1>4, <1>5, <1>6
<1>8. n \notin Node \ FirstOfChunks => RestOfChunk(u) = {u}
  BY <1>4, <1>5
<1> QED
  BY <1>2, <1>4, <1>7, <1>8

\* The chunks are disjoint, and hold every vertex.
LEMMA ChunksApart ==
    /\ FirstOfChunks \subseteq Node
    /\ \A c, d \in FirstOfChunks : c # d => RestOfChunk(c) \cap RestOfChunk(d) = {}
    /\ \A v \in Node : \E c \in FirstOfChunks : v \in RestOfChunk(c)
<1>1. N \in Nat \ {0} /\ Node = 0 .. N - 1 /\ PullChunk \in Nat \ {0} /\ FirstOfChunks \subseteq Node
  BY KernelAssumption, PageRankAssumption DEF Node, FirstOfChunks
<1>2. ASSUME NEW c \in FirstOfChunks, NEW d \in FirstOfChunks, c < d PROVE RestOfChunk(c) \cap RestOfChunk(d) = {}
  <2>1. ASSUME NEW v \in RestOfChunk(c) \cap RestOfChunk(d) PROVE FALSE
    <3>1. v \in Node /\ d <= v /\ \A w \in c + 1 .. v : w \notin FirstOfChunks
      BY <2>1 DEF RestOfChunk
    <3>2. d \in c + 1 .. v
      BY <1>1, <1>2, <3>1
    <3> QED
      BY <3>1, <3>2
  <2> QED
    BY <2>1
<1>3. \A c, d \in FirstOfChunks : c # d => RestOfChunk(c) \cap RestOfChunk(d) = {}
  <2>1. ASSUME NEW c \in FirstOfChunks, NEW d \in FirstOfChunks, c # d PROVE RestOfChunk(c) \cap RestOfChunk(d) = {}
    <3>1. c < d \/ d < c
      BY <1>1, <2>1
    <3>2. CASE c < d
      BY <1>2, <3>2
    <3>3. CASE d < c
      <4>1. RestOfChunk(d) \cap RestOfChunk(c) = {}
        BY <1>2, <3>3
      <4> QED
        BY <4>1
    <3> QED
      BY <3>1, <3>2, <3>3
  <2> QED
    BY <2>1
<1> DEFINE P == {v \in Node : \E c \in FirstOfChunks : v \in RestOfChunk(c)}
<1>4. 0 \in P
  <2>1. 0 \in FirstOfChunks
    BY <1>1 DEF FirstOfChunks
  <2>2. 0 \in RestOfChunk(0)
    BY <1>1, RestOfChunkFacts
  <2> QED
    BY <1>1, <2>1, <2>2
<1>5. ASSUME NEW v \in 1 .. N - 1, v - 1 \in P PROVE v \in P
  <2>1. v \in Node /\ v \in Nat
    BY <1>1
  <2>2. CASE v \in FirstOfChunks
    BY <2>1, <2>2, RestOfChunkFacts
  <2>3. CASE v \notin FirstOfChunks
    <3>1. PICK c \in FirstOfChunks : v - 1 \in RestOfChunk(c)
      BY <1>5
    <3>2. /\ c \in Nat /\ c <= v - 1
          /\ \A w \in c + 1 .. v - 1 : w \notin FirstOfChunks
      BY <1>1, <3>1 DEF RestOfChunk
    <3>3. \A w \in c + 1 .. v : w = v \/ w \in c + 1 .. v - 1
      BY <2>1, <3>2
    <3>4. c <= v
      BY <2>1, <3>2
    <3>5. v \in RestOfChunk(c)
      BY <2>1, <2>3, <3>2, <3>3, <3>4 DEF RestOfChunk
    <3> QED
      BY <2>1, <3>5
  <2> QED
    BY <2>2, <2>3
<1> HIDE DEF P
<1>6. PICK m : m = N - 1
  OBVIOUS
<1>7. m \in Nat /\ \A k \in 1 .. m : k - 1 \in P => k \in P
  BY <1>1, <1>5, <1>6
<1>8. \A k \in 0 .. m : k \in P
  BY ONLY <1>4, <1>7, UpTo
<1> QED
  BY <1>1, <1>3, <1>6, <1>8 DEF P

-----------------------------------------------------------------------------
(* The inductive invariant *)

\* The vertices whose turn is next, of chunks nobody has and of the threads.
Heads == todo \cup {thread[t].u : t \in {s \in Threads : thread[s] # Idle}}

\* The vertices that have not been computed yet in this iteration.
Uncomputed == UNION {RestOfChunk(h) : h \in Heads}

\* A thread at a vertex has added up the contributions of some of those that
\* have an edge to it, once each.
AddsUp(old, th) ==
  /\ th.u \in Node
  /\ th.rest \in Seq(Node) /\ IsInjective(th.rest) /\ Elems(th.rest) \subseteq In(th.u)
  /\ th.at = IF th.rest = <<>> THEN "store" ELSE "pull"
  /\ \E c \in [Node -> Int] : /\ Mixed(old, c, In(th.u) \ Elems(th.rest))
                              /\ th.total = SumFunctionOnSet(c, In(th.u) \ Elems(th.rest))

\* No vertex is left to two: each head has vertices of its own, and one owner.
Apportioned ==
  /\ todo \subseteq FirstOfChunks
  /\ \A t \in Threads : thread[t] # Idle => thread[t].u \notin todo
  /\ \A s, t \in Threads : s # t /\ thread[s] # Idle /\ thread[t] # Idle => thread[s].u # thread[t].u
  /\ \A g, h \in Heads : g # h => RestOfChunk(g) \cap RestOfChunk(h) = {}

\* The scores, where old ones are those this iteration began with.
Scored(old) ==
  /\ \A n \in Uncomputed : ranks[n] = old[n]
  /\ \A n \in Node \ Uncomputed : Computed(old, n)
  /\ \A n \in Node : contrib[n] = Outgoing(n, IF kernel = "pr" THEN ranks[n] ELSE old[n])
  /\ error = Change(old)

PullInv(old) ==
  /\ \A t \in Threads : thread[t] = Idle \/ AddsUp(old, thread[t])
  /\ Apportioned
  /\ Scored(old)

ContributeInv ==
  /\ kernel = "pr_spmv" /\ NoneAtWork /\ error = 0
  /\ todo \subseteq Node
  /\ \A n \in Node \ todo : contrib[n] = Outgoing(n, ranks[n])

ReturnedInv ==
  /\ todo = {} /\ NoneAtWork
  /\ \E old \in [Node -> Nat] : (\A n \in Node : Computed(old, n)) /\ error = Change(old)

PrTypes ==
  /\ kernel \in {"pr", "pr_spmv"} /\ graph \in Graphs
  /\ ranks \in [Node -> Nat] /\ contrib \in [Node -> Nat \cup {Infinite}]
  /\ DOMAIN thread = Threads
  /\ error \in Nat /\ turn \in 0 .. MaxIters - 1

PrInv ==
  /\ PrTypes
  /\ \/ step = "contribute" /\ ContributeInv
     \/ step = "pull" /\ \E old \in [Node -> Nat] : PullInv(old)
     \/ step = "done" /\ ReturnedInv

-----------------------------------------------------------------------------
LEMMA OutgoingType ==
    ASSUME graph \in Graphs, NEW n \in Node, NEW x \in Nat
    PROVE  /\ Outgoing(n, x) \in Nat \cup {Infinite} /\ Outgoing(n, x) \in Int
           /\ graph.out[n] # <<>> => Outgoing(n, x) \in Nat /\ Outgoing(n, x) # Infinite
<1>1. Infinite \in Int /\ \A q \in Nat : q # Infinite /\ q \in Int
  BY DEF Infinite
<1>2. CASE graph.out[n] = <<>>
  BY <1>1, <1>2 DEF Outgoing
<1>3. CASE graph.out[n] # <<>>
  <2>1. PICK q, k : q = x \div k /\ k = Len(graph.out[n])
    OBVIOUS
  <2>2. k \in Nat \ {0}
    BY <1>3, <2>1, InFacts
  <2>3. q \in Nat /\ Outgoing(n, x) = q
    BY <1>3, <2>1, <2>2, QuotientFacts DEF Outgoing
  <2> QED
    BY <1>1, <2>3
<1> QED
  BY <1>2, <1>3

\* A sum of contributions is a number.
LEMMA MixedNat ==
    ASSUME graph \in Graphs, ranks \in [Node -> Nat], NEW old \in [Node -> Nat],
           NEW n \in Node, NEW S \in SUBSET In(n), NEW c, Mixed(old, c, S)
    PROVE  SumFunctionOnSet(c, S) \in Nat
<1>1. In(n) \subseteq Node /\ IsFiniteSet(In(n)) /\ \A i \in Node : i \in In(n) => graph.out[i] # <<>>
  BY InFacts
<1>2. IsFiniteSet(S)
  BY <1>1, FS_Subset
<1>3. ASSUME NEW i \in S PROVE c[i] \in Nat
  <2>1. i \in Node /\ graph.out[i] # <<>> /\ old[i] \in Nat /\ ranks[i] \in Nat
    BY <1>1
  <2>2. Outgoing(i, old[i]) \in Nat /\ Outgoing(i, ranks[i]) \in Nat
    BY <2>1, OutgoingType
  <2> QED
    BY <2>2 DEF Mixed
<1> QED
  BY ONLY <1>2, <1>3, SumNat

\* The head of a list without repetitions is not in its tail.
LEMMA InTail ==
    ASSUME NEW s \in Seq(Node), s # <<>>, IsInjective(s)
    PROVE  /\ Head(s) \in Node /\ Tail(s) \in Seq(Node) /\ IsInjective(Tail(s))
           /\ Head(s) \notin Elems(Tail(s)) /\ Elems(s) = Elems(Tail(s)) \cup {Head(s)}
<1>1. PICK h, r : h = Head(s) /\ r = Tail(s)
  OBVIOUS
<1>2. /\ h = s[1] /\ r \in Seq(Node) /\ Len(r) = Len(s) - 1 /\ Len(s) \in Nat /\ Len(s) > 0
      /\ DOMAIN s = 1 .. Len(s) /\ DOMAIN r = 1 .. Len(r)
      /\ \A i \in 1 .. Len(r) : r[i] = s[i + 1]
  BY <1>1
<1>3. 1 \in DOMAIN s /\ \A i \in DOMAIN r : i + 1 \in DOMAIN s /\ i + 1 # 1 /\ r[i] = s[i + 1]
  BY <1>2
<1>4. h \in Node
  BY <1>2, <1>3
<1>5. \A a, b \in DOMAIN s : s[a] = s[b] => a = b
  BY DEF IsInjective
<1>6. IsInjective(r)
  <2>1. ASSUME NEW i \in DOMAIN r, NEW j \in DOMAIN r, r[i] = r[j] PROVE i = j
    <3>1. i + 1 = j + 1
      BY <1>3, <1>5, <2>1
    <3> QED
      BY <1>2, <3>1
  <2> QED
    BY <2>1 DEF IsInjective
<1>7. h \notin Elems(r)
  BY <1>2, <1>3, <1>5 DEF Elems
<1>8. Elems(s) \subseteq Elems(r) \cup {h}
  <2>1. ASSUME NEW i \in DOMAIN s PROVE s[i] \in Elems(r) \cup {h}
    <3>1. CASE i = 1
      BY <1>2, <3>1
    <3>2. CASE i # 1
      <4>1. PICK j : j = i - 1
        OBVIOUS
      <4>2. j \in DOMAIN r /\ j + 1 = i
        BY <1>2, <3>2, <4>1
      <4> QED
        BY <1>3, <4>2 DEF Elems
    <3> QED
      BY <3>1, <3>2
  <2> QED
    BY <2>1 DEF Elems
<1>9. Elems(r) \cup {h} \subseteq Elems(s)
  BY <1>2, <1>3 DEF Elems
<1> QED
  BY <1>1, <1>2, <1>4, <1>6, <1>7, <1>8, <1>9

-----------------------------------------------------------------------------
(* What is added up, and what is computed, stays so *)

\* Where a score is computed it was the old one.
ScoresKept(old) == graph' = graph /\ \A i \in Node : ranks'[i] = ranks[i] \/ ranks[i] = old[i]

LEMMA MixedKept ==
    ASSUME NEW old, NEW c, NEW S \in SUBSET Node, ScoresKept(old), Mixed(old, c, S)
    PROVE  Mixed(old, c, S)'
<1>2. ASSUME NEW i \in S PROVE c[i] = Outgoing(i, old[i])' \/ c[i] = Outgoing(i, ranks[i])'
  <2>1. c[i] = Outgoing(i, old[i]) \/ c[i] = Outgoing(i, ranks[i])
    BY DEF Mixed
  <2>2. ranks'[i] = ranks[i] \/ ranks[i] = old[i]
    BY DEF ScoresKept
  <2>3. graph' = graph
    BY DEF ScoresKept
  <2> QED
    BY <2>1, <2>2, <2>3 DEF Outgoing
<1> QED
  BY <1>2 DEF Mixed

LEMMA AddingKept ==
    ASSUME NEW old, NEW th, graph \in Graphs, ScoresKept(old), AddsUp(old, th)
    PROVE  AddsUp(old, th)'
<1>1. In(th.u)' = In(th.u) /\ In(th.u) \subseteq Node
  <2>1. th.u \in Node
    BY DEF AddsUp
  <2> QED
    BY <2>1, InFacts DEF ScoresKept, In
<1>2. PICK S : S = In(th.u) \ Elems(th.rest)
  OBVIOUS
<1>3. PICK c \in [Node -> Int] : Mixed(old, c, S) /\ th.total = SumFunctionOnSet(c, S)
  BY <1>2 DEF AddsUp
<1>4. Mixed(old, c, S)'
  <2>1. S \in SUBSET Node
    BY <1>1, <1>2
  <2> QED
    BY <1>3, <2>1, MixedKept
<1>5. In(th.u)' \ Elems(th.rest) = S
  BY <1>1, <1>2
<1>6. Mixed(old, c, In(th.u) \ Elems(th.rest))' /\ th.total = SumFunctionOnSet(c, In(th.u)' \ Elems(th.rest))
  <2>1. PICK T : T = In(th.u)' \ Elems(th.rest)
    OBVIOUS
  <2>2. T = S
    BY <1>5, <2>1
  <2>3. Mixed(old, c, T)' /\ th.total = SumFunctionOnSet(c, T)
    BY <1>3, <1>4, <2>2
  <2> QED
    BY <2>1, <2>3
<1>7. /\ th.u \in Node
      /\ th.rest \in Seq(Node) /\ IsInjective(th.rest) /\ Elems(th.rest) \subseteq In(th.u)'
      /\ th.at = IF th.rest = <<>> THEN "store" ELSE "pull"
  BY <1>1 DEF AddsUp
<1> QED
  BY <1>6, <1>7 DEF AddsUp

LEMMA SettledKept ==
    ASSUME NEW old, NEW n \in Node, graph \in Graphs, ScoresKept(old), Computed(old, n), ranks'[n] = ranks[n]
    PROVE  Computed(old, n)'
<1>1. In(n)' = In(n) /\ In(n) \subseteq Node
  BY InFacts DEF ScoresKept, In
<1>2. PICK S : S = In(n)
  OBVIOUS
<1>3. PICK c \in [Node -> Int] : Mixed(old, c, S) /\ ranks[n] = Damped(SumFunctionOnSet(c, S))
  BY <1>2 DEF Computed
<1>4. Mixed(old, c, S)' /\ ranks'[n] = Damped(SumFunctionOnSet(c, S))
  BY <1>1, <1>2, <1>3, MixedKept
<1>5. PICK T : T = In(n)'
  OBVIOUS
<1>6. Mixed(old, c, T)' /\ ranks'[n] = Damped(SumFunctionOnSet(c, T))
  BY <1>1, <1>2, <1>4, <1>5
<1> QED
  BY <1>5, <1>6 DEF Computed

\* A thread that comes to a vertex has added up nothing.
LEMMA FreshAdding ==
    ASSUME graph \in Graphs, NEW old, NEW v \in Node, NEW s, s = graph.in[v]
    PROVE  /\ AddsUp(old, NextIn(v, s, 0))
           /\ NextIn(v, s, 0).u = v /\ NextIn(v, s, 0) # Idle
<1>1. PICK th : th = NextIn(v, s, 0)
  OBVIOUS
<1>2. /\ th.u = v /\ th.rest = s /\ th.total = 0
      /\ th.at = IF s = <<>> THEN "store" ELSE "pull"
  BY <1>1 DEF NextIn, Pulling
<1>3. s \in Seq(Node) /\ IsInjective(s) /\ Elems(s) = In(v)
  BY InFacts DEF In
<1>4. PICK c : c = [i \in Node |-> 0]
  OBVIOUS
<1>5. c \in [Node -> Int]
  BY <1>4
<1>6. In(th.u) \ Elems(th.rest) = {}
  BY <1>2, <1>3
<1>7. Mixed(old, c, In(th.u) \ Elems(th.rest)) /\ th.total = SumFunctionOnSet(c, In(th.u) \ Elems(th.rest))
  BY <1>2, <1>6, SumEmpty DEF Mixed
<1>8. AddsUp(old, th)
  BY <1>2, <1>3, <1>5, <1>7 DEF AddsUp
<1>9. th # Idle
  BY <1>2 DEF Idle
<1> QED
  BY <1>1, <1>2, <1>8, <1>9

\* One more contribution.
LEMMA PullAdding ==
    ASSUME graph \in Graphs, ranks \in [Node -> Nat], NEW old \in [Node -> Nat],
           NEW th, AddsUp(old, th), th.at = "pull", NEW h, h = Head(th.rest),
           contrib[h] = Outgoing(h, old[h]) \/ contrib[h] = Outgoing(h, ranks[h]),
           NEW next, next = NextIn(th.u, Tail(th.rest), th.total + contrib[h])
    PROVE  AddsUp(old, next) /\ next.u = th.u /\ next # Idle
<1>1. PICK v, s, r : v = th.u /\ s = th.rest /\ r = Tail(th.rest)
  OBVIOUS
<1>2. /\ v \in Node /\ s \in Seq(Node) /\ s # <<>> /\ IsInjective(s) /\ Elems(s) \subseteq In(v)
  BY <1>1 DEF AddsUp
<1>3. /\ h \in Node /\ r \in Seq(Node) /\ IsInjective(r)
      /\ h \notin Elems(r) /\ Elems(s) = Elems(r) \cup {h}
  BY <1>1, <1>2, InTail
<1>4. /\ next.u = v /\ next.rest = r /\ next.total = th.total + contrib[h]
      /\ next.at = IF r = <<>> THEN "store" ELSE "pull"
  BY <1>1 DEF NextIn, Pulling
<1>5. PICK S, T : S = In(v) \ Elems(s) /\ T = In(v) \ Elems(r)
  OBVIOUS
<1>6. T = S \cup {h} /\ h \notin S /\ T \subseteq Node /\ IsFiniteSet(T) /\ IsFiniteSet(S) /\ T \subseteq In(v)
  <2>1. In(v) \subseteq Node /\ IsFiniteSet(In(v))
    BY <1>2, InFacts
  <2>2. T = S \cup {h} /\ h \notin S /\ T \subseteq In(v) /\ S \subseteq In(v)
    BY <1>2, <1>3, <1>5
  <2> QED
    BY <2>1, <2>2, FS_Subset
<1>7. PICK c \in [Node -> Int] : Mixed(old, c, S) /\ th.total = SumFunctionOnSet(c, S)
  BY <1>1, <1>5 DEF AddsUp
<1>8. contrib[h] \in Int
  BY <1>3, OutgoingType
<1>9. PICK d \in [Node -> Int] : d[h] = contrib[h] /\ \A i \in S : d[i] = c[i]
  <2>1. [c EXCEPT ![h] = contrib[h]] \in [Node -> Int]
    BY <1>8
  <2>2. /\ [c EXCEPT ![h] = contrib[h]][h] = contrib[h]
        /\ \A i \in S : [c EXCEPT ![h] = contrib[h]][i] = c[i]
    BY <1>3, <1>6
  <2> QED
    BY <2>1, <2>2
<1>10. Mixed(old, d, T)
  BY <1>6, <1>7, <1>9 DEF Mixed
<1>11. SumFunctionOnSet(d, T) = th.total + contrib[h]
  <2>1. (\A i \in S : c[i] \in Int /\ d[i] = c[i]) /\ d[h] \in Int /\ \A i \in S : d[i] \in Int
    BY <1>6, <1>9
  <2>2. SumFunctionOnSet(d, S) = SumFunctionOnSet(c, S)
    BY ONLY <1>6, <2>1, SumSame
  <2>3. SumFunctionOnSet(d, S \cup {h}) = SumFunctionOnSet(d, S) + d[h]
    BY ONLY <1>6, <2>1, SumAdd
  <2> QED
    BY <1>6, <1>7, <1>9, <2>2, <2>3
<1>12. Elems(r) \subseteq In(v)
  BY <1>2, <1>3
<1>13. next.u \in Node /\ next.rest \in Seq(Node) /\ IsInjective(next.rest) /\ Elems(next.rest) \subseteq In(next.u)
  BY <1>2, <1>3, <1>4, <1>12
<1>14. In(next.u) \ Elems(next.rest) = T
  BY <1>4, <1>5
<1>15. Mixed(old, d, In(next.u) \ Elems(next.rest)) /\ next.total = SumFunctionOnSet(d, In(next.u) \ Elems(next.rest))
  BY <1>4, <1>10, <1>11, <1>14
<1>16. next.at = IF next.rest = <<>> THEN "store" ELSE "pull"
  BY <1>4
<1>17. next # Idle
  BY <1>4 DEF Idle
<1> QED
  BY <1>1, <1>4, <1>13, <1>15, <1>16, <1>17 DEF AddsUp

-----------------------------------------------------------------------------
(* The steps *)

\* An iteration begins with the scores as they are.
PullStart ==
  /\ PrTypes /\ todo = FirstOfChunks /\ NoneAtWork /\ error = 0
  /\ \A n \in Node : contrib[n] = Outgoing(n, ranks[n])

LEMMA PullBegins == PullStart => \E old \in [Node -> Nat] : PullInv(old)
<1> SUFFICES ASSUME PullStart PROVE \E old \in [Node -> Nat] : PullInv(old)
  OBVIOUS
<1>1. PICK old \in [Node -> Nat] : old = ranks
  BY DEF PullStart, PrTypes
<1>2. Heads = FirstOfChunks
  BY DEF PullStart, NoneAtWork, Heads
<1>3. \A n \in Node : n \in Uncomputed
  BY <1>2, ChunksApart DEF Uncomputed
<1>4. Apportioned
  BY <1>2, ChunksApart DEF Apportioned, PullStart, NoneAtWork
<1>5. Change(old) = 0
  <2>1. PICK f : f = [n \in Node |-> Apart(ranks[n], old[n])]
    OBVIOUS
  <2>2. \A n \in Node : f[n] = 0
    <3>1. ASSUME NEW n \in Node PROVE f[n] = 0
      <4>1. old[n] \in Nat /\ f[n] = Apart(old[n], old[n])
        BY <1>1, <2>1
      <4> QED
        BY <4>1, ApartNat
    <3> QED
      BY <3>1
  <2>3. IsFiniteSet(Node)
    BY InFacts DEF PullStart, PrTypes
  <2>4. SumFunctionOnSet(f, Node) = 0
    BY ONLY <2>2, <2>3, SumZero
  <2> QED
    BY <2>1, <2>4 DEF Change
<1>6. Scored(old)
  BY <1>1, <1>3, <1>5 DEF Scored, PullStart
<1>7. PullInv(old)
  BY <1>4, <1>6 DEF PullInv, PullStart, NoneAtWork
<1> QED
  BY <1>7

\* A thread goes on, and the others stay where they are.
LEMMA ThreadsAdding ==
    ASSUME graph \in Graphs, NEW old, ScoresKept(old), NEW t \in Threads, NEW th,
           \A s \in Threads : thread[s] = Idle \/ AddsUp(old, thread[s]),
           th = Idle \/ AddsUp(old, th),
           thread'[t] = th, \A s \in Threads \ {t} : thread'[s] = thread[s]
    PROVE  \A s \in Threads : (thread[s] = Idle \/ AddsUp(old, thread[s]))'
<1>1. ASSUME NEW s \in Threads, thread'[s] # Idle PROVE AddsUp(old, thread[s])'
  <2>1. PICK x : x = thread'[s]
    OBVIOUS
  <2>2. AddsUp(old, x)
    BY <1>1, <2>1
  <2>3. AddsUp(old, x)'
    BY <2>2, AddingKept
  <2> QED
    BY <2>1, <2>3 DEF AddsUp
<1> QED
  BY <1>1

LEMMA TakePullKeeps ==
    ASSUME PrTypes, step = "pull", NEW old \in [Node -> Nat], PullInv(old),
           NEW t \in Threads, NEW u \in todo, TakePull(t, u)
    PROVE  PullInv(old)'
<1>1. /\ thread[t] = Idle /\ todo' = todo \ {u}
      /\ thread' = [thread EXCEPT ![t] = NextIn(u, graph.in[u], 0)]
      /\ UNCHANGED <<kernel, graph, ranks, contrib, error>>
  BY DEF TakePull, Take
<1>2. u \in Node /\ graph \in Graphs /\ DOMAIN thread = Threads
  BY ChunksApart DEF PullInv, Apportioned, PrTypes
<1>3. PICK th : th = NextIn(u, graph.in[u], 0)
  OBVIOUS
<1>4. AddsUp(old, th) /\ th.u = u /\ th # Idle
  BY <1>2, <1>3, FreshAdding
<1>5. thread'[t] = th /\ \A s \in Threads \ {t} : thread'[s] = thread[s]
  BY <1>1, <1>2, <1>3
<1>6. Heads' = Heads
  BY <1>1, <1>4, <1>5 DEF Heads
<1>7. Apportioned'
  BY <1>1, <1>4, <1>5, <1>6 DEF PullInv, Apportioned
<1>8. ScoresKept(old)
  BY <1>1 DEF ScoresKept
<1>9. \A s \in Threads : (thread[s] = Idle \/ AddsUp(old, thread[s]))'
  BY <1>2, <1>4, <1>5, <1>8, ThreadsAdding DEF PullInv
<1>10. Scored(old)'
  BY <1>1, <1>6 DEF PullInv, Scored, Uncomputed, RestOfChunk, FirstOfChunks, Computed, Mixed, Outgoing, Change, In
<1> QED
  BY <1>7, <1>9, <1>10 DEF PullInv

LEMMA PullKeeps ==
    ASSUME PrTypes, step = "pull", NEW old \in [Node -> Nat], PullInv(old),
           NEW t \in Threads, Pull(t)
    PROVE  PullInv(old)'
<1>1. PICK th, h : th = thread[t] /\ h = Head(th.rest)
  OBVIOUS
<1>2. PICK next : next = NextIn(th.u, Tail(th.rest), th.total + contrib[h])
  OBVIOUS
<1>3. /\ th.at = "pull" /\ thread' = [thread EXCEPT ![t] = next]
      /\ UNCHANGED <<kernel, graph, step, todo, ranks, contrib, error>>
  BY <1>1, <1>2 DEF Pull, Goes
<1>4. th # Idle /\ AddsUp(old, th) /\ graph \in Graphs /\ DOMAIN thread = Threads
  BY <1>1, <1>3 DEF PullInv, PrTypes, Idle
<1>5. h \in Node
  BY <1>1, <1>3, <1>4, InTail DEF AddsUp
<1>6. contrib[h] = Outgoing(h, old[h]) \/ contrib[h] = Outgoing(h, ranks[h])
  BY <1>5 DEF PullInv, Scored
<1>7. AddsUp(old, next) /\ next.u = th.u /\ next # Idle
  <2>1. ranks \in [Node -> Nat]
    BY DEF PrTypes
  <2> QED
    BY <1>1, <1>2, <1>3, <1>4, <1>6, <2>1, PullAdding
<1>8. thread'[t] = next /\ \A s \in Threads \ {t} : thread'[s] = thread[s]
  BY <1>3, <1>4
<1>9. Heads' = Heads
  BY <1>1, <1>3, <1>4, <1>7, <1>8 DEF Heads
<1>10. Apportioned'
  BY <1>1, <1>3, <1>4, <1>7, <1>8, <1>9 DEF PullInv, Apportioned
<1>11. ScoresKept(old)
  BY <1>3 DEF ScoresKept
<1>12. \A s \in Threads : (thread[s] = Idle \/ AddsUp(old, thread[s]))'
  BY <1>4, <1>7, <1>8, <1>11, ThreadsAdding DEF PullInv
<1>13. Scored(old)'
  BY <1>3, <1>9 DEF PullInv, Scored, Uncomputed, RestOfChunk, FirstOfChunks, Computed, Mixed, Outgoing, Change, In
<1> QED
  BY <1>10, <1>12, <1>13 DEF PullInv

\* The heads after a vertex was computed.
LEMMA HeadsAfter ==
    ASSUME PrTypes, NEW old, PullInv(old), NEW t \in Threads, NEW u, thread[t] # Idle, u = thread[t].u,
           u \in Node, NEW th, NEW more \in BOOLEAN, more <=> u + 1 \in Node \ FirstOfChunks,
           thread' = [thread EXCEPT ![t] = th], todo' = todo,
           IF more THEN th # Idle /\ th.u = u + 1 ELSE th = Idle
    PROVE  Apportioned' /\ u \in Uncomputed /\ Uncomputed' = Uncomputed \ {u}
<1>1. PICK H0 : H0 = todo \cup {thread[s].u : s \in {r \in Threads \ {t} : thread[r] # Idle}}
  OBVIOUS
<1>2. PICK v : v = u + 1
  OBVIOUS
<1>3. /\ Apportioned /\ DOMAIN thread = Threads
      /\ thread'[t] = th /\ \A s \in Threads \ {t} : thread'[s] = thread[s]
  BY DEF PullInv, PrTypes
<1>4. Heads = H0 \cup {u}
  BY <1>1 DEF Heads
<1>5. u \notin H0
  BY <1>1, <1>3 DEF Apportioned
<1>6. /\ more => Heads' = H0 \cup {v}
      /\ ~more => Heads' = H0
  BY <1>1, <1>2, <1>3 DEF Heads
<1>7. /\ u \in RestOfChunk(u)
      /\ more => v \in Node /\ RestOfChunk(u) = {u} \cup RestOfChunk(v) /\ u \notin RestOfChunk(v) /\ v \in RestOfChunk(v)
      /\ ~more => RestOfChunk(u) = {u}
  <2>1. /\ u \in RestOfChunk(u)
        /\ more => v \in Node /\ RestOfChunk(u) = {u} \cup RestOfChunk(v) /\ u \notin RestOfChunk(v)
        /\ ~more => RestOfChunk(u) = {u}
    BY <1>2, RestOfChunkFacts
  <2>2. more => v \in RestOfChunk(v)
    BY <2>1, RestOfChunkFacts
  <2> QED
    BY <2>1, <2>2
<1>8. \A g \in H0 : RestOfChunk(g) \cap RestOfChunk(u) = {}
  BY <1>3, <1>4, <1>5 DEF Apportioned
<1>9. u \in Uncomputed /\ Uncomputed = (UNION {RestOfChunk(g) : g \in H0}) \cup RestOfChunk(u) /\ u \notin UNION {RestOfChunk(g) : g \in H0}
  BY <1>4, <1>7, <1>8 DEF Uncomputed
<1>10. Uncomputed' = UNION {RestOfChunk(g) : g \in Heads'}
  BY DEF Uncomputed, RestOfChunk, FirstOfChunks
<1>11. Uncomputed' = Uncomputed \ {u}
  <2>1. CASE more
    <3>1. Uncomputed' = (UNION {RestOfChunk(g) : g \in H0}) \cup RestOfChunk(v)
      BY <1>6, <1>10, <2>1
    <3> QED
      BY <1>7, <1>9, <2>1, <3>1
  <2>2. CASE ~more
    <3>1. Uncomputed' = UNION {RestOfChunk(g) : g \in H0}
      BY <1>6, <1>10, <2>2
    <3> QED
      BY <1>7, <1>9, <2>2, <3>1
  <2> QED
    BY <2>1, <2>2
<1>12. more => v \notin H0 /\ v # u
  BY <1>7, <1>8
<1>13. \A g \in H0 : more => RestOfChunk(g) \cap RestOfChunk(v) = {}
  BY <1>7, <1>8
<1>14. \A g, h \in Heads' : g # h => RestOfChunk(g) \cap RestOfChunk(h) = {}
  <2>1. \A g, h \in H0 : g # h => RestOfChunk(g) \cap RestOfChunk(h) = {}
    BY <1>3, <1>4 DEF Apportioned
  <2>2. CASE more
    BY <1>6, <1>13, <2>1, <2>2
  <2>3. CASE ~more
    BY <1>6, <2>1, <2>3
  <2> QED
    BY <2>2, <2>3
<1>15. /\ \A s \in Threads : thread'[s] # Idle => thread'[s].u \notin todo
       /\ \A s, r \in Threads : s # r /\ thread'[s] # Idle /\ thread'[r] # Idle => thread'[s].u # thread'[r].u
  <2>1. \A s \in Threads \ {t} : thread'[s] # Idle => thread'[s].u \notin todo /\ thread'[s].u \in H0
    BY <1>1, <1>3 DEF Apportioned
  <2>2. \A s, r \in Threads \ {t} : s # r /\ thread'[s] # Idle /\ thread'[r] # Idle => thread'[s].u # thread'[r].u
    BY <1>3 DEF Apportioned
  <2>3. thread'[t] # Idle => more /\ thread'[t].u = v
    BY <1>2, <1>3
  <2>4. todo \subseteq H0
    BY <1>1
  <2>5. thread'[t] # Idle => thread'[t].u \notin H0
    BY <1>12, <2>3
  <2> QED
    BY <2>1, <2>2, <2>4, <2>5
<1>16. Apportioned'
  <2>1. \A g, h \in Heads' : g # h => RestOfChunk(g)' \cap RestOfChunk(h)' = {}
    BY <1>14 DEF RestOfChunk, FirstOfChunks
  <2>2. todo' \subseteq FirstOfChunks'
    BY <1>3 DEF Apportioned, FirstOfChunks
  <2> QED
    BY <1>15, <2>1, <2>2 DEF Apportioned
<1> QED
  BY <1>9, <1>11, <1>16

LEMMA StoreKeeps ==
    ASSUME PrTypes, step = "pull", NEW old \in [Node -> Nat], PullInv(old),
           NEW t \in Threads, StoreRank(t)
    PROVE  /\ PullInv(old)'
           /\ ranks' \in [Node -> Nat] /\ contrib' \in [Node -> Nat \cup {Infinite}] /\ error' \in Nat
<1>1. PICK u, score : u = thread[t].u /\ score = Damped(thread[t].total)
  OBVIOUS
<1>2. PICK more \in BOOLEAN : more <=> u + 1 \in Node \ FirstOfChunks
  OBVIOUS
<1>3. PICK th : th = IF more THEN NextIn(u + 1, graph.in[u + 1], 0) ELSE Idle
  OBVIOUS
<1>4. /\ thread[t].at = "store" /\ ranks' = [ranks EXCEPT ![u] = score]
      /\ error' = error + Apart(score, ranks[u])
      /\ contrib' = IF kernel = "pr" THEN [contrib EXCEPT ![u] = Outgoing(u, score)] ELSE contrib
      /\ thread' = [thread EXCEPT ![t] = th]
      /\ UNCHANGED <<kernel, graph, step, todo>>
  BY <1>1, <1>2, <1>3 DEF StoreRank, Goes
<1>5. /\ graph \in Graphs /\ ranks \in [Node -> Nat] /\ contrib \in [Node -> Nat \cup {Infinite}]
      /\ DOMAIN thread = Threads /\ error \in Nat
  BY DEF PrTypes
<1>6. thread[t] # Idle /\ AddsUp(old, thread[t])
  BY <1>4 DEF PullInv, Idle
<1>7. u \in Node /\ thread[t].rest = <<>>
  BY <1>1, <1>4, <1>6 DEF AddsUp
<1>8. IF more THEN AddsUp(old, th) /\ th # Idle /\ th.u = u + 1 ELSE th = Idle
  <2>1. CASE more
    <3>1. PICK v, s : v = u + 1 /\ s = graph.in[v]
      OBVIOUS
    <3>2. v \in Node /\ th = NextIn(v, s, 0)
      BY <1>2, <1>3, <2>1, <3>1
    <3>3. AddsUp(old, th) /\ th # Idle /\ th.u = v
      BY <1>5, <3>1, <3>2, FreshAdding
    <3> QED
      BY <2>1, <3>1, <3>3
  <2>2. CASE ~more
    BY <1>3, <2>2
  <2> QED
    BY <2>1, <2>2
<1>9. Apportioned' /\ u \in Uncomputed /\ Uncomputed' = Uncomputed \ {u}
  BY <1>1, <1>2, <1>4, <1>6, <1>7, <1>8, HeadsAfter
<1>10. ranks[u] = old[u] /\ old[u] \in Nat
  BY <1>7, <1>9 DEF PullInv, Scored
<1>11. PICK c \in [Node -> Int] : Mixed(old, c, In(u)) /\ thread[t].total = SumFunctionOnSet(c, In(u))
  <2>1. Elems(thread[t].rest) = {}
    BY <1>7 DEF Elems
  <2>2. In(u) \ Elems(thread[t].rest) = In(u)
    BY <2>1
  <2> QED
    BY <1>1, <1>6, <2>2 DEF AddsUp
<1>12. score \in Nat
  <2>1. PICK x : x = thread[t].total
    OBVIOUS
  <2>2. x \in Nat
    BY <1>5, <1>7, <1>11, <2>1, MixedNat
  <2>3. Damped(x) \in Nat
    BY <2>2, DampedApart
  <2> QED
    BY <1>1, <2>1, <2>3
<1>13. ranks' \in [Node -> Nat] /\ ranks'[u] = score /\ \A n \in Node \ {u} : ranks'[n] = ranks[n]
  BY <1>4, <1>5, <1>7, <1>12
<1>14. ScoresKept(old)
  BY <1>4, <1>10, <1>13 DEF ScoresKept
<1>15. \A s \in Threads : (thread[s] = Idle \/ AddsUp(old, thread[s]))'
  <2>1. thread'[t] = th /\ \A s \in Threads \ {t} : thread'[s] = thread[s]
    BY <1>4, <1>5
  <2> QED
    BY <1>5, <1>8, <1>14, <2>1, ThreadsAdding DEF PullInv
<1>16. contrib' \in [Node -> Nat \cup {Infinite}]
  <2>1. Outgoing(u, score) \in Nat \cup {Infinite}
    BY <1>5, <1>7, <1>12, OutgoingType
  <2> QED
    BY <1>4, <1>5, <2>1
<1>17. \A n \in Node : (contrib[n] = Outgoing(n, IF kernel = "pr" THEN ranks[n] ELSE old[n]))'
  <2>1. ASSUME NEW n \in Node
        PROVE  contrib'[n] = Outgoing(n, IF kernel = "pr" THEN ranks'[n] ELSE old[n])
    <3>1. contrib[n] = Outgoing(n, IF kernel = "pr" THEN ranks[n] ELSE old[n])
      BY DEF PullInv, Scored
    <3>2. CASE kernel = "pr"
      <4>1. n = u => contrib'[n] = Outgoing(u, score)
        BY <1>4, <1>5, <1>7, <3>2
      <4>2. n # u => contrib'[n] = contrib[n]
        BY <1>4, <1>5, <3>2
      <4> QED
        BY <1>13, <3>1, <3>2, <4>1, <4>2
    <3>3. CASE kernel # "pr"
      BY <1>4, <3>1, <3>3
    <3> QED
      BY <3>2, <3>3
  <2> QED
    BY <1>4, <2>1 DEF Outgoing
<1>18. \A n \in Uncomputed' : ranks'[n] = old[n]
  <2>1. Uncomputed \subseteq Node
    BY RestOfChunkFacts DEF Uncomputed, RestOfChunk
  <2> QED
    BY <1>9, <1>13, <2>1 DEF PullInv, Scored
<1>19. \A n \in Node \ Uncomputed' : Computed(old, n)'
  <2>1. Computed(old, u)'
    <3>1. In(u)' = In(u) /\ In(u) \subseteq Node
      BY <1>4, <1>5, <1>7, InFacts DEF In
    <3>2. Mixed(old, c, In(u))'
      <4>1. PICK S : S = In(u)
        OBVIOUS
      <4>2. Mixed(old, c, S)'
        BY <1>11, <1>14, <3>1, <4>1, MixedKept
      <4> QED
        BY <3>1, <4>1, <4>2 DEF Mixed
    <3>3. ranks'[u] = Damped(SumFunctionOnSet(c, In(u)'))
      BY <1>1, <1>11, <1>13, <3>1
    <3> QED
      BY <3>2, <3>3 DEF Computed
  <2>2. ASSUME NEW n \in Node \ Uncomputed', n # u PROVE Computed(old, n)'
    <3>1. Computed(old, n) /\ ranks'[n] = ranks[n]
      BY <1>9, <1>13, <2>2 DEF PullInv, Scored
    <3> QED
      BY <1>5, <1>14, <3>1, SettledKept
  <2> QED
    BY <2>1, <2>2
<1>20. error' = Change(old)' /\ error' \in Nat
  <2>1. PICK f : f = [n \in Node |-> Apart(ranks[n], old[n])]
    OBVIOUS
  <2>2. PICK g : g = [n \in Node |-> Apart(ranks'[n], old[n])]
    OBVIOUS
  <2>3. /\ \A n \in Node : f[n] = Apart(ranks[n], old[n]) /\ f[n] \in Int
        /\ \A n \in Node : g[n] = Apart(ranks'[n], old[n]) /\ g[n] \in Int
    <3>1. ASSUME NEW n \in Node
          PROVE  Apart(ranks[n], old[n]) \in Int /\ Apart(ranks'[n], old[n]) \in Int
      <4>1. ranks[n] \in Nat /\ old[n] \in Nat /\ ranks'[n] \in Nat
        BY <1>5, <1>13
      <4>2. Apart(ranks[n], old[n]) \in Nat
        BY ONLY <4>1, ApartNat
      <4>3. Apart(ranks'[n], old[n]) \in Nat
        BY ONLY <4>1, ApartNat
      <4> QED
        BY <4>2, <4>3
    <3> QED
      BY <2>1, <2>2, <3>1
  <2>4. \A n \in Node \ {u} : g[n] = f[n]
    BY <1>13, <2>3
  <2>5. f[u] = 0 /\ g[u] = Apart(score, ranks[u]) /\ Apart(score, ranks[u]) \in Nat
    <3>1. Apart(old[u], old[u]) = 0 /\ Apart(score, old[u]) \in Nat
      BY <1>10, <1>12, ApartNat
    <3> QED
      BY <1>7, <1>10, <1>13, <2>3, <3>1
  <2>6. IsFiniteSet(Node)
    BY <1>5, InFacts
  <2>7. SumFunctionOnSet(g, Node) = SumFunctionOnSet(f, Node) - f[u] + g[u]
    <3>1. \A n \in Node : f[n] \in Int /\ g[n] \in Int
      BY <2>3
    <3>2. PICK V : V = Node
      OBVIOUS
    <3>3. /\ u \in V /\ IsFiniteSet(V)
          /\ \A y \in V : f[y] \in Int /\ g[y] \in Int
          /\ \A y \in V \ {u} : g[y] = f[y]
      BY <1>7, <2>4, <2>6, <3>1, <3>2
    <3>4. SumFunctionOnSet(g, V) = SumFunctionOnSet(f, V) - f[u] + g[u]
      BY ONLY <3>3, SumChange
    <3> QED
      BY <3>2, <3>4
  <2>8. error = SumFunctionOnSet(f, Node)
    BY <2>1 DEF PullInv, Scored, Change
  <2>9. Change(old)' = SumFunctionOnSet(g, Node)
    BY <2>2 DEF Change
  <2> QED
    BY <1>4, <1>5, <2>5, <2>7, <2>8, <2>9
<1>21. Scored(old)'
  BY <1>17, <1>18, <1>19, <1>20 DEF Scored
<1> QED
  BY <1>9, <1>13, <1>15, <1>16, <1>20, <1>21 DEF PullInv

-----------------------------------------------------------------------------
(* The loops *)

LEMMA LoopTypes ==
    ASSUME PrInv, PrNext
    PROVE  kernel' = kernel /\ graph' = graph /\ DOMAIN thread' = Threads
<1>1. DOMAIN thread = Threads
  BY DEF PrInv, PrTypes
<1>2. ASSUME NEW t \in Threads, NEW u, TakePull(t, u)
      PROVE  kernel' = kernel /\ graph' = graph /\ DOMAIN thread' = Threads
  BY <1>1, <1>2 DEF TakePull, Take
<1>3. ASSUME NEW t \in Threads, Pull(t) \/ StoreRank(t)
      PROVE  kernel' = kernel /\ graph' = graph /\ DOMAIN thread' = Threads
  BY <1>1, <1>3 DEF Pull, StoreRank, Goes
<1>4. ASSUME NEW n, Contribute(n)
      PROVE  kernel' = kernel /\ graph' = graph /\ DOMAIN thread' = Threads
  BY <1>1, <1>4 DEF Contribute
<1>5. EndContribute \/ EndIteration => kernel' = kernel /\ graph' = graph /\ DOMAIN thread' = Threads
  BY DEF EndContribute, EndIteration, BeginLoop
<1> QED
  BY <1>2, <1>3, <1>4, <1>5 DEF PrNext

LEMMA ContributeKeeps ==
    ASSUME PrInv, NEW n \in todo, Contribute(n)
    PROVE  PrInv'
<1>1. /\ step = "contribute" /\ n \in todo /\ todo' = todo \ {n}
      /\ contrib' = [contrib EXCEPT ![n] = Outgoing(n, ranks[n])]
      /\ UNCHANGED <<kernel, graph, step, thread, ranks, error, turn>>
  BY DEF Contribute
<1>2. PrTypes /\ ContributeInv
  BY <1>1 DEF PrInv
<1>3. n \in Node /\ graph \in Graphs /\ ranks[n] \in Nat /\ contrib \in [Node -> Nat \cup {Infinite}]
  BY <1>2 DEF PrTypes, ContributeInv
<1>4. Outgoing(n, ranks[n]) \in Nat \cup {Infinite}
  BY <1>3, OutgoingType
<1>5. contrib' \in [Node -> Nat \cup {Infinite}]
  BY <1>1, <1>3, <1>4
<1>6. \A m \in Node \ todo' : contrib'[m] = Outgoing(m, ranks[m])
  BY <1>1, <1>2, <1>3 DEF ContributeInv
<1>7. \A m \in Node \ todo' : (contrib[m] = Outgoing(m, ranks[m]))'
  BY <1>1, <1>6 DEF Outgoing
<1>8. ContributeInv'
  BY <1>1, <1>2, <1>7 DEF ContributeInv, NoneAtWork
<1>9. PrTypes'
  BY <1>1, <1>2, <1>5 DEF PrTypes
<1> QED
  BY <1>1, <1>8, <1>9 DEF PrInv

LEMMA PullStarts ==
    ASSUME PrTypes', todo' = FirstOfChunks, NoneAtWork', error' = 0, step' = "pull",
           \A n \in Node : (contrib[n] = Outgoing(n, ranks[n]))'
    PROVE  PrInv'
<1>1. PullStart'
  BY DEF PullStart, FirstOfChunks
<1>2. (\E old \in [Node -> Nat] : PullInv(old))'
  BY <1>1, PullBegins, PTL
<1> QED
  BY <1>2 DEF PrInv

LEMMA EndContributeKeeps ==
    ASSUME PrInv, EndContribute
    PROVE  PrInv'
<1>1. /\ step = "contribute" /\ todo = {} /\ step' = "pull" /\ todo' = FirstOfChunks
      /\ thread' = [t \in Threads |-> Idle]
      /\ UNCHANGED <<kernel, graph, ranks, contrib, error, turn>>
  BY DEF EndContribute, TeamDone, BeginLoop
<1>2. PrTypes /\ ContributeInv
  BY <1>1 DEF PrInv
<1>3. PrTypes' /\ NoneAtWork' /\ error' = 0
  BY <1>1, <1>2 DEF PrTypes, NoneAtWork, ContributeInv
<1>4. \A n \in Node : (contrib[n] = Outgoing(n, ranks[n]))'
  BY <1>1, <1>2 DEF ContributeInv, Outgoing
<1> QED
  BY <1>1, <1>3, <1>4, PullStarts

LEMMA EndIterationKeeps ==
    ASSUME PrInv, EndIteration
    PROVE  PrInv'
<1>1. /\ step = "pull" /\ todo = {} /\ (\A t \in Threads : thread[t] = Idle)
      /\ UNCHANGED <<kernel, graph, ranks, contrib>>
  BY DEF EndIteration, TeamDone
<1>2. PrTypes
  BY DEF PrInv
<1>3. PICK old \in [Node -> Nat] : PullInv(old)
  BY <1>1 DEF PrInv
<1>4. /\ Uncomputed = {}
      /\ \A n \in Node : Computed(old, n)
      /\ \A n \in Node : contrib[n] = Outgoing(n, IF kernel = "pr" THEN ranks[n] ELSE old[n])
      /\ error = Change(old)
  <2>1. Uncomputed = {}
    BY <1>1 DEF Uncomputed, Heads
  <2> QED
    BY <1>3, <2>1 DEF PullInv, Scored
<1>5. CASE error < Epsilon \/ turn + 1 = MaxIters
  <2>1. /\ step' = "done" /\ todo' = {} /\ thread' = [t \in Threads |-> Idle]
        /\ UNCHANGED <<error, turn>>
    BY <1>5 DEF EndIteration, BeginLoop
  <2>2. PrTypes' /\ NoneAtWork'
    BY <1>1, <1>2, <2>1 DEF PrTypes, NoneAtWork
  <2>3. (\A n \in Node : Computed(old, n)') /\ Change(old)' = Change(old)
    BY <1>1, <1>4 DEF Computed, Mixed, Outgoing, In, Change
  <2>4. (\E x \in [Node -> Nat] : (\A n \in Node : Computed(x, n)) /\ error = Change(x))'
    BY <1>4, <2>1, <2>3
  <2> QED
    BY <2>1, <2>2, <2>4 DEF PrInv, ReturnedInv
<1>6. CASE ~(error < Epsilon \/ turn + 1 = MaxIters)
  <2>1. /\ step' = FirstLoop /\ todo' = FirstTodo /\ thread' = [t \in Threads |-> Idle]
        /\ error' = 0 /\ turn' = turn + 1
    BY <1>6 DEF EndIteration, BeginLoop
  <2>2. turn' \in 0 .. MaxIters - 1
    BY <1>2, <1>6, <2>1, PageRankAssumption DEF PrTypes
  <2>3. PrTypes' /\ NoneAtWork'
    BY <1>1, <1>2, <2>1, <2>2 DEF PrTypes, NoneAtWork
  <2>4. CASE kernel = "pr"
    <3>1. step' = "pull" /\ todo' = FirstOfChunks
      BY <2>1, <2>4 DEF FirstLoop, FirstTodo
    <3>2. \A n \in Node : (contrib[n] = Outgoing(n, ranks[n]))'
      BY <1>1, <1>4, <2>4 DEF Outgoing
    <3> QED
      BY <2>1, <2>3, <3>1, <3>2, PullStarts
  <2>5. CASE kernel = "pr_spmv"
    <3>1. step' = "contribute" /\ todo' = Node
      BY <2>1, <2>5 DEF FirstLoop, FirstTodo
    <3>2. ContributeInv'
      BY <1>1, <2>1, <2>3, <2>5, <3>1 DEF ContributeInv
    <3> QED
      BY <2>3, <3>1, <3>2 DEF PrInv
  <2> QED
    BY <1>2, <2>4, <2>5 DEF PrTypes
<1> QED
  BY <1>5, <1>6

LEMMA PullingKept ==
    ASSUME PrInv, NEW t \in Threads, (\E u \in todo : TakePull(t, u)) \/ Pull(t) \/ StoreRank(t)
    PROVE  PrInv'
<1>1. PrTypes
  BY DEF PrInv
<1>2. step = "pull" /\ step' = "pull" /\ turn' = turn
  <2>1. CASE \E u \in todo : TakePull(t, u)
    BY <2>1 DEF TakePull
  <2>2. CASE Pull(t) \/ StoreRank(t)
    <3>1. thread[t] # Idle
      BY <2>2 DEF Pull, StoreRank, Idle
    <3>2. step = "pull"
      BY <3>1 DEF PrInv, ContributeInv, ReturnedInv, NoneAtWork
    <3> QED
      BY <2>2, <3>2 DEF Pull, StoreRank, Goes
  <2> QED
    BY <2>1, <2>2
<1>3. PICK old \in [Node -> Nat] : PullInv(old)
  BY <1>2 DEF PrInv
<1>4. kernel' = kernel /\ graph' = graph /\ DOMAIN thread' = Threads
  <2>1. PrNext
    BY <1>1 DEF PrNext, PrTypes
  <2> QED
    BY <2>1, LoopTypes
<1>5. PullInv(old)' /\ ranks' \in [Node -> Nat] /\ contrib' \in [Node -> Nat \cup {Infinite}] /\ error' \in Nat
  <2>1. CASE \E u \in todo : TakePull(t, u)
    BY <1>1, <1>2, <1>3, <2>1, TakePullKeeps DEF TakePull, PrTypes
  <2>2. CASE Pull(t)
    BY <1>1, <1>2, <1>3, <2>2, PullKeeps DEF Pull, PrTypes
  <2>3. CASE StoreRank(t)
    BY <1>1, <1>2, <1>3, <2>3, StoreKeeps
  <2> QED
    BY <2>1, <2>2, <2>3
<1>6. PrTypes'
  BY <1>1, <1>2, <1>4, <1>5 DEF PrTypes
<1>7. (\E x \in [Node -> Nat] : PullInv(x))'
  BY <1>5
<1> QED
  BY <1>2, <1>6, <1>7 DEF PrInv

LEMMA PrInitially == PrInit => PrInv
<1> SUFFICES ASSUME PrInit PROVE PrInv
  OBVIOUS
<1>1. /\ kernel \in {"pr", "pr_spmv"} /\ graph \in Graphs
      /\ ranks = [n \in Node |-> One \div N]
      /\ contrib = [n \in Node |-> IF kernel = "pr" THEN Outgoing(n, One \div N) ELSE 0]
      /\ error = 0 /\ turn = 0 /\ step = FirstLoop /\ todo = FirstTodo
      /\ thread = [t \in Threads |-> Idle]
  BY DEF PrInit
<1>2. PICK x : x = One \div N
  OBVIOUS
<1>3. x \in Nat
  BY <1>2, PageRankAssumption, KernelAssumption, QuotientFacts
<1>4. ranks \in [Node -> Nat] /\ \A n \in Node : ranks[n] = x
  BY <1>1, <1>2, <1>3
<1>5. contrib \in [Node -> Nat \cup {Infinite}]
  <2>1. \A n \in Node : Outgoing(n, x) \in Nat \cup {Infinite}
    BY <1>1, <1>3, OutgoingType
  <2> QED
    BY <1>1, <1>2, <2>1
<1>6. PrTypes /\ NoneAtWork
  BY <1>1, <1>4, <1>5, PageRankAssumption DEF PrTypes, NoneAtWork
<1>7. CASE kernel = "pr"
  <2>1. step = "pull" /\ todo = FirstOfChunks
    BY <1>1, <1>7 DEF FirstLoop, FirstTodo
  <2>2. \A n \in Node : contrib[n] = Outgoing(n, ranks[n])
    BY <1>1, <1>2, <1>4, <1>7
  <2>3. PullStart
    BY <1>1, <1>6, <2>1, <2>2 DEF PullStart
  <2> QED
    BY <1>6, <2>1, <2>3, PullBegins DEF PrInv
<1>8. CASE kernel = "pr_spmv"
  BY <1>1, <1>6, <1>8 DEF PrInv, ContributeInv, FirstLoop, FirstTodo
<1> QED
  BY <1>1, <1>7, <1>8

LEMMA PrStutters == PrInv /\ UNCHANGED prVars => PrInv'
<1> SUFFICES ASSUME PrInv, UNCHANGED prVars PROVE PrInv'
  OBVIOUS
<1>1. UNCHANGED <<kernel, graph, step, todo, thread, ranks, contrib, error, turn>>
  BY DEF prVars, teamVars
<1>2. PrTypes'
  BY <1>1 DEF PrInv, PrTypes
<1>3. CASE step = "contribute"
  BY <1>1, <1>2, <1>3 DEF PrInv, ContributeInv, NoneAtWork, Outgoing
<1>4. CASE step = "pull"
  <2>1. PICK old \in [Node -> Nat] : PullInv(old)
    BY <1>4 DEF PrInv
  <2>2. Heads' = Heads
    BY <1>1 DEF Heads
  <2>3. Apportioned'
    BY <1>1, <2>1, <2>2 DEF PullInv, Apportioned, RestOfChunk, FirstOfChunks
  <2>4. Scored(old)'
    BY <1>1, <2>1, <2>2 DEF PullInv, Scored, Uncomputed, RestOfChunk, FirstOfChunks, Computed, Mixed, Outgoing, Change, In
  <2>5. \A t \in Threads : (thread[t] = Idle \/ AddsUp(old, thread[t]))'
    BY <1>1, <2>1 DEF PullInv, AddsUp, Mixed, Outgoing, In
  <2>6. (\E x \in [Node -> Nat] : PullInv(x))'
    BY <2>1, <2>3, <2>4, <2>5 DEF PullInv
  <2> QED
    BY <1>1, <1>2, <1>4, <2>6 DEF PrInv
<1>5. CASE step = "done"
  <2>1. ReturnedInv'
    BY <1>1, <1>5 DEF PrInv, ReturnedInv, NoneAtWork, Computed, Mixed, Outgoing, Change, In
  <2> QED
    BY <1>1, <1>2, <1>5, <2>1 DEF PrInv
<1> QED
  BY <1>3, <1>4, <1>5 DEF PrInv

LEMMA PrKept == PrInv /\ [PrNext]_prVars => PrInv'
<1> SUFFICES ASSUME PrInv, PrNext PROVE PrInv'
  BY PrStutters
<1> QED
  BY PullingKept, ContributeKeeps, EndContributeKeeps, EndIterationKeeps DEF PrNext

LEMMA PrAlways == PrSpec => []PrInv
BY PrInitially, PrKept, PTL DEF PrSpec

\* The variables of PageRank keep their types; in particular no total takes
\* in the infinite contribution of a vertex without outgoing edges.
THEOREM PrTypesHold == PrSpec => []PrTypeOK
<1>1. ASSUME PrInv PROVE PrTypeOK
  <2>1. PrTypes
    BY <1>1 DEF PrInv
  <2>2. /\ step \in {"contribute", "pull", "done"} /\ todo \subseteq Node
    BY <1>1, ChunksApart DEF PrInv, ContributeInv, ReturnedInv, PullInv, Apportioned
  <2>3. ASSUME NEW t \in Threads, thread[t].at = "pull"
        PROVE  thread[t].total \in Nat /\ contrib[Head(thread[t].rest)] # Infinite
    <3>1. thread[t] # Idle
      BY <2>3 DEF Idle
    <3>2. step = "pull"
      BY <1>1, <3>1 DEF PrInv, ContributeInv, ReturnedInv, NoneAtWork
    <3>3. PICK old \in [Node -> Nat] : PullInv(old)
      BY <1>1, <3>2 DEF PrInv
    <3>4. PICK th : th = thread[t]
      OBVIOUS
    <3>5. AddsUp(old, th) /\ th.at = "pull"
      BY <2>3, <3>1, <3>3, <3>4 DEF PullInv
    <3>6. th.u \in Node /\ th.rest \in Seq(Node) /\ th.rest # <<>> /\ IsInjective(th.rest) /\ Elems(th.rest) \subseteq In(th.u)
      BY <3>5 DEF AddsUp
    <3>7. PICK S \in SUBSET In(th.u) : \E c \in [Node -> Int] : Mixed(old, c, S) /\ th.total = SumFunctionOnSet(c, S)
      BY <3>5 DEF AddsUp
    <3>8. th.total \in Nat
      BY <2>1, <3>6, <3>7, MixedNat DEF PrTypes
    <3>9. Head(th.rest) \in In(th.u) /\ Head(th.rest) \in Node
      BY <3>6, InTail
    <3>10. contrib[Head(th.rest)] # Infinite
      <4>1. PICK h : h = Head(th.rest)
        OBVIOUS
      <4>2. h \in Node /\ graph.out[h] # <<>>
        BY <2>1, <3>6, <3>9, <4>1, InFacts DEF PrTypes
      <4>3. contrib[h] = Outgoing(h, ranks[h]) \/ contrib[h] = Outgoing(h, old[h])
        BY <3>3, <4>2 DEF PullInv, Scored
      <4>4. ranks[h] \in Nat /\ old[h] \in Nat
        BY <2>1, <4>2 DEF PrTypes
      <4>5. Outgoing(h, ranks[h]) # Infinite /\ Outgoing(h, old[h]) # Infinite
        BY <2>1, <4>2, <4>4, OutgoingType DEF PrTypes
      <4> QED
        BY <4>1, <4>3, <4>5
    <3> QED
      BY <3>4, <3>8, <3>10
  <2> QED
    BY <2>1, <2>2, <2>3 DEF PrTypeOK, PrTypes
<1> QED
  BY <1>1, PrAlways, PTL

\* Scores that were returned because they changed by less than the tolerance
\* pass PRVerifier with that tolerance, up to what is rounded off, for every
\* schedule: whichever contributions of this iteration and of the last a
\* vertex of pr.cc was computed from.
THEOREM TolerancesVerify == PrSpec => []ToleranceVerifies
<1>1. ASSUME PrInv, step = "done", error < Epsilon
      PROVE  VerifierError < Epsilon + Rounding
  <2>1. graph \in Graphs /\ ranks \in [Node -> Nat] /\ error \in Nat
    BY <1>1 DEF PrInv, PrTypes
  <2>2. PICK old \in [Node -> Nat] : (\A n \in Node : Computed(old, n)) /\ error = Change(old)
    BY <1>1 DEF PrInv, ReturnedInv
  <2>3. VerifierError <= Change(old) + Rounding /\ VerifierError \in Int /\ Rounding \in Int
    BY <2>1, <2>2, ErrorBounded
  <2> QED
    BY <1>1, <2>1, <2>2, <2>3, PageRankAssumption
<1>2. PrInv => ToleranceVerifies
  BY <1>1 DEF ToleranceVerifies
<1> QED
  BY <1>2, PrAlways, PTL

-----------------------------------------------------------------------------
(* Delta-stepping. D has the true distances.                               *)
IsNearest(D) ==
  /\ D \in [Node -> Nat] /\ D[origin] = 0
  /\ \A v \in Node : D[v] <= DistInf
  /\ \A u \in Node : \A v \in Elems(graph.out[u]) : D[v] <= D[u] + Weight[<<u, v>>]

(* No edge of v improves a distance any more, the distances being d.       *)
Relaxed(d, v) == \A w \in Elems(graph.out[v]) : d[w] <= d[v] + Weight[<<v, w>>]

SsspCommon(D) ==
  /\ kernel = "sssp" /\ graph \in Graphs /\ origin \in Node /\ delta \in Deltas
  /\ dist \in [Node -> 0 .. DistInf] /\ dist[origin] = 0
  /\ \A v \in Node : D[v] <= dist[v]
  /\ bins \in [Threads -> [0 .. MaxBin - 1 -> Seq(Node)]]
  /\ tails \in [0 .. 1 -> Nat] /\ indexes \in [0 .. 1 -> 0 .. MaxBin] /\ iter \in 0 .. 1
  /\ DOMAIN thread = Threads

(* v waits in the bins of one thread, at its distance.                     *)
InBins(d, row, v) == /\ d[v] \div delta \in 0 .. MaxBin - 1
                     /\ v \in Elems(row[d[v] \div delta])

IsRelaxing(th) == th.at \in {"readOld", "readNew", "improve", "recheck"}

(* The list of a thread that relaxes edges, in a round whose bin begins at *)
(* low.                                                                    *)
ListOK(d, th, low) ==
  /\ th.us \in Seq(Node) /\ th.us # <<>> /\ \A j \in 1 .. Len(th.us) : d[th.us[j]] >= low
  /\ th.rest \in Seq(Node) /\ th.rest # <<>>
  /\ Elems(th.rest) \subseteq Elems(graph.out[th.us[1]])
  /\ th.fused \in BOOLEAN

RelaxOK(d, th, low) ==
  /\ ListOK(d, th, low)
  /\ th.at \in {"readNew", "improve"} => th.old \in 0 .. DistInf /\ th.old >= d[th.rest[1]]
  /\ th.at \in {"improve", "recheck"} =>
       th.new \in Nat /\ th.new >= d[th.us[1]] + Weight[<<th.us[1], th.rest[1]>>]
  /\ th.at = "improve" => th.new < th.old

RoundThread(d, th, low) ==
  /\ th.at \in {"idle", "readOld", "readNew", "improve", "recheck", "fuse", "vote", "joined"}
  /\ th.at = "idle" => th = Idle
  /\ IsRelaxing(th) => RelaxOK(d, th, low)

LeftLoop(th) == th.at \in {"fuse", "vote", "joined"} \/ (IsRelaxing(th) /\ th.fused)

(* A thread will see to the edges of v: they are before it in its list, or *)
(* it is at them, and what it is about to store is made of v's distance.   *)
Later(th, v) == \E j \in 2 .. Len(th.us) : th.us[j] = v
LeftOf(d, th, v, rest) ==
  v = th.us[1] /\ \A w \in Elems(graph.out[v]) : w \in Elems(rest) \/ d[w] <= d[v] + Weight[<<v, w>>]
SeesTo(d, th, v) ==
  /\ IsRelaxing(th)
  /\ \/ Later(th, v)
     \/ /\ LeftOf(d, th, v, th.rest)
        /\ th.at \in {"improve", "recheck"} => th.new = d[v] + Weight[<<v, th.rest[1]>>]

RelaxInv(low) ==
  /\ step = "relax"
  /\ low = delta * Curr /\ Curr \in 0 .. MaxBin - 1 /\ indexes[Next1] >= Curr /\ tails[Next1] = 0
  /\ todo \subseteq 0 .. tails[iter] - 1
  /\ \A i \in todo : i \in DOMAIN frontier /\ frontier[i] \in Node
  /\ \A t \in Threads : RoundThread(dist, thread[t], low) /\ (LeftLoop(thread[t]) => todo = {})
  /\ \A t \in Threads : \A b \in 0 .. Curr - 1 : bins[t][b] = <<>>
  /\ \A t \in Threads : \A v \in Elems(bins[t][Curr]) : dist[v] >= low
  /\ \A t \in Threads : thread[t].at = "joined" =>
       \A b \in Curr .. MaxBin - 1 : bins[t][b] # <<>> => indexes[Next1] <= b
  /\ \A v \in Node : \/ Relaxed(dist, v)
                     \/ \E i \in todo : frontier[i] = v /\ dist[v] >= low
                     \/ \E t \in Threads : InBins(dist, bins[t], v) \/ SeesTo(dist, thread[t], v)

(* A thread that has claimed places of the frontier and not filled them.   *)
OwesPlace(th, row, b, i) == th.at = "copy" /\ i \in th.base .. th.base + Len(row[b]) - 1

FillInv(b) ==
  /\ step = "fill"
  /\ b = indexes[Next1] /\ b \in 0 .. MaxBin
  /\ todo \subseteq {0}
  /\ \A t \in Threads :
       /\ thread[t].at \in {"idle", "single", "claim", "copy", "joined"}
       /\ thread[t].at = "idle" => thread[t] = Idle
       /\ thread[t].at # "idle" => todo = {}
       /\ thread[t].at = "joined" /\ b < MaxBin => bins[t][b] = <<>>
       /\ thread[t].at = "copy" => /\ b < MaxBin /\ thread[t].base \in Nat
                                   /\ thread[t].base + Len(bins[t][b]) <= tails[Next1]
  /\ \/ todo = {0} \/ \E t \in Threads : thread[t].at = "single"
     \/ indexes[iter] = MaxBin /\ tails[iter] = 0
  /\ \A t \in Threads : \A c \in 0 .. b - 1 : bins[t][c] = <<>>
  /\ b = MaxBin => tails[Next1] = 0
  /\ \A t1, t2 \in Threads : \A i \in 0 .. tails[Next1] - 1 :
       OwesPlace(thread[t1], bins[t1], b, i) /\ OwesPlace(thread[t2], bins[t2], b, i) => t1 = t2
  /\ \A i \in 0 .. tails[Next1] - 1 :
       \/ i \in DOMAIN frontier /\ frontier[i] \in Node
       \/ \E t \in Threads : OwesPlace(thread[t], bins[t], b, i)
  /\ \A v \in Node : \/ Relaxed(dist, v)
                     \/ \E t \in Threads : InBins(dist, bins[t], v)
                     \/ /\ dist[v] >= delta * b
                        /\ \E i \in 0 .. tails[Next1] - 1 :
                             /\ frontier[i] = v
                             /\ \A t \in Threads : ~OwesPlace(thread[t], bins[t], b, i)

SsspDone == /\ step = "done" /\ todo = {} /\ \A t \in Threads : thread[t] = Idle
            /\ \A v \in Node : Relaxed(dist, v)

(* A copy ran past the frontier: the program does anything from there on.  *)
SsspOverrun == step = "overrun" /\ todo = {} /\ \A t \in Threads : thread[t] = Idle

SsspInv == /\ IsNearest(Nearest(origin)) /\ SsspCommon(Nearest(origin))
           /\ \/ \E low : RelaxInv(low)
              \/ \E b : FillInv(b)
              \/ SsspDone
              \/ SsspOverrun
\* Division by the width of a bin.
LEMMA DivFacts ==
  ASSUME NEW d \in Nat \ {0}, NEW x \in Nat, NEW c \in Nat
  PROVE  /\ x \div d \in Nat /\ x \div d <= x
         /\ x >= d * c <=> x \div d >= c
<1>1. PICK q : q = x \div d
  OBVIOUS
<1>2. q \in Nat /\ d * q <= x /\ x < d * (q + 1)
  BY <1>1
<1>3. q <= x
  BY <1>2
<1>4. q >= c => d * q >= d * c
  BY <1>2
<1>5. ~(q >= c) => d * c >= d * (q + 1)
  <2>1. SUFFICES ASSUME ~(q >= c) PROVE d * c >= d * (q + 1)
    OBVIOUS
  <2>2. PICK e \in Nat : c = q + 1 + e
    <3>1. c - (q + 1) \in Nat /\ c = q + 1 + (c - (q + 1))
      BY <1>2, <2>1
    <3> QED
      BY <3>1
  <2>3. d * c = d * (q + 1) + d * e /\ d * e >= 0
    BY <1>2, <2>2
  <2> QED
    BY <1>2, <2>3
<1>6. d * q \in Nat /\ d * c \in Nat /\ d * (q + 1) \in Nat
  BY <1>2
<1>7. x >= d * c <=> q >= c
  BY <1>2, <1>4, <1>5, <1>6
<1> QED
  BY <1>1, <1>2, <1>3, <1>7

LEMMA WeightType ==
  /\ \A u, v \in Node : Weight[<<u, v>>] \in Nat \ {0}
  /\ DistInf \in Nat \ {0} /\ MaxBin = DistInf
<1>1. \A e \in Node \X Node : Weight[e] \in Nat \ {0}
  BY DeltaStepAssumption
<1>2. \A u, v \in Node : Weight[<<u, v>>] \in Nat \ {0}
  BY <1>1
<1> DEFINE E == Node \X Node
           P == {T \in SUBSET E : T = {} \/ \E m \in T : \A e \in T : Weight[e] <= Weight[m]}
<1>3. IsFiniteSet(E)
  BY NodeFacts, FS_Product
<1>4. ASSUME NEW T \in SUBSET E, \A U \in SUBSET T : U # T => U \in P
      PROVE  T \in P
  <2>1. CASE T = {}
    BY <2>1
  <2>2. CASE T # {}
    <3>1. PICK x : x \in T
      BY <2>2
    <3>2. T \ {x} \in P
      <4>1. T \ {x} \in SUBSET T /\ T \ {x} # T
        BY <3>1
      <4> HIDE DEF P
      <4> QED
        BY <1>4, <4>1
    <3>3. CASE T \ {x} = {}
      <4>1. \A e \in T : e = x
        BY <3>3
      <4>2. Weight[x] \in Nat
        BY <1>1, <3>1
      <4>3. \A e \in T : Weight[e] <= Weight[x]
        BY <4>1, <4>2
      <4> QED
        BY <3>1, <4>3
    <3>4. CASE T \ {x} # {}
      <4>1. PICK m \in T \ {x} : \A e \in T \ {x} : Weight[e] <= Weight[m]
        BY <3>2, <3>4
      <4>2. Weight[m] \in Nat /\ Weight[x] \in Nat /\ \A e \in T : Weight[e] \in Nat
        BY <1>1, <3>1
      <4>3. CASE Weight[x] <= Weight[m]
        <5>1. \A e \in T : Weight[e] <= Weight[m]
          BY <4>1, <4>3
        <5> QED
          BY <5>1
      <4>4. CASE ~(Weight[x] <= Weight[m])
        <5>1. \A e \in T : Weight[e] <= Weight[x]
          BY <4>1, <4>2, <4>4
        <5> QED
          BY <3>1, <5>1
      <4> QED
        BY <4>3, <4>4
    <3> QED
      BY <3>3, <3>4
  <2> QED
    BY <2>1, <2>2
<1>5. E \in P
  <2> HIDE DEF E, P
  <2>1. SUBSET E \subseteq P
    BY <1>3, <1>4, SubsetInduction
  <2> QED
    BY <2>1
<1>6. PICK m \in E : \A e \in E : Weight[e] <= Weight[m]
  <2>1. <<0, 0>> \in E
    BY NodeFacts
  <2> QED
    BY <1>5, <2>1
<1>7. \E w \in {Weight[e] : e \in Node \X Node} : \A e \in Node \X Node : Weight[e] <= w
  BY <1>6
<1>8. MaxWeight \in {Weight[e] : e \in Node \X Node}
  BY <1>7 DEF MaxWeight
<1>9. MaxWeight \in Nat \ {0}
  BY <1>1, <1>8
<1>10. N * MaxWeight \in Nat \ {0}
  BY <1>9, NodeFacts
<1> QED
  BY <1>2, <1>10 DEF DistInf, MaxBin

\* The recursion of Nearest has a solution; R[k] are the distances over paths
\* of at most k edges.
IsRounds(R) ==
  /\ R \in [0 .. N -> [Node -> Nat]]
  /\ \A n \in Node : R[0][n] = IF n = origin THEN 0 ELSE DistInf
  /\ \A k \in 1 .. N : \A n \in Node :
       /\ R[k][n] <= R[k - 1][n]
       /\ \A u \in Elems(graph.in[n]) : R[k][n] <= R[k - 1][u] + Weight[<<u, n>>]
       /\ \/ R[k][n] = R[k - 1][n]
          \/ \E u \in Elems(graph.in[n]) : R[k][n] = R[k - 1][u] + Weight[<<u, n>>]

LEMMA NearestRounds ==
  ASSUME graph \in Graphs, origin \in Node
  PROVE  \E R : IsRounds(R) /\ Nearest(origin) = R[N]
<1> DEFINE Start == [n \in Node |-> IF n = origin THEN 0 ELSE DistInf]
           Ways(F, n) == {F[n]} \cup {F[u] + Weight[<<u, n>>] : u \in Elems(graph.in[n])}
           Best(F, n) == CHOOSE d \in Ways(F, n) : \A e \in Ways(F, n) : d <= e
           Round(F) == [n \in Node |-> Best(F, n)]
           Solves(F, n) == F = [k \in 0 .. n |-> IF k = 0 THEN Start ELSE Round(F[k - 1])]
<1>0. N \in Nat /\ N > 0 /\ Node \subseteq Nat
  BY NodeFacts
<1>1. \E F : Solves(F, N)
  <2> DEFINE P == {n \in Nat : \E F : Solves(F, n)}
  <2> HIDE DEF Start, Round
  <2>1. 0 \in P
    <3> DEFINE F == [k \in 0 .. 0 |-> Start]
    <3>1. Solves(F, 0)
      OBVIOUS
    <3> QED
      BY <3>1
  <2>2. ASSUME NEW n \in Nat, n \in P PROVE n + 1 \in P
    <3>1. PICK F : Solves(F, n)
      BY <2>2
    <3> DEFINE G == [k \in 0 .. n + 1 |-> IF k <= n THEN F[k] ELSE Round(F[n])]
    <3>2. ASSUME NEW k \in 0 .. n + 1
          PROVE  G[k] = IF k = 0 THEN Start ELSE Round(G[k - 1])
      <4>1. CASE k <= n
        <5>1. k \in 0 .. n /\ (k # 0 => k - 1 \in 0 .. n /\ k - 1 \in 0 .. n + 1 /\ k - 1 <= n)
          BY <4>1
        <5>2. G[k] = F[k] /\ (k # 0 => G[k - 1] = F[k - 1])
          BY <4>1, <5>1
        <5>3. F[k] = IF k = 0 THEN Start ELSE Round(F[k - 1])
          BY <3>1, <5>1
        <5> HIDE DEF G
        <5> QED
          BY <5>2, <5>3
      <4>2. CASE ~(k <= n)
        <5>1. k = n + 1 /\ k # 0 /\ k - 1 = n /\ n \in 0 .. n + 1
          BY <4>2
        <5>2. G[k] = Round(F[n]) /\ G[k - 1] = F[n]
          BY <5>1
        <5> HIDE DEF G
        <5> QED
          BY <5>1, <5>2
      <4> QED
        BY <4>1, <4>2
    <3>3. Solves(G, n + 1)
      BY <3>2
    <3> HIDE DEF G
    <3> QED
      BY <3>3
  <2> HIDE DEF P
  <2>3. Nat \subseteq P
    BY <2>1, <2>2, NatSetInduction
  <2> QED
    BY <1>0, <2>3 DEF P
<1>2. PICK R : R = CHOOSE F : Solves(F, N)
  OBVIOUS
<1>3. Nearest(origin) = R[N]
  BY <1>2 DEF Nearest
<1>4. Solves(R, N)
  <2> HIDE DEF Solves
  <2> QED
    BY <1>1, <1>2
<1>5. /\ DOMAIN R = 0 .. N /\ R[0] = Start
      /\ \A k \in 1 .. N : R[k] = Round(R[k - 1])
  <2> HIDE DEF Start, Round
  <2> QED
    BY <1>0, <1>4
<1>6. ASSUME NEW F \in [Node -> Nat], NEW n \in Node
      PROVE  /\ Round(F)[n] \in Nat /\ Round(F)[n] <= F[n]
             /\ \A u \in Elems(graph.in[n]) : Round(F)[n] <= F[u] + Weight[<<u, n>>]
             /\ \/ Round(F)[n] = F[n]
                \/ \E u \in Elems(graph.in[n]) : Round(F)[n] = F[u] + Weight[<<u, n>>]
  <2>1. Elems(graph.in[n]) \subseteq Node
    BY GraphFacts
  <2>2. PICK S : S = Ways(F, n)
    OBVIOUS
  <2>3. \A u \in Elems(graph.in[n]) : F[u] + Weight[<<u, n>>] \in Nat
    BY <2>1, WeightType
  <2>4. S \in SUBSET Nat /\ F[n] \in S
    BY <2>2, <2>3
  <2>5. \E d \in S : \A e \in S : d <= e
    BY <2>4, LeastNumber
  <2>6. PICK b : b = CHOOSE d \in S : \A e \in S : d <= e
    OBVIOUS
  <2>7. b \in S /\ \A e \in S : b <= e
    BY <2>5, <2>6
  <2>8. Round(F)[n] = b
    BY <2>2, <2>6
  <2>9. \A u \in Elems(graph.in[n]) : F[u] + Weight[<<u, n>>] \in S
    BY <2>2
  <2>10. b = F[n] \/ \E u \in Elems(graph.in[n]) : b = F[u] + Weight[<<u, n>>]
    BY <2>2, <2>7
  <2> HIDE DEF Round
  <2> QED
    BY <2>4, <2>7, <2>8, <2>9, <2>10
<1> HIDE DEF Start, Ways, Best, Round, Solves
<1>7. \A k \in 0 .. N : R[k] \in [Node -> Nat]
  <2> DEFINE P == {k \in Nat : k \in 0 .. N => R[k] \in [Node -> Nat]}
  <2>1. 0 \in P
    <3>1. DistInf \in Nat
      BY WeightType
    <3> QED
      BY <1>5, <3>1 DEF Start
  <2>2. ASSUME NEW k \in Nat, k \in P PROVE k + 1 \in P
    <3>1. SUFFICES ASSUME k + 1 \in 0 .. N PROVE R[k + 1] \in [Node -> Nat]
      OBVIOUS
    <3>2. k \in 0 .. N /\ k + 1 \in 1 .. N /\ (k + 1) - 1 = k
      BY <1>0, <3>1
    <3>3. R[k] \in [Node -> Nat] /\ R[k + 1] = Round(R[k])
      BY <1>5, <2>2, <3>2
    <3>4. \A n \in Node : Round(R[k])[n] \in Nat
      BY <1>6, <3>3
    <3>5. Round(R[k]) = [n \in Node |-> Round(R[k])[n]]
      BY DEF Round
    <3> QED
      BY <3>3, <3>4, <3>5
  <2> HIDE DEF P
  <2>3. Nat \subseteq P
    BY <2>1, <2>2, NatSetInduction
  <2> QED
    BY <1>0, <2>3 DEF P
<1>8. R \in [0 .. N -> [Node -> Nat]]
  <2>1. R = [k \in 0 .. N |-> R[k]]
    BY <1>4 DEF Solves
  <2> QED
    BY <1>7, <2>1
<1>9. \A k \in 1 .. N : \A n \in Node :
        /\ R[k][n] <= R[k - 1][n]
        /\ \A u \in Elems(graph.in[n]) : R[k][n] <= R[k - 1][u] + Weight[<<u, n>>]
        /\ \/ R[k][n] = R[k - 1][n]
           \/ \E u \in Elems(graph.in[n]) : R[k][n] = R[k - 1][u] + Weight[<<u, n>>]
  <2> SUFFICES ASSUME NEW k \in 1 .. N, NEW n \in Node
               PROVE  /\ R[k][n] <= R[k - 1][n]
                      /\ \A u \in Elems(graph.in[n]) : R[k][n] <= R[k - 1][u] + Weight[<<u, n>>]
                      /\ \/ R[k][n] = R[k - 1][n]
                         \/ \E u \in Elems(graph.in[n]) : R[k][n] = R[k - 1][u] + Weight[<<u, n>>]
    OBVIOUS
  <2>1. PICK F : F = R[k - 1]
    OBVIOUS
  <2>2. k - 1 \in 0 .. N /\ F \in [Node -> Nat] /\ R[k] = Round(F)
    BY <1>0, <1>5, <1>7, <2>1
  <2>3. PICK f : f = Round(F)
    OBVIOUS
  <2>4. /\ f[n] <= F[n]
        /\ \A u \in Elems(graph.in[n]) : f[n] <= F[u] + Weight[<<u, n>>]
        /\ \/ f[n] = F[n]
           \/ \E u \in Elems(graph.in[n]) : f[n] = F[u] + Weight[<<u, n>>]
    BY <1>6, <2>2, <2>3
  <2> QED
    BY ONLY <2>1, <2>2, <2>3, <2>4
<1>10. \A n \in Node : R[0][n] = IF n = origin THEN 0 ELSE DistInf
  BY <1>5 DEF Start
<1>11. IsRounds(R)
  BY <1>8, <1>9, <1>10 DEF IsRounds
<1> QED
  BY <1>3, <1>11

\* What still changes in round k has k vertices nearer than it.
LEMMA NearerVertices ==
  ASSUME graph \in Graphs, origin \in Node, NEW R, IsRounds(R)
  PROVE  \A k \in 1 .. N : \A v \in Node :
           R[k][v] < R[k - 1][v] =>
             \E C \in SUBSET Node : /\ Cardinality(C) = k /\ v \notin C
                                    /\ \A x \in C : R[k][x] < R[k][v]
<1>0. N \in Nat /\ N > 0 /\ IsFiniteSet(Node)
  BY NodeFacts
<1>1. R \in [0 .. N -> [Node -> Nat]]
  BY DEF IsRounds
<1> DEFINE Has(k, v) == \E C \in SUBSET Node : /\ Cardinality(C) = k /\ v \notin C
                                              /\ \A x \in C : R[k][x] < R[k][v]
           P == {k \in Nat : k + 1 \in 1 .. N =>
                   \A v \in Node : R[k + 1][v] < R[k][v] => Has(k + 1, v)}
<1>2. ASSUME NEW k \in 1 .. N, NEW v \in Node, R[k][v] < R[k - 1][v]
      PROVE  \E u \in Node : /\ u \in Elems(graph.in[v])
                             /\ R[k][v] = R[k - 1][u] + Weight[<<u, v>>]
                             /\ R[k - 1][u] < R[k][v]
  <2>1. k - 1 \in 0 .. N
    BY <1>0
  <2>2. R[k][v] \in Nat /\ R[k - 1][v] \in Nat
    BY <1>1, <2>1
  <2>3. PICK u \in Elems(graph.in[v]) : R[k][v] = R[k - 1][u] + Weight[<<u, v>>]
    <3>1. \/ R[k][v] = R[k - 1][v]
          \/ \E u \in Elems(graph.in[v]) : R[k][v] = R[k - 1][u] + Weight[<<u, v>>]
      BY DEF IsRounds
    <3>2. R[k][v] # R[k - 1][v]
      BY <1>2, <2>2
    <3> QED
      BY <3>1, <3>2
  <2>4. u \in Node
    BY GraphFacts
  <2>5. Weight[<<u, v>>] \in Nat \ {0} /\ R[k - 1][u] \in Nat
    BY <1>1, <2>1, <2>4, WeightType
  <2> QED
    BY <2>3, <2>4, <2>5
<1>3. 0 \in P
  <2>1. SUFFICES ASSUME NEW v \in Node, R[1][v] < R[0][v], 1 \in 1 .. N PROVE Has(1, v)
    OBVIOUS
  <2>2. PICK u \in Node : R[1][v] = R[0][u] + Weight[<<u, v>>] /\ R[0][u] < R[1][v]
    BY <1>2, <2>1
  <2>3. 0 \in 0 .. N /\ 1 \in 0 .. N
    BY <1>0
  <2>4. /\ R[0][v] \in Nat /\ R[1][v] \in Nat /\ R[0][u] \in Nat /\ R[1][u] \in Nat
        /\ R[1][u] <= R[0][u]
    <3>1. R[0] \in [Node -> Nat] /\ R[1] \in [Node -> Nat]
      BY <1>1, <2>3
    <3>2. \A n \in Node : R[1][n] <= R[1 - 1][n]
      BY <2>1 DEF IsRounds
    <3> QED
      BY <2>1, <2>2, <3>1, <3>2
  <2>5. R[1][u] < R[1][v] /\ u # v
    BY <2>2, <2>4
  <2>6. Cardinality({u}) = 1
    BY FS_Singleton
  <2> QED
    BY <2>5, <2>6
<1>4. ASSUME NEW k \in Nat, k \in P PROVE k + 1 \in P
  <2>1. SUFFICES ASSUME NEW v \in Node, R[(k + 1) + 1][v] < R[k + 1][v], (k + 1) + 1 \in 1 .. N
                 PROVE  Has((k + 1) + 1, v)
    OBVIOUS
  <2>2. PICK m, i : m = k + 1 /\ i = m + 1
    OBVIOUS
  <2>3. m \in 1 .. N /\ i \in 1 .. N /\ i - 1 = m /\ m - 1 = k /\ k \in 0 .. N /\ m \in 0 .. N /\ i \in 0 .. N
    BY <1>0, <2>1, <2>2
  <2>4. R[i][v] < R[i - 1][v]
    BY <2>1, <2>2, <2>3
  <2>5. PICK u \in Node : /\ u \in Elems(graph.in[v]) /\ R[i][v] = R[m][u] + Weight[<<u, v>>]
                          /\ R[m][u] < R[i][v]
    BY <1>2, <2>3, <2>4
  <2>6. /\ R[i][v] \in Nat /\ R[m][u] \in Nat /\ R[k][u] \in Nat /\ R[m][v] \in Nat
        /\ Weight[<<u, v>>] \in Nat /\ R[m][u] <= R[k][u]
        /\ R[m][v] <= R[k][u] + Weight[<<u, v>>]
    BY <1>1, <2>3, <2>5, WeightType DEF IsRounds
  <2>7. R[m][u] < R[k][u]
    BY <2>3, <2>4, <2>5, <2>6
  <2>8. PICK C \in SUBSET Node : /\ Cardinality(C) = m /\ u \notin C
                                 /\ \A x \in C : R[m][x] < R[m][u]
    <3>1. Has(k + 1, u)
      BY <1>4, <2>2, <2>3, <2>7
    <3> QED
      BY <2>2, <3>1
  <2>9. \A x \in C \cup {u} : R[i][x] < R[i][v]
    <3>1. \A x \in Node : R[i][x] \in Nat /\ R[m][x] \in Nat /\ R[i][x] <= R[m][x]
      BY <1>1, <2>3 DEF IsRounds
    <3>2. \A x \in C \cup {u} : x \in Node /\ R[m][x] <= R[m][u]
      BY <2>8, <3>1
    <3> QED
      BY <2>5, <2>6, <3>1, <3>2
  <2>10. v \notin C \cup {u}
    BY <2>6, <2>9
  <2>11. Cardinality(C \cup {u}) = i
    <3>1. IsFiniteSet(C)
      BY <1>0, FS_Subset
    <3>2. Cardinality(C \cup {u}) = Cardinality(C) + 1
      BY <2>8, <3>1, FS_AddElement
    <3> QED
      BY <2>2, <2>8, <3>2
  <2>12. Has(i, v)
    BY <2>9, <2>10, <2>11
  <2> QED
    BY <2>2, <2>12
<1>5. Nat \subseteq P
  <2> HIDE DEF P
  <2> QED
    BY <1>3, <1>4, NatSetInduction
<1>6. SUFFICES ASSUME NEW k \in 1 .. N, NEW v \in Node, R[k][v] < R[k - 1][v] PROVE Has(k, v)
  OBVIOUS
<1>7. k - 1 \in Nat /\ (k - 1) + 1 = k
  BY <1>0
<1>8. k - 1 \in P
  BY <1>5, <1>7
<1> QED
  BY <1>6, <1>7, <1>8

\* After N rounds nothing changes: the distances are the true ones.
LEMMA NearestIsNearest ==
  ASSUME graph \in Graphs, origin \in Node
  PROVE  IsNearest(Nearest(origin))
<1>0. N \in Nat /\ N > 0 /\ N \in 0 .. N /\ N - 1 \in 0 .. N /\ N \in 1 .. N
      /\ IsFiniteSet(Node) /\ Cardinality(Node) = N
  BY NodeFacts
<1>1. PICK R : IsRounds(R) /\ Nearest(origin) = R[N]
  BY NearestRounds
<1>2. PICK D : D = Nearest(origin)
  OBVIOUS
<1>3. R \in [0 .. N -> [Node -> Nat]]
  BY <1>1 DEF IsRounds
<1>4. D = R[N] /\ D \in [Node -> Nat]
  BY <1>0, <1>1, <1>2, <1>3
<1>5. \A v \in Node : R[N][v] = R[N - 1][v]
  <2> SUFFICES ASSUME NEW v \in Node, R[N][v] # R[N - 1][v] PROVE FALSE
    OBVIOUS
  <2>1. R[N][v] < R[N - 1][v]
    BY <1>0, <1>1, <1>3 DEF IsRounds
  <2>2. PICK C \in SUBSET Node : Cardinality(C) = N /\ v \notin C
    BY <1>0, <1>1, <2>1, NearerVertices
  <2>3. C = Node
    BY <1>0, <2>2, FS_Subset
  <2> QED
    BY <2>2, <2>3
<1>6. \A u \in Node : \A v \in Elems(graph.out[u]) : D[v] <= D[u] + Weight[<<u, v>>]
  <2> SUFFICES ASSUME NEW u \in Node, NEW v \in Elems(graph.out[u])
               PROVE  D[v] <= D[u] + Weight[<<u, v>>]
    OBVIOUS
  <2>1. v \in Node /\ u \in Elems(graph.in[v])
    BY GraphFacts
  <2>2. R[N][v] <= R[N - 1][u] + Weight[<<u, v>>]
    BY <1>0, <1>1, <2>1 DEF IsRounds
  <2> QED
    BY <1>4, <1>5, <2>2
<1>7. \A k \in 0 .. N : R[k][origin] = 0 /\ \A v \in Node : R[k][v] <= DistInf
  <2> DEFINE P == {k \in Nat : k \in 0 .. N => R[k][origin] = 0 /\ \A v \in Node : R[k][v] <= DistInf}
  <2>1. 0 \in P
    BY <1>1, WeightType DEF IsRounds
  <2>2. ASSUME NEW k \in Nat, k \in P PROVE k + 1 \in P
    <3>1. SUFFICES ASSUME k + 1 \in 0 .. N
                   PROVE  R[k + 1][origin] = 0 /\ \A v \in Node : R[k + 1][v] <= DistInf
      OBVIOUS
    <3>2. k \in 0 .. N /\ k + 1 \in 1 .. N /\ (k + 1) - 1 = k
      BY <1>0, <3>1
    <3>3. \A v \in Node : R[k + 1][v] <= R[k][v] /\ R[k + 1][v] \in Nat /\ R[k][v] \in Nat
      BY <1>1, <1>3, <3>2 DEF IsRounds
    <3>4. R[k][origin] = 0 /\ \A v \in Node : R[k][v] <= DistInf
      BY <2>2, <3>2
    <3> QED
      BY <3>3, <3>4, WeightType
  <2> HIDE DEF P
  <2>3. Nat \subseteq P
    BY <2>1, <2>2, NatSetInduction
  <2> QED
    BY <1>0, <2>3 DEF P
<1> QED
  BY <1>0, <1>2, <1>4, <1>6, <1>7 DEF IsNearest

\* Distances below c are true if no edge of a vertex below c improves one.
LEMMA BelowIsTrue ==
  ASSUME graph \in Graphs, origin \in Node, dist \in [Node -> 0 .. DistInf], dist[origin] = 0,
         NEW c \in Nat, \A v \in Node : dist[v] < c => Relaxed(dist, v)
  PROVE  \A v \in Node : Nearest(origin)[v] < c => dist[v] <= Nearest(origin)[v]
<1>0. N \in Nat /\ N > 0 /\ N \in 0 .. N
  BY NodeFacts
<1>1. PICK R : IsRounds(R) /\ Nearest(origin) = R[N]
  BY NearestRounds
<1>2. R \in [0 .. N -> [Node -> Nat]] /\ DistInf \in Nat
  BY <1>1, WeightType DEF IsRounds
<1> DEFINE P == {k \in Nat : k \in 0 .. N => \A v \in Node : R[k][v] < c => dist[v] <= R[k][v]}
<1>3. 0 \in P
  <2>1. \A v \in Node : R[0][v] = IF v = origin THEN 0 ELSE DistInf
    BY <1>1 DEF IsRounds
  <2>2. \A v \in Node : dist[v] <= R[0][v]
    BY <1>2, <2>1
  <2> QED
    BY <2>2
<1>4. ASSUME NEW k \in Nat, k \in P PROVE k + 1 \in P
  <2>1. SUFFICES ASSUME k + 1 \in 0 .. N, NEW v \in Node, R[k + 1][v] < c PROVE dist[v] <= R[k + 1][v]
    OBVIOUS
  <2>2. k \in 0 .. N /\ k + 1 \in 1 .. N /\ (k + 1) - 1 = k
    BY <1>0, <2>1
  <2>3. \A x \in Node : R[k][x] < c => dist[x] <= R[k][x]
    BY <1>4, <2>2
  <2>4. \/ R[k + 1][v] = R[k][v]
        \/ \E u \in Elems(graph.in[v]) : R[k + 1][v] = R[k][u] + Weight[<<u, v>>]
    BY <1>1, <2>2 DEF IsRounds
  <2>5. CASE R[k + 1][v] = R[k][v]
    BY <2>1, <2>3, <2>5
  <2>6. ASSUME NEW u \in Elems(graph.in[v]), R[k + 1][v] = R[k][u] + Weight[<<u, v>>]
        PROVE  dist[v] <= R[k + 1][v]
    <3>1. u \in Node /\ v \in Elems(graph.out[u])
      BY <2>1, GraphFacts
    <3>2. /\ R[k][u] \in Nat /\ R[k + 1][v] \in Nat /\ Weight[<<u, v>>] \in Nat \ {0}
          /\ dist[u] \in Nat /\ dist[v] \in Nat
      BY <1>2, <2>1, <2>2, <3>1, WeightType
    <3>3. R[k][u] < c
      BY <2>1, <2>6, <3>2
    <3>4. dist[u] <= R[k][u] /\ dist[u] < c
      BY <2>3, <3>1, <3>2, <3>3
    <3>5. dist[v] <= dist[u] + Weight[<<u, v>>]
      BY <3>1, <3>4 DEF Relaxed
    <3> QED
      BY <2>6, <3>2, <3>4, <3>5
  <2> QED
    BY <2>4, <2>5, <2>6
<1>5. Nat \subseteq P
  <2> HIDE DEF P
  <2> QED
    BY <1>3, <1>4, NatSetInduction
<1>6. N \in P
  BY <1>0, <1>5
<1> QED
  BY <1>0, <1>1, <1>6

-----------------------------------------------------------------------------
(* The list of a thread                                                    *)

NothingBegun(us, fused, x) == /\ x = (IF fused THEN [at |-> "fuse"] ELSE Idle)
                              /\ \A j \in 1 .. Len(us) : graph.out[us[j]] = <<>>

Begun(us, fused, x) ==
  /\ x.at = "readOld" /\ x.us \in Seq(Node) /\ x.us # <<>> /\ x.fused = fused
  /\ x.rest = graph.out[x.us[1]] /\ x.rest # <<>>
  /\ \A j \in 1 .. Len(x.us) : \E i \in 1 .. Len(us) : x.us[j] = us[i]
  /\ \A i \in 1 .. Len(us) : graph.out[us[i]] = <<>> \/ \E j \in 1 .. Len(x.us) : x.us[j] = us[i]

LEMMA BeginListFacts ==
  ASSUME graph \in Graphs, NEW us \in Seq(Node), NEW fused \in BOOLEAN, NEW x, x = BeginList(us, fused)
  PROVE  NothingBegun(us, fused, x) \/ Begun(us, fused, x)
<1>1. PICK busy, first : /\ busy = {i \in DOMAIN us : graph.out[us[i]] # <<>>}
                         /\ first = CHOOSE i \in busy : \A j \in busy : i <= j
  OBVIOUS
<1>2. x = IF busy # {} THEN Relaxing("readOld", SubSeq(us, first, Len(us)), graph.out[us[first]], fused, 0, 0)
          ELSE IF fused THEN [at |-> "fuse"] ELSE Idle
  BY <1>1 DEF BeginList
<1>3. Len(us) \in Nat /\ DOMAIN us = 1 .. Len(us)
  OBVIOUS
<1>4. CASE busy = {}
  BY <1>1, <1>2, <1>3, <1>4 DEF NothingBegun
<1>5. CASE busy # {}
  <2>1. busy \in SUBSET Nat
    BY <1>1, <1>3
  <2>2. first \in busy /\ \A j \in busy : first <= j
    <3>1. \E i \in busy : \A j \in busy : i <= j
      BY <1>5, <2>1, LeastNumber
    <3> QED
      BY <1>1, <3>1
  <2>3. PICK s, n : s = SubSeq(us, first, Len(us)) /\ n = Len(us) - first + 1
    OBVIOUS
  <2>4. first \in 1 .. Len(us) /\ graph.out[us[first]] # <<>>
    <3>1. \A i \in busy : i \in DOMAIN us /\ graph.out[us[i]] # <<>>
      BY <1>1
    <3> QED
      BY <1>3, <2>2, <3>1
  <2>5. /\ s \in Seq(Node) /\ Len(s) = n /\ n \in Nat \ {0}
        /\ \A j \in 1 .. n : s[j] = us[first + j - 1] /\ first + j - 1 \in 1 .. Len(us)
    BY <1>3, <2>3, <2>4
  <2>6. s[1] = us[first] /\ s # <<>>
    BY <2>4, <2>5
  <2>7. ASSUME NEW i \in 1 .. Len(us), graph.out[us[i]] # <<>>
        PROVE  \E j \in 1 .. n : s[j] = us[i]
    <3>1. i >= first
      BY <1>1, <1>3, <2>2, <2>7
    <3>2. i - first + 1 \in 1 .. n /\ first + (i - first + 1) - 1 = i
      BY <1>3, <2>3, <2>4, <3>1
    <3> QED
      BY <2>5, <3>2
  <2>8. x.at = "readOld" /\ x.us = s /\ x.fused = fused /\ x.rest = graph.out[s[1]]
            /\ x.rest # <<>>
    <3>1. PICK r : r = graph.out[us[first]]
      OBVIOUS
    <3>2. x = Relaxing("readOld", s, r, fused, 0, 0)
      BY <1>2, <1>5, <2>3, <3>1
    <3> QED
      BY <2>4, <2>6, <3>1, <3>2 DEF Relaxing
  <2>9. \A j \in 1 .. Len(s) : \E i \in 1 .. Len(us) : s[j] = us[i]
    BY <2>5
  <2>10. s \in Seq(Node) /\ s # <<>> /\ Len(s) = n
    BY <2>5, <2>6
  <2>11. \A i \in 1 .. Len(us) : graph.out[us[i]] = <<>> \/ \E j \in 1 .. Len(s) : s[j] = us[i]
    BY <2>7, <2>10
  <2> QED
    BY ONLY <2>8, <2>9, <2>10, <2>11 DEF Begun
<1> QED
  BY <1>4, <1>5

\* A thread that begins a list sees to all in it that have edges.
LEMMA ListBegun ==
  ASSUME graph \in Graphs, NEW us \in Seq(Node), NEW fused \in BOOLEAN, NEW x, x = BeginList(us, fused),
         NEW d, NEW low, \A j \in 1 .. Len(us) : d[us[j]] >= low
  PROVE  /\ RoundThread(d, x, low) /\ x.at # "joined" /\ (LeftLoop(x) => fused)
         /\ \A j \in 1 .. Len(us) : Relaxed(d, us[j]) \/ SeesTo(d, x, us[j])
<1>1. CASE NothingBegun(us, fused, x)
  <2>1. x.at \in {"idle", "fuse"} /\ (x.at = "idle" => x = Idle) /\ (x.at = "fuse" => fused)
    BY <1>1 DEF Idle, NothingBegun
  <2>2. \A j \in 1 .. Len(us) : Relaxed(d, us[j])
    BY <1>1, SeqFacts DEF Relaxed, NothingBegun
  <2> QED
    BY <2>1, <2>2 DEF RoundThread, IsRelaxing, LeftLoop
<1>2. CASE Begun(us, fused, x)
  <2>0. /\ x.at = "readOld" /\ x.us \in Seq(Node) /\ x.us # <<>> /\ x.fused = fused
        /\ x.rest = graph.out[x.us[1]] /\ x.rest # <<>>
        /\ \A j \in 1 .. Len(x.us) : \E i \in 1 .. Len(us) : x.us[j] = us[i]
        /\ \A i \in 1 .. Len(us) : graph.out[us[i]] = <<>> \/ \E j \in 1 .. Len(x.us) : x.us[j] = us[i]
    BY <1>2 DEF Begun
  <2>1. x.us[1] \in Node /\ Len(x.us) \in Nat /\ Len(x.us) > 0
    BY <2>0
  <2>2. x.rest \in Seq(Node)
    BY <2>0, <2>1, GraphFacts
  <2>3. \A j \in 1 .. Len(x.us) : d[x.us[j]] >= low
    BY <2>0
  <2>4. ListOK(d, x, low)
    BY <2>0, <2>2, <2>3 DEF ListOK
  <2>5. RoundThread(d, x, low)
    BY <2>0, <2>4 DEF RoundThread, RelaxOK
  <2>6. ASSUME NEW i \in 1 .. Len(us) PROVE Relaxed(d, us[i]) \/ SeesTo(d, x, us[i])
    <3>1. CASE graph.out[us[i]] = <<>>
      BY <3>1, SeqFacts DEF Relaxed
    <3>2. ASSUME NEW j \in 1 .. Len(x.us), x.us[j] = us[i]
          PROVE  SeesTo(d, x, us[i])
      <4>1. CASE j = 1
        BY <2>0, <3>2, <4>1 DEF SeesTo, LeftOf, IsRelaxing
      <4>2. CASE j # 1
        <5>1. j \in 2 .. Len(x.us)
          BY <2>1, <4>2
        <5> QED
          BY <2>0, <3>2, <5>1 DEF SeesTo, Later, IsRelaxing
      <4> QED
        BY <4>1, <4>2
    <3> QED
      BY <2>0, <3>1, <3>2
  <2>7. LeftLoop(x) => fused
    BY <2>0 DEF LeftLoop
  <2> QED
    BY <2>0, <2>5, <2>6, <2>7
<1> QED
  BY <1>1, <1>2, BeginListFacts

\* A thread is done with the first edge it had left.
LEMMA EdgeDone ==
  ASSUME graph \in Graphs, NEW d, NEW low, NEW th, ListOK(d, th, low),
         NEW x, x = Onward(th.us, Tail(th.rest), th.fused)
  PROVE  /\ RoundThread(d, x, low) /\ x.at # "joined" /\ (LeftLoop(x) => th.fused)
         /\ \A v \in Node : Later(th, v) \/ LeftOf(d, th, v, Tail(th.rest))
                              => Relaxed(d, v) \/ SeesTo(d, x, v)
<1>1. PICK us, rest, s, fused : us = th.us /\ s = th.rest /\ rest = Tail(s) /\ fused = th.fused
  OBVIOUS
<1>2. /\ us \in Seq(Node) /\ us # <<>> /\ \A j \in 1 .. Len(us) : d[us[j]] >= low
      /\ s \in Seq(Node) /\ s # <<>> /\ fused \in BOOLEAN
      /\ Elems(s) \subseteq Elems(graph.out[us[1]])
  BY <1>1 DEF ListOK
<1>3. rest \in Seq(Node) /\ Elems(s) = {Head(s)} \cup Elems(rest)
  BY <1>1, <1>2, TailFacts
<1>4. x = IF rest # <<>> THEN Relaxing("readOld", us, rest, fused, 0, 0) ELSE BeginList(Tail(us), fused)
  BY <1>1 DEF Onward
<1>5. CASE rest # <<>>
  <2>1. x.at = "readOld" /\ x.us = us /\ x.rest = rest /\ x.fused = fused
    BY <1>4, <1>5 DEF Relaxing
  <2>2. Elems(rest) \subseteq Elems(graph.out[us[1]])
    BY <1>2, <1>3
  <2>3. ListOK(d, x, low)
    BY <1>2, <1>3, <1>5, <2>1, <2>2 DEF ListOK
  <2>4. RoundThread(d, x, low)
    BY <2>1, <2>3 DEF RoundThread, RelaxOK
  <2>5. \A v : Later(th, v) => Later(x, v)
    BY <1>1, <2>1 DEF Later
  <2>6. \A v : LeftOf(d, th, v, rest) => LeftOf(d, x, v, rest)
    BY <1>1, <2>1 DEF LeftOf
  <2>7. \A v : Later(th, v) \/ LeftOf(d, th, v, rest) => SeesTo(d, x, v)
    BY <2>1, <2>5, <2>6 DEF SeesTo, IsRelaxing
  <2>8. LeftLoop(x) => fused
    BY <2>1 DEF LeftLoop
  <2> QED
    BY <1>1, <2>1, <2>4, <2>7, <2>8
<1>6. CASE rest = <<>>
  <2>1. PICK r : r = Tail(us)
    OBVIOUS
  <2>2. /\ r \in Seq(Node) /\ Len(r) = Len(us) - 1 /\ Len(us) \in Nat \ {0}
        /\ \A j \in 1 .. Len(r) : r[j] = us[j + 1] /\ j + 1 \in 1 .. Len(us)
    BY <1>2, <2>1
  <2>3. x = BeginList(r, fused)
    BY <1>4, <1>6, <2>1
  <2>4. \A j \in 1 .. Len(r) : d[r[j]] >= low
    BY <1>2, <2>2
  <2>5. /\ RoundThread(d, x, low) /\ x.at # "joined" /\ (LeftLoop(x) => fused)
        /\ \A j \in 1 .. Len(r) : Relaxed(d, r[j]) \/ SeesTo(d, x, r[j])
    BY <1>2, <2>2, <2>3, <2>4, ListBegun
  <2>6. ASSUME NEW v, Later(th, v) PROVE Relaxed(d, v) \/ SeesTo(d, x, v)
    <3>1. PICK j \in 2 .. Len(us) : us[j] = v
      BY <1>1, <2>6 DEF Later
    <3>2. j - 1 \in 1 .. Len(r) /\ (j - 1) + 1 = j
      BY <2>2, <3>1
    <3> QED
      BY <2>2, <2>5, <3>1, <3>2
  <2>7. ASSUME NEW v, LeftOf(d, th, v, rest) PROVE Relaxed(d, v)
    BY <1>6, <2>7, SeqFacts DEF LeftOf, Relaxed
  <2> QED
    BY <1>1, <2>5, <2>6, <2>7
<1> QED
  BY <1>5, <1>6


\* A thread compares what it would store with what it has read.
LEMMA AttemptDone ==
  ASSUME graph \in Graphs, NEW d \in [Node -> 0 .. DistInf], NEW low, NEW th, ListOK(d, th, low),
         NEW old \in 0 .. DistInf, old >= d[th.rest[1]],
         NEW new \in Nat, new >= d[th.us[1]] + Weight[<<th.us[1], th.rest[1]>>],
         NEW x, x = Attempt(th, old, new)
  PROVE  /\ RoundThread(d, x, low) /\ x.at # "joined" /\ (LeftLoop(x) => th.fused)
         /\ \A v \in Node :
              Later(th, v) \/ (LeftOf(d, th, v, th.rest) /\ new = d[v] + Weight[<<v, th.rest[1]>>])
                => Relaxed(d, v) \/ SeesTo(d, x, v)
<1>1. PICK us, s, fused : us = th.us /\ s = th.rest /\ fused = th.fused
  OBVIOUS
<1>2. /\ us \in Seq(Node) /\ us # <<>> /\ \A j \in 1 .. Len(us) : d[us[j]] >= low
      /\ s \in Seq(Node) /\ s # <<>> /\ fused \in BOOLEAN
      /\ Elems(s) \subseteq Elems(graph.out[us[1]])
  BY <1>1 DEF ListOK
<1>3. PICK a, b : a = us[1] /\ b = s[1]
  OBVIOUS
<1>4. a \in Node /\ b \in Node /\ b = Head(s)
  BY <1>2, <1>3
<1>5. /\ old >= d[b] /\ new >= d[a] + Weight[<<a, b>>] /\ d[b] \in Nat
      /\ Elems(s) = {b} \cup Elems(Tail(s))
  BY <1>1, <1>2, <1>3, <1>4, TailFacts, WeightType
<1>6. CASE new < old
  <2>1. x = Relaxing("improve", us, s, fused, old, new)
    BY <1>1, <1>6 DEF Attempt
  <2>2. x.at = "improve" /\ x.us = us /\ x.rest = s /\ x.fused = fused /\ x.old = old /\ x.new = new
    BY <2>1 DEF Relaxing
  <2>3. ListOK(d, x, low)
    BY <1>2, <2>2 DEF ListOK
  <2>4. RelaxOK(d, x, low)
    BY <1>3, <1>5, <1>6, <2>2, <2>3 DEF RelaxOK
  <2>5. RoundThread(d, x, low)
    BY <2>2, <2>4 DEF RoundThread
  <2>6. \A v : Later(th, v) => Later(x, v)
    BY <1>1, <2>2 DEF Later
  <2>7. \A v : LeftOf(d, th, v, th.rest) => LeftOf(d, x, v, x.rest)
    BY <1>1, <2>2 DEF LeftOf
  <2>8. LeftLoop(x) => fused
    BY <2>2 DEF LeftLoop
  <2> QED
    BY <1>1, <2>2, <2>5, <2>6, <2>7, <2>8 DEF SeesTo, IsRelaxing
<1>7. CASE ~(new < old)
  <2>1. x = Onward(th.us, Tail(th.rest), th.fused)
    BY <1>7 DEF Attempt
  <2>2. /\ RoundThread(d, x, low) /\ x.at # "joined" /\ (LeftLoop(x) => th.fused)
        /\ \A v \in Node : Later(th, v) \/ LeftOf(d, th, v, Tail(th.rest))
                             => Relaxed(d, v) \/ SeesTo(d, x, v)
    BY <2>1, EdgeDone
  <2>3. ASSUME NEW v \in Node, LeftOf(d, th, v, th.rest), new = d[v] + Weight[<<v, th.rest[1]>>]
        PROVE  LeftOf(d, th, v, Tail(th.rest))
    <3>1. v = a /\ \A w \in Elems(graph.out[v]) : w \in Elems(s) \/ d[w] <= d[v] + Weight[<<v, w>>]
      BY <1>1, <1>3, <2>3 DEF LeftOf
    <3>2. d[b] <= d[v] + Weight[<<v, b>>]
      BY <1>1, <1>3, <1>5, <1>7, <2>3
    <3>3. \A w \in Elems(graph.out[v]) : w \in Elems(Tail(s)) \/ d[w] <= d[v] + Weight[<<v, w>>]
      BY <1>5, <3>1, <3>2
    <3> QED
      BY <1>1, <1>3, <3>1, <3>3 DEF LeftOf
  <2> QED
    BY <2>2, <2>3
<1> QED
  BY <1>6, <1>7

\* What holds of a thread, and of a vertex that keeps its distance, holds when
\* other distances are lowered.
LEMMA Lowered ==
  ASSUME graph \in Graphs, NEW low \in Nat, NEW d \in [Node -> 0 .. DistInf], NEW e \in [Node -> 0 .. DistInf],
         \A v \in Node : e[v] <= d[v] /\ (e[v] = d[v] \/ e[v] >= low)
  PROVE  /\ \A th : RoundThread(d, th, low) => RoundThread(e, th, low)
         /\ \A v \in Node : e[v] = d[v] =>
              /\ Relaxed(d, v) => Relaxed(e, v)
              /\ \A th : RoundThread(d, th, low) /\ SeesTo(d, th, v) => SeesTo(e, th, v)
<1>1. \A v \in Node : d[v] \in Nat /\ e[v] \in Nat
  BY WeightType
<1>2. ASSUME NEW th, RoundThread(d, th, low) PROVE RoundThread(e, th, low)
  <2>1. SUFFICES ASSUME IsRelaxing(th), RelaxOK(d, th, low) PROVE RelaxOK(e, th, low)
    BY <1>2 DEF RoundThread
  <2>2. PICK us, s : us = th.us /\ s = th.rest
    OBVIOUS
  <2>3. us \in Seq(Node) /\ us # <<>> /\ s \in Seq(Node) /\ s # <<>> /\ \A j \in 1 .. Len(us) : d[us[j]] >= low
    BY <2>1, <2>2 DEF RelaxOK, ListOK
  <2>4. PICK a, b : a = us[1] /\ b = s[1]
    OBVIOUS
  <2>5. a \in Node /\ b \in Node /\ Weight[<<a, b>>] \in Nat /\ e[a] <= d[a] /\ e[b] <= d[b]
        /\ d[a] \in Nat /\ e[a] \in Nat /\ d[b] \in Nat /\ e[b] \in Nat
    BY <1>1, <2>3, <2>4, WeightType
  <2>6. \A j \in 1 .. Len(us) : us[j] \in Node
    BY <2>3
  <2>7. \A j \in 1 .. Len(us) : e[us[j]] >= low
    BY <1>1, <2>3, <2>6
  <2>8. ListOK(e, th, low)
    BY <2>1, <2>2, <2>7 DEF RelaxOK, ListOK
  <2>9. th.at \in {"readNew", "improve"} => th.old \in 0 .. DistInf /\ th.old >= e[th.rest[1]]
    <3>1. SUFFICES ASSUME th.at \in {"readNew", "improve"} PROVE th.old \in 0 .. DistInf /\ th.old >= e[th.rest[1]]
      OBVIOUS
    <3>2. th.old \in 0 .. DistInf /\ th.old >= d[b]
      BY <2>1, <2>2, <2>4, <3>1 DEF RelaxOK
    <3> QED
      BY <2>2, <2>4, <2>5, <3>2, WeightType
  <2>10. th.at \in {"improve", "recheck"} =>
           th.new \in Nat /\ th.new >= e[th.us[1]] + Weight[<<th.us[1], th.rest[1]>>]
    <3>1. SUFFICES ASSUME th.at \in {"improve", "recheck"}
                   PROVE  th.new \in Nat /\ th.new >= e[th.us[1]] + Weight[<<th.us[1], th.rest[1]>>]
      OBVIOUS
    <3>2. th.new \in Nat /\ th.new >= d[a] + Weight[<<a, b>>]
      BY <2>1, <2>2, <2>4, <3>1 DEF RelaxOK
    <3> QED
      BY <2>2, <2>4, <2>5, <3>2
  <2> QED
    BY <2>1, <2>8, <2>9, <2>10 DEF RelaxOK
<1>3. ASSUME NEW v \in Node, e[v] = d[v], Relaxed(d, v) PROVE Relaxed(e, v)
  <2>1. SUFFICES ASSUME NEW w \in Elems(graph.out[v]) PROVE e[w] <= e[v] + Weight[<<v, w>>]
    BY DEF Relaxed
  <2>2. w \in Node /\ d[w] <= d[v] + Weight[<<v, w>>]
    BY <1>3, <2>1, GraphFacts DEF Relaxed
  <2> QED
    BY <1>1, <1>3, <2>2, WeightType
<1>4. ASSUME NEW v \in Node, e[v] = d[v], NEW th, SeesTo(d, th, v) PROVE SeesTo(e, th, v)
  <2>1. CASE Later(th, v)
    BY <1>4, <2>1 DEF SeesTo
  <2>2. CASE ~Later(th, v)
    <3>1. LeftOf(d, th, v, th.rest)
      BY <1>4, <2>2 DEF SeesTo
    <3>2. ASSUME NEW w \in Elems(graph.out[v]), ~(w \in Elems(th.rest)) PROVE e[w] <= e[v] + Weight[<<v, w>>]
      <4>1. w \in Node /\ d[w] <= d[v] + Weight[<<v, w>>]
        BY <3>1, <3>2, GraphFacts DEF LeftOf
      <4> QED
        BY <1>1, <1>4, <4>1, WeightType
    <3>3. LeftOf(e, th, v, th.rest)
      BY <3>1, <3>2 DEF LeftOf
    <3>4. th.at \in {"improve", "recheck"} => th.new = e[v] + Weight[<<v, th.rest[1]>>]
      BY <1>4, <2>2 DEF SeesTo
    <3> QED
      BY <1>4, <3>3, <3>4 DEF SeesTo
  <2> QED
    BY <2>1, <2>2
<1> QED
  BY <1>2, <1>3, <1>4

-----------------------------------------------------------------------------
(* Steps of a round                                                        *)

LEMMA CommonFacts ==
  ASSUME NEW D, SsspCommon(D)
  PROVE  /\ delta \in Nat \ {0} /\ iter \in 0 .. 1 /\ Next1 \in 0 .. 1 /\ Next1 # iter
         /\ Curr \in 0 .. MaxBin /\ indexes[Next1] \in 0 .. MaxBin
         /\ MaxBin \in Nat \ {0} /\ DistInf = MaxBin
         /\ tails[iter] \in Nat /\ tails[Next1] \in Nat
         /\ \A v \in Node : dist[v] \in 0 .. DistInf /\ dist[v] \in Nat
         /\ \A t \in Threads : \A b \in 0 .. MaxBin - 1 : bins[t][b] \in Seq(Node)
<1>1. delta \in Nat \ {0}
  BY DeltaStepAssumption DEF SsspCommon
<1>2. iter = 0 \/ iter = 1
  BY DEF SsspCommon
<1>3. Next1 \in 0 .. 1 /\ Next1 # iter
  BY <1>2 DEF Next1
<1>4. Curr \in 0 .. MaxBin /\ indexes[Next1] \in 0 .. MaxBin /\ tails[iter] \in Nat /\ tails[Next1] \in Nat
  BY <1>3 DEF SsspCommon, Curr
<1>5. \A v \in Node : dist[v] \in 0 .. DistInf /\ dist[v] \in Nat
  BY WeightType DEF SsspCommon
<1>6. \A t \in Threads : \A b \in 0 .. MaxBin - 1 : bins[t][b] \in Seq(Node)
  BY DEF SsspCommon
<1> QED
  BY <1>1, <1>3, <1>4, <1>5, <1>6, WeightType DEF SsspCommon

(* What every step of a round must see to: t is the thread that takes it,  *)
(* x what it knows after it.                                               *)
RoundStep(D, low, t, x) ==
  /\ UNCHANGED <<kernel, graph, origin, delta, step, frontier, tails, iter>>
  /\ thread' = [thread EXCEPT ![t] = x] /\ todo' \subseteq todo
  /\ dist' \in [Node -> 0 .. DistInf]
  /\ \A v \in Node : /\ D[v] <= dist'[v] /\ dist'[v] <= dist[v]
                     /\ dist'[v] = dist[v] \/ (dist'[v] >= low /\ InBins(dist, bins[t], v)')
  /\ bins' \in [Threads -> [0 .. MaxBin - 1 -> Seq(Node)]]
  /\ \A s \in Threads \ {t} : bins'[s] = bins[s]
  /\ \A b \in 0 .. Curr - 1 : bins'[t][b] = <<>>
  /\ \A v \in Elems(bins'[t][Curr]) : dist'[v] >= low
  /\ indexes' \in [0 .. 1 -> 0 .. MaxBin] /\ indexes'[iter] = indexes[iter]
  /\ indexes'[Next1] <= indexes[Next1] /\ indexes'[Next1] >= Curr
  /\ RoundThread(dist', x, low) /\ (LeftLoop(x) => todo' = {})
  /\ x.at = "joined" => \A b \in Curr .. MaxBin - 1 : bins'[t][b] # <<>> => indexes'[Next1] <= b
  /\ \A v \in Node :
       /\ dist'[v] = dist[v]
       /\ \/ \E i \in todo \ todo' : frontier[i] = v /\ dist[v] >= low
          \/ InBins(dist, bins[t], v) \/ SeesTo(dist, thread[t], v)
       => Relaxed(dist', v) \/ InBins(dist, bins[t], v)' \/ SeesTo(dist', x, v)

LEMMA RelaxKept ==
  ASSUME NEW D, SsspCommon(D), IsNearest(D), NEW low, RelaxInv(low), NEW t \in Threads, NEW x, RoundStep(D, low, t, x)
  PROVE  SsspCommon(D)' /\ RelaxInv(low)'
<1>1. PICK c, n, d, e : c = Curr /\ n = Next1 /\ d = dist /\ e = dist'
  OBVIOUS
<1>2. /\ kernel' = kernel /\ graph' = graph /\ origin' = origin /\ delta' = delta /\ step' = step
      /\ frontier' = frontier /\ tails' = tails /\ iter' = iter
      /\ thread' = [thread EXCEPT ![t] = x] /\ todo' \subseteq todo
      /\ e \in [Node -> 0 .. DistInf]
      /\ \A v \in Node : /\ D[v] <= e[v] /\ e[v] <= d[v]
                         /\ e[v] = d[v] \/ (e[v] >= low /\ InBins(dist, bins[t], v)')
      /\ bins' \in [Threads -> [0 .. MaxBin - 1 -> Seq(Node)]]
      /\ \A s \in Threads \ {t} : bins'[s] = bins[s]
      /\ \A b \in 0 .. c - 1 : bins'[t][b] = <<>>
      /\ \A v \in Elems(bins'[t][c]) : e[v] >= low
      /\ indexes' \in [0 .. 1 -> 0 .. MaxBin] /\ indexes'[iter] = indexes[iter]
      /\ indexes'[n] <= indexes[n] /\ indexes'[n] >= c
      /\ RoundThread(e, x, low) /\ (LeftLoop(x) => todo' = {})
      /\ x.at = "joined" => \A b \in c .. MaxBin - 1 : bins'[t][b] # <<>> => indexes'[n] <= b
  BY <1>1 DEF RoundStep
<1>3. /\ delta \in Nat \ {0} /\ iter \in 0 .. 1 /\ n \in 0 .. 1 /\ n # iter /\ MaxBin \in Nat \ {0}
      /\ d \in [Node -> 0 .. DistInf] /\ DOMAIN thread = Threads /\ graph \in Graphs /\ origin \in Node
      /\ d[origin] = 0 /\ indexes \in [0 .. 1 -> 0 .. MaxBin] /\ bins \in [Threads -> [0 .. MaxBin - 1 -> Seq(Node)]]
  BY <1>1, CommonFacts DEF SsspCommon
<1>4. /\ step = "relax" /\ low = delta * c /\ c \in 0 .. MaxBin - 1 /\ indexes[n] >= c /\ tails[n] = 0
      /\ todo \subseteq 0 .. tails[iter] - 1
      /\ \A i \in todo : i \in DOMAIN frontier /\ frontier[i] \in Node
      /\ \A s \in Threads : RoundThread(d, thread[s], low) /\ (LeftLoop(thread[s]) => todo = {})
      /\ \A s \in Threads : \A b \in 0 .. c - 1 : bins[s][b] = <<>>
      /\ \A s \in Threads : \A v \in Elems(bins[s][c]) : d[v] >= low
      /\ \A s \in Threads : thread[s].at = "joined" =>
           \A b \in c .. MaxBin - 1 : bins[s][b] # <<>> => indexes[n] <= b
      /\ \A v \in Node : \/ Relaxed(d, v)
                         \/ \E i \in todo : frontier[i] = v /\ d[v] >= low
                         \/ \E s \in Threads : InBins(d, bins[s], v) \/ SeesTo(d, thread[s], v)
  BY <1>1 DEF RelaxInv
<1>5. Curr' = c /\ Next1' = n
  BY <1>1, <1>2 DEF Curr, Next1
<1>6. low \in Nat
  BY <1>3, <1>4
<1>7. thread'[t] = x /\ DOMAIN thread' = Threads /\ \A s \in Threads \ {t} : thread'[s] = thread[s]
  BY <1>2, <1>3
<1>8. \A v \in Node : e[v] <= d[v] /\ (e[v] = d[v] \/ e[v] >= low)
  BY <1>2
<1>9. /\ \A th : RoundThread(d, th, low) => RoundThread(e, th, low)
      /\ \A v \in Node : e[v] = d[v] =>
           /\ Relaxed(d, v) => Relaxed(e, v)
           /\ \A th : RoundThread(d, th, low) /\ SeesTo(d, th, v) => SeesTo(e, th, v)
  BY <1>2, <1>3, <1>6, <1>8, Lowered
<1>10. \A s \in Threads : RoundThread(e, thread'[s], low) /\ (LeftLoop(thread'[s]) => todo' = {})
  <2>1. \A s \in Threads \ {t} : RoundThread(e, thread'[s], low) /\ (LeftLoop(thread'[s]) => todo' = {})
    BY <1>2, <1>4, <1>7, <1>9
  <2> QED
    BY <1>2, <1>7, <2>1
<1>11. \A s \in Threads : \A b \in 0 .. c - 1 : bins'[s][b] = <<>>
  BY <1>2, <1>4
<1>12. \A s \in Threads : \A v \in Elems(bins'[s][c]) : e[v] >= low
  <2>1. ASSUME NEW s \in Threads \ {t}, NEW v \in Elems(bins[s][c]) PROVE e[v] >= low
    <3>1. bins[s][c] \in Seq(Node) /\ v \in Node
      <4>1. bins[s][c] \in Seq(Node)
        BY <1>3, <1>4
      <4> QED
        BY <2>1, <4>1 DEF Elems
    <3>2. d[v] >= low
      BY <1>4, <2>1
    <3> QED
      BY <1>8, <3>1, <3>2
  <2> QED
    BY <1>2, <2>1
<1>13. \A s \in Threads : thread'[s].at = "joined" =>
         \A b \in c .. MaxBin - 1 : bins'[s][b] # <<>> => indexes'[n] <= b
  <2>1. ASSUME NEW s \in Threads \ {t}, thread[s].at = "joined", NEW b \in c .. MaxBin - 1, bins[s][b] # <<>>
        PROVE  indexes'[n] <= b
    <3>1. indexes[n] <= b
      BY <1>4, <2>1
    <3>2. indexes[n] \in Nat /\ indexes'[n] \in Nat /\ b \in Nat /\ indexes'[n] <= indexes[n]
      <4>1. indexes[n] \in 0 .. MaxBin /\ indexes'[n] \in 0 .. MaxBin /\ c \in 0 .. MaxBin - 1
        BY <1>2, <1>3, <1>4
      <4> QED
        BY <1>2, <1>3, <2>1, <4>1
    <3> QED
      BY <3>1, <3>2
  <2>2. \A s \in Threads \ {t} : thread'[s].at = "joined" =>
          \A b \in c .. MaxBin - 1 : bins'[s][b] # <<>> => indexes'[n] <= b
    BY <1>2, <1>7, <2>1
  <2> QED
    BY <1>2, <1>7, <2>2
<1>14. ASSUME NEW v \in Node
       PROVE  \/ Relaxed(e, v)
              \/ \E i \in todo' : frontier[i] = v /\ e[v] >= low
              \/ \E s \in Threads : InBins(dist, bins[s], v)' \/ SeesTo(e, thread'[s], v)
  <2>1. CASE e[v] # d[v]
    BY <1>2, <2>1
  <2>2. CASE e[v] = d[v]
    <3>1. (\/ \E i \in todo \ todo' : frontier[i] = v /\ d[v] >= low
           \/ InBins(d, bins[t], v) \/ SeesTo(d, thread[t], v))
            => Relaxed(e, v) \/ InBins(dist, bins[t], v)' \/ SeesTo(e, x, v)
      BY <1>1, <2>2 DEF RoundStep
    <3>2. CASE Relaxed(d, v)
      BY <1>9, <2>2, <3>2
    <3>3. CASE \E i \in todo : frontier[i] = v /\ d[v] >= low
      <4>1. PICK i \in todo : frontier[i] = v /\ d[v] >= low
        BY <3>3
      <4>2. CASE i \in todo'
        BY <2>2, <4>1, <4>2
      <4>3. CASE i \notin todo'
        BY <1>7, <3>1, <4>1, <4>3
      <4> QED
        BY <4>2, <4>3
    <3>4. ASSUME NEW s \in Threads, InBins(d, bins[s], v) \/ SeesTo(d, thread[s], v)
          PROVE  \/ Relaxed(e, v) \/ \E r \in Threads : InBins(dist, bins[r], v)' \/ SeesTo(e, thread'[r], v)
      <4>1. CASE s = t
        BY <1>7, <3>1, <3>4, <4>1
      <4>2. CASE s # t
        <5>1. bins'[s] = bins[s] /\ thread'[s] = thread[s] /\ RoundThread(d, thread[s], low)
          BY <1>2, <1>4, <1>7, <4>2
        <5>2. InBins(d, bins[s], v) => InBins(dist, bins[s], v)'
          BY <1>1, <1>2, <2>2, <5>1 DEF InBins
        <5>3. SeesTo(d, thread[s], v) => SeesTo(e, thread'[s], v)
          BY <1>9, <2>2, <5>1
        <5> QED
          BY <3>4, <5>2, <5>3
      <4> QED
        BY <4>1, <4>2
    <3> QED
      BY <1>4, <3>2, <3>3, <3>4
  <2> QED
    BY <2>1, <2>2
<1>16. SsspCommon(D)'
  <2>1. e[origin] = 0
    <3>1. e[origin] <= 0 /\ e[origin] \in Nat
      BY <1>2, <1>3, WeightType
    <3> QED
      BY <3>1
  <2> QED
    BY <1>1, <1>2, <1>3, <1>7, <2>1 DEF SsspCommon, MaxBin
<1>17. ASSUME NEW s \in Threads
       PROVE  /\ RoundThread(dist, thread[s], low)'
              /\ LeftLoop(thread[s])' => todo' = {}
              /\ \A v \in Node : SeesTo(e, thread'[s], v) => SeesTo(dist, thread[s], v)'
  <2>1. PICK th : th = thread'[s]
    OBVIOUS
  <2>2. RoundThread(e, th, low) /\ (LeftLoop(th) => todo' = {})
    BY <1>10, <2>1
  <2>3. RoundThread(dist, thread[s], low)'
    BY <1>1, <1>2, <2>1, <2>2 DEF RoundThread, RelaxOK, ListOK, IsRelaxing
  <2>4. LeftLoop(thread[s])' => todo' = {}
    BY <2>1, <2>2 DEF LeftLoop, IsRelaxing
  <2>5. \A v \in Node : SeesTo(e, th, v) => SeesTo(dist, thread[s], v)'
    BY <1>1, <1>2, <2>1 DEF SeesTo, LeftOf, Later, IsRelaxing
  <2> QED
    BY <2>1, <2>3, <2>4, <2>5
<1>18. ASSUME NEW v \in Node
       PROVE  \/ Relaxed(dist, v)'
              \/ \E i \in todo' : frontier'[i] = v /\ dist'[v] >= low
              \/ \E s \in Threads : InBins(dist, bins[s], v)' \/ SeesTo(dist, thread[s], v)'
  <2>1. Relaxed(e, v) => Relaxed(dist, v)'
    BY <1>1, <1>2 DEF Relaxed
  <2> QED
    BY <1>1, <1>2, <1>14, <1>17, <2>1
<1>19. /\ step' = "relax" /\ low = delta' * Curr' /\ Curr' \in 0 .. MaxBin - 1
       /\ indexes'[Next1'] >= Curr' /\ tails'[Next1'] = 0
       /\ todo' \subseteq 0 .. tails'[iter'] - 1
       /\ \A i \in todo' : i \in DOMAIN frontier' /\ frontier'[i] \in Node
  BY <1>2, <1>4, <1>5
<1>20. RelaxInv(low)'
  BY <1>1, <1>5, <1>11, <1>12, <1>13, <1>17, <1>18, <1>19 DEF RelaxInv, MaxBin
<1> QED
  BY <1>16, <1>20

\* Steps that change no distance and no bin.
LEMMA QuietRound ==
  ASSUME NEW D, SsspCommon(D), NEW low, RelaxInv(low), NEW t \in Threads, NEW x,
         UNCHANGED <<kernel, graph, origin, delta, step, frontier, tails, iter, dist, bins, indexes>>,
         thread' = [thread EXCEPT ![t] = x], todo' \subseteq todo,
         RoundThread(dist, x, low), LeftLoop(x) => todo' = {}, x.at # "joined",
         \A v \in Node : (\/ \E i \in todo \ todo' : frontier[i] = v /\ dist[v] >= low
                          \/ SeesTo(dist, thread[t], v))
                           => Relaxed(dist, v) \/ SeesTo(dist, x, v)
  PROVE  RoundStep(D, low, t, x)
<1>1. /\ kernel' = kernel /\ graph' = graph /\ origin' = origin /\ delta' = delta /\ step' = step
      /\ frontier' = frontier /\ tails' = tails /\ iter' = iter /\ dist' = dist /\ bins' = bins
      /\ indexes' = indexes
  OBVIOUS
<1>2. /\ dist \in [Node -> 0 .. DistInf] /\ \A v \in Node : D[v] <= dist[v] /\ dist[v] <= dist[v]
      /\ bins \in [Threads -> [0 .. MaxBin - 1 -> Seq(Node)]] /\ indexes \in [0 .. 1 -> 0 .. MaxBin]
      /\ indexes[Next1] \in 0 .. MaxBin
  BY CommonFacts DEF SsspCommon
<1>3. indexes[Next1] <= indexes[Next1]
  BY <1>2, WeightType
<1>4. /\ indexes[Next1] >= Curr /\ \A b \in 0 .. Curr - 1 : bins[t][b] = <<>>
      /\ \A v \in Elems(bins[t][Curr]) : dist[v] >= low
  BY DEF RelaxInv
<1>5. \A v : InBins(dist, bins[t], v) => InBins(dist, bins[t], v)'
  BY <1>1 DEF InBins
<1>6. \A s \in Threads \ {t} : bins'[s] = bins[s]
  BY <1>1
<1>7. RoundThread(dist', x, low) /\ (\A v : Relaxed(dist, v) => Relaxed(dist', v))
      /\ \A v : SeesTo(dist, x, v) => SeesTo(dist', x, v)
  BY <1>1
<1> QED
  BY <1>1, <1>2, <1>3, <1>4, <1>5, <1>6, <1>7 DEF RoundStep

\* What a thread at an edge has.
LEMMA AtEdge ==
  ASSUME NEW D, SsspCommon(D), NEW low, RelaxInv(low), NEW th, IsRelaxing(th), RoundThread(dist, th, low)
  PROVE  /\ RelaxOK(dist, th, low) /\ ListOK(dist, th, low)
         /\ Head(th.us) = th.us[1] /\ Head(th.rest) = th.rest[1]
         /\ th.us[1] \in Node /\ th.rest[1] \in Node /\ th.rest[1] \in Elems(graph.out[th.us[1]])
         /\ dist[th.us[1]] \in Nat /\ dist[th.us[1]] >= low /\ dist[th.rest[1]] \in 0 .. DistInf
         /\ Weight[<<th.us[1], th.rest[1]>>] \in Nat \ {0}
<1>1. RelaxOK(dist, th, low) /\ ListOK(dist, th, low)
  BY DEF RoundThread, RelaxOK
<1>2. PICK us, s : us = th.us /\ s = th.rest
  OBVIOUS
<1>3. /\ us \in Seq(Node) /\ us # <<>> /\ s \in Seq(Node) /\ s # <<>>
      /\ \A j \in 1 .. Len(us) : dist[us[j]] >= low
      /\ Elems(s) \subseteq Elems(graph.out[us[1]])
  BY <1>1, <1>2 DEF ListOK
<1>4. us[1] \in Node /\ Head(us) = us[1] /\ s[1] \in Node /\ Head(s) = s[1] /\ dist[us[1]] >= low
  BY <1>3
<1>5. s[1] \in Elems(graph.out[us[1]])
  BY <1>3, <1>4, TailFacts
<1> QED
  BY <1>1, <1>2, <1>4, <1>5, CommonFacts, WeightType

LEMMA TakeFrontierStep ==
  ASSUME NEW D, SsspCommon(D), NEW low, RelaxInv(low), NEW t \in Threads, NEW i \in todo, TakeFrontier(t, i)
  PROVE  \E x : RoundStep(D, low, t, x)
<1>1. PICK u, x : u = frontier[i] /\ x = IF dist[u] >= delta * Curr THEN BeginList(<<u>>, FALSE) ELSE Idle
  OBVIOUS
<1>2. /\ thread[t] = Idle /\ todo' = todo \ {i} /\ thread' = [thread EXCEPT ![t] = x]
      /\ UNCHANGED <<kernel, graph, step, origin, delta, dist, frontier, tails, indexes, iter, bins>>
  BY <1>1 DEF TakeFrontier, Take
<1>3. low = delta * Curr /\ u \in Node
  BY <1>1 DEF RelaxInv
<1>4. \A v : ~SeesTo(dist, thread[t], v)
  BY <1>2 DEF SeesTo, IsRelaxing, Idle
<1>5. CASE dist[u] >= delta * Curr
  <2>1. PICK us : us = <<u>>
    OBVIOUS
  <2>2. us \in Seq(Node) /\ Len(us) = 1 /\ us[1] = u
    BY <1>3, <2>1
  <2>3. \A j \in 1 .. Len(us) : dist[us[j]] >= low
    BY <1>3, <1>5, <2>2
  <2>4. x = BeginList(us, FALSE) /\ graph \in Graphs
    BY <1>1, <1>5, <2>1 DEF SsspCommon
  <2>5. /\ RoundThread(dist, x, low) /\ x.at # "joined" /\ (LeftLoop(x) => FALSE)
        /\ \A j \in 1 .. Len(us) : Relaxed(dist, us[j]) \/ SeesTo(dist, x, us[j])
    BY <2>2, <2>3, <2>4, ListBegun
  <2>6. Relaxed(dist, u) \/ SeesTo(dist, x, u)
    BY <2>2, <2>5
  <2> QED
    BY <1>1, <1>2, <1>4, <2>5, <2>6, QuietRound
<1>6. CASE ~(dist[u] >= delta * Curr)
  <2>1. x = Idle
    BY <1>1, <1>6
  <2>2. RoundThread(dist, x, low) /\ x.at # "joined" /\ ~LeftLoop(x)
    BY <2>1 DEF RoundThread, IsRelaxing, LeftLoop, Idle
  <2> QED
    BY <1>1, <1>2, <1>3, <1>4, <1>6, <2>2, QuietRound
<1> QED
  BY <1>5, <1>6

LEMMA ReadOldStep ==
  ASSUME NEW D, SsspCommon(D), NEW low, RelaxInv(low), NEW t \in Threads, ReadOld(t)
  PROVE  \E x : RoundStep(D, low, t, x)
<1>1. PICK th : th = thread[t]
  OBVIOUS
<1>2. PICK old, x : /\ old = dist[Head(th.rest)]
                    /\ x = Relaxing("readNew", th.us, th.rest, th.fused, old, 0)
  OBVIOUS
<1>3. /\ th.at = "readOld" /\ thread' = [thread EXCEPT ![t] = x]
      /\ UNCHANGED <<kernel, graph, step, todo, origin, delta, dist, frontier, tails, indexes, iter, bins>>
  BY <1>1, <1>2 DEF ReadOld, Goes
<1>4. RoundThread(dist, th, low) /\ (LeftLoop(th) => todo = {}) /\ IsRelaxing(th)
  BY <1>1, <1>3 DEF RelaxInv, IsRelaxing
<1>5. /\ ListOK(dist, th, low) /\ Head(th.rest) = th.rest[1] /\ dist[th.rest[1]] \in 0 .. DistInf
      /\ dist[th.rest[1]] \in Nat
  <2>1. /\ ListOK(dist, th, low) /\ Head(th.rest) = th.rest[1] /\ dist[th.rest[1]] \in 0 .. DistInf
    BY <1>4, AtEdge
  <2> QED
    BY <2>1, WeightType
<1>6. /\ x.at = "readNew" /\ x.us = th.us /\ x.rest = th.rest /\ x.fused = th.fused
      /\ x.old = dist[th.rest[1]]
  BY <1>2, <1>5 DEF Relaxing
<1>7. ListOK(dist, x, low)
  BY <1>5, <1>6 DEF ListOK
<1>8. RoundThread(dist, x, low)
  BY <1>5, <1>6, <1>7 DEF RoundThread, RelaxOK
<1>9. LeftLoop(x) => todo' = {}
  BY <1>3, <1>4, <1>6 DEF LeftLoop, IsRelaxing
<1>10. \A v : SeesTo(dist, th, v) => SeesTo(dist, x, v)
  BY <1>6 DEF SeesTo, Later, LeftOf, IsRelaxing
<1> QED
  BY <1>1, <1>3, <1>6, <1>8, <1>9, <1>10, QuietRound

LEMMA ReadNewStep ==
  ASSUME NEW D, SsspCommon(D), NEW low, RelaxInv(low), NEW t \in Threads, ReadNew(t)
  PROVE  \E x : RoundStep(D, low, t, x)
<1>1. PICK th : th = thread[t]
  OBVIOUS
<1>2. PICK new, x : new = dist[Head(th.us)] + Weight[<<Head(th.us), Head(th.rest)>>] /\ x = Attempt(th, th.old, new)
  OBVIOUS
<1>3. /\ th.at = "readNew" /\ thread' = [thread EXCEPT ![t] = x]
      /\ UNCHANGED <<kernel, graph, step, todo, origin, delta, dist, frontier, tails, indexes, iter, bins>>
  BY <1>1, <1>2 DEF ReadNew, Goes
<1>4. RoundThread(dist, th, low) /\ (LeftLoop(th) => todo = {}) /\ IsRelaxing(th)
  BY <1>1, <1>3 DEF RelaxInv, IsRelaxing
<1>5. /\ RelaxOK(dist, th, low) /\ ListOK(dist, th, low) /\ Head(th.us) = th.us[1] /\ Head(th.rest) = th.rest[1]
      /\ dist[th.us[1]] \in Nat /\ Weight[<<th.us[1], th.rest[1]>>] \in Nat \ {0}
  BY <1>4, AtEdge
<1>6. PICK old : old = th.old
  OBVIOUS
<1>7. old \in 0 .. DistInf /\ old >= dist[th.rest[1]]
  BY <1>3, <1>5, <1>6 DEF RelaxOK
<1>8. /\ new = dist[th.us[1]] + Weight[<<th.us[1], th.rest[1]>>] /\ new \in Nat
      /\ new >= dist[th.us[1]] + Weight[<<th.us[1], th.rest[1]>>]
  BY <1>2, <1>5
<1>9. x = Attempt(th, old, new) /\ graph \in Graphs /\ dist \in [Node -> 0 .. DistInf]
  BY <1>2, <1>6 DEF SsspCommon
<1>10. /\ RoundThread(dist, x, low) /\ x.at # "joined" /\ (LeftLoop(x) => th.fused)
       /\ \A v \in Node :
            Later(th, v) \/ (LeftOf(dist, th, v, th.rest) /\ new = dist[v] + Weight[<<v, th.rest[1]>>])
              => Relaxed(dist, v) \/ SeesTo(dist, x, v)
  BY <1>5, <1>7, <1>8, <1>9, AttemptDone
<1>11. LeftLoop(x) => todo' = {}
  BY <1>3, <1>4, <1>10 DEF LeftLoop
<1>12. \A v \in Node : SeesTo(dist, th, v) => Relaxed(dist, v) \/ SeesTo(dist, x, v)
  BY <1>8, <1>10 DEF SeesTo, LeftOf
<1> QED
  BY <1>1, <1>3, <1>10, <1>11, <1>12, QuietRound

LEMMA RecheckStep ==
  ASSUME NEW D, SsspCommon(D), NEW low, RelaxInv(low), NEW t \in Threads, Recheck(t)
  PROVE  \E x : RoundStep(D, low, t, x)
<1>1. PICK th : th = thread[t]
  OBVIOUS
<1>2. PICK old, new, x : old = dist[Head(th.rest)] /\ new = th.new /\ x = Attempt(th, old, new)
  OBVIOUS
<1>3. /\ th.at = "recheck" /\ thread' = [thread EXCEPT ![t] = x]
      /\ UNCHANGED <<kernel, graph, step, todo, origin, delta, dist, frontier, tails, indexes, iter, bins>>
  BY <1>1, <1>2 DEF Recheck, Goes
<1>4. RoundThread(dist, th, low) /\ (LeftLoop(th) => todo = {}) /\ IsRelaxing(th)
  BY <1>1, <1>3 DEF RelaxInv, IsRelaxing
<1>5. /\ RelaxOK(dist, th, low) /\ ListOK(dist, th, low) /\ Head(th.rest) = th.rest[1]
      /\ dist[th.rest[1]] \in 0 .. DistInf
  BY <1>4, AtEdge
<1>6. new \in Nat /\ new >= dist[th.us[1]] + Weight[<<th.us[1], th.rest[1]>>]
  BY <1>2, <1>3, <1>5 DEF RelaxOK
<1>7. old \in 0 .. DistInf /\ old >= dist[th.rest[1]]
  BY <1>2, <1>5, WeightType
<1>8. graph \in Graphs /\ dist \in [Node -> 0 .. DistInf]
  BY DEF SsspCommon
<1>9. /\ RoundThread(dist, x, low) /\ x.at # "joined" /\ (LeftLoop(x) => th.fused)
      /\ \A v \in Node :
           Later(th, v) \/ (LeftOf(dist, th, v, th.rest) /\ new = dist[v] + Weight[<<v, th.rest[1]>>])
             => Relaxed(dist, v) \/ SeesTo(dist, x, v)
  BY <1>2, <1>5, <1>6, <1>7, <1>8, AttemptDone
<1>10. LeftLoop(x) => todo' = {}
  BY <1>3, <1>4, <1>9 DEF LeftLoop
<1>11. \A v \in Node : SeesTo(dist, th, v) => Relaxed(dist, v) \/ SeesTo(dist, x, v)
  BY <1>2, <1>3, <1>9 DEF SeesTo
<1> QED
  BY <1>1, <1>3, <1>9, <1>10, <1>11, QuietRound

LEMMA LeaveLoopStep ==
  ASSUME NEW D, SsspCommon(D), NEW low, RelaxInv(low), NEW t \in Threads, LeaveLoop(t)
  PROVE  \E x : RoundStep(D, low, t, x)
<1>1. PICK x : x = [at |-> "fuse"]
  OBVIOUS
<1>2. /\ thread[t] = Idle /\ todo = {} /\ thread' = [thread EXCEPT ![t] = x]
      /\ UNCHANGED <<kernel, graph, step, todo, origin, delta, dist, frontier, tails, indexes, iter, bins>>
  BY <1>1 DEF LeaveLoop, Goes
<1>3. \A v : ~SeesTo(dist, thread[t], v)
  BY <1>2 DEF SeesTo, IsRelaxing, Idle
<1>4. x.at = "fuse"
  BY <1>1
<1>5. RoundThread(dist, x, low)
  BY <1>4 DEF RoundThread, IsRelaxing
<1> QED
  BY <1>2, <1>3, <1>4, <1>5, QuietRound

\* One bin of one thread is replaced.
LEMMA NewBin ==
  ASSUME bins \in [Threads -> [0 .. MaxBin - 1 -> Seq(Node)]], NEW t \in Threads, NEW c \in 0 .. MaxBin - 1,
         NEW s \in Seq(Node), bins' = [bins EXCEPT ![t][c] = s]
  PROVE  /\ bins' \in [Threads -> [0 .. MaxBin - 1 -> Seq(Node)]]
         /\ \A r \in Threads \ {t} : bins'[r] = bins[r]
         /\ bins'[t][c] = s /\ \A b \in (0 .. MaxBin - 1) \ {c} : bins'[t][b] = bins[t][b]
<1>1. PICK B, row, old : B = 0 .. MaxBin - 1 /\ old = bins[t] /\ row = [old EXCEPT ![c] = s]
  OBVIOUS
<1>2. c \in B /\ old \in [B -> Seq(Node)]
  BY <1>1
<1>3. row \in [B -> Seq(Node)] /\ row[c] = s /\ \A b \in B \ {c} : row[b] = old[b]
  BY <1>1, <1>2
<1>4. bins' = [bins EXCEPT ![t] = row]
  BY <1>1
<1> QED
  BY <1>1, <1>3, <1>4

\* Bucket fusion: the thread goes on with what fell into the bin of the round.
LEMMA FuseStep ==
  ASSUME NEW D, SsspCommon(D), NEW low, RelaxInv(low), NEW t \in Threads, Fuse(t)
  PROVE  \E x : RoundStep(D, low, t, x)
<1>1. PICK c, mine : c = Curr /\ mine = bins[t][c]
  OBVIOUS
<1>2. /\ thread[t].at = "fuse"
      /\ UNCHANGED <<kernel, graph, step, todo, origin, delta, dist, frontier, tails, indexes, iter>>
  BY DEF Fuse, Goes
<1>3. todo = {} /\ \A v : ~SeesTo(dist, thread[t], v)
  BY <1>2 DEF RelaxInv, LeftLoop, SeesTo, IsRelaxing
<1>4. CASE ~(mine # <<>> /\ Len(mine) < FuseLimit)
  <2>1. PICK x : x = [at |-> "vote"]
    OBVIOUS
  <2>2. thread' = [thread EXCEPT ![t] = x] /\ bins' = bins
    BY <1>1, <1>4, <2>1 DEF Fuse, Goes
  <2>3. x.at = "vote"
    BY <2>1
  <2>4. RoundThread(dist, x, low)
    BY <2>3 DEF RoundThread, IsRelaxing
  <2> QED
    BY <1>2, <1>3, <2>2, <2>3, <2>4, QuietRound
<1>5. CASE mine # <<>> /\ Len(mine) < FuseLimit
  <2>1. PICK x : x = BeginList(mine, TRUE)
    OBVIOUS
  <2>2. thread' = [thread EXCEPT ![t] = x] /\ bins' = [bins EXCEPT ![t][c] = <<>>]
    BY <1>1, <1>5, <2>1 DEF Fuse, Goes
  <2>3. /\ c \in 0 .. MaxBin - 1 /\ graph \in Graphs /\ dist \in [Node -> 0 .. DistInf]
        /\ bins \in [Threads -> [0 .. MaxBin - 1 -> Seq(Node)]] /\ indexes \in [0 .. 1 -> 0 .. MaxBin]
        /\ indexes[Next1] \in 0 .. MaxBin /\ indexes[Next1] >= c
        /\ \A v \in Node : D[v] <= dist[v]
        /\ \A b \in 0 .. c - 1 : bins[t][b] = <<>>
        /\ \A v \in Elems(mine) : dist[v] >= low
    BY <1>1, CommonFacts DEF SsspCommon, RelaxInv
  <2>4. mine \in Seq(Node) /\ DOMAIN mine = 1 .. Len(mine)
    <3>1. bins[t] \in [0 .. MaxBin - 1 -> Seq(Node)] /\ c \in 0 .. MaxBin - 1
      BY <2>3
    <3>2. mine \in Seq(Node)
      BY <1>1, <3>1
    <3> QED
      BY <3>2
  <2>5. \A j \in 1 .. Len(mine) : dist[mine[j]] >= low
    BY <2>3, <2>4 DEF Elems
  <2>6. /\ RoundThread(dist, x, low) /\ x.at # "joined"
        /\ \A j \in 1 .. Len(mine) : Relaxed(dist, mine[j]) \/ SeesTo(dist, x, mine[j])
    BY <2>1, <2>3, <2>4, <2>5, ListBegun
  <2>7. /\ bins' \in [Threads -> [0 .. MaxBin - 1 -> Seq(Node)]]
        /\ \A s \in Threads \ {t} : bins'[s] = bins[s]
        /\ bins'[t][c] = <<>> /\ \A b \in (0 .. MaxBin - 1) \ {c} : bins'[t][b] = bins[t][b]
    <3>1. PICK s : s = <<>>
      OBVIOUS
    <3>2. s \in Seq(Node) /\ bins' = [bins EXCEPT ![t][c] = s]
      BY <2>2, <3>1
    <3> QED
      BY <2>3, <3>1, <3>2, NewBin
  <2>8. \A b \in 0 .. c - 1 : bins'[t][b] = <<>>
    <3>1. \A b \in 0 .. c - 1 : b \in (0 .. MaxBin - 1) \ {c}
      BY <2>3, WeightType
    <3> QED
      BY <2>3, <2>7, <3>1
  <2>9. ASSUME NEW v \in Node, InBins(dist, bins[t], v)
        PROVE  Relaxed(dist, v) \/ InBins(dist, bins[t], v)' \/ SeesTo(dist, x, v)
    <3>1. PICK b : b = dist[v] \div delta
      OBVIOUS
    <3>2. b \in 0 .. MaxBin - 1 /\ v \in Elems(bins[t][b])
      BY <2>9, <3>1 DEF InBins
    <3>3. CASE b = c
      <4>1. \E j \in 1 .. Len(mine) : mine[j] = v
        BY <1>1, <2>4, <3>2, <3>3 DEF Elems
      <4> QED
        BY <2>6, <4>1
    <3>4. CASE b # c
      <4>1. bins'[t][b] = bins[t][b] /\ dist' = dist /\ delta' = delta
        BY <1>2, <2>7, <3>2, <3>4
      <4> QED
        BY <3>1, <3>2, <4>1 DEF InBins, MaxBin
    <3> QED
      BY <3>3, <3>4
  <2>10. Elems(bins'[t][c]) = {}
    BY <2>7, SeqFacts
  <2>11. indexes[Next1] <= indexes[Next1] /\ \A v \in Node : dist[v] <= dist[v]
    BY <2>3, WeightType
  <2>12. /\ dist' = dist /\ indexes' = indexes /\ todo' = todo
    BY <1>2
  <2>13. /\ RoundThread(dist', x, low) /\ (\A v : Relaxed(dist, v) => Relaxed(dist', v))
         /\ \A v : SeesTo(dist, x, v) => SeesTo(dist', x, v)
    BY <2>6, <2>12
  <2> QED
    BY <1>1, <1>2, <1>3, <2>2, <2>3, <2>6, <2>7, <2>8, <2>9, <2>10, <2>11, <2>12, <2>13 DEF RoundStep
<1> QED
  BY <1>4, <1>5

\* The least of the votes is kept.
LEMMA VoteStep ==
  ASSUME NEW D, SsspCommon(D), NEW low, RelaxInv(low), NEW t \in Threads, Vote(t)
  PROVE  \E x : RoundStep(D, low, t, x)
<1>1. PICK c, n, x : c = Curr /\ n = Next1 /\ x = [at |-> "joined"]
  OBVIOUS
<1>2. PICK filled, least : /\ filled = {b \in c .. MaxBin - 1 : bins[t][b] # <<>>}
                           /\ least = CHOOSE b \in filled : \A e \in filled : b <= e
  OBVIOUS
<1>3. /\ thread[t].at = "vote" /\ thread' = [thread EXCEPT ![t] = x]
      /\ indexes' = IF filled = {} THEN indexes ELSE [indexes EXCEPT ![n] = Smaller(@, least)]
      /\ UNCHANGED <<kernel, graph, step, todo, origin, delta, dist, frontier, tails, iter, bins>>
  BY <1>1, <1>2 DEF Vote, Goes
<1>4. todo = {} /\ \A v : ~SeesTo(dist, thread[t], v)
  BY <1>3 DEF RelaxInv, LeftLoop, SeesTo, IsRelaxing
<1>5. /\ c \in 0 .. MaxBin - 1 /\ MaxBin \in Nat /\ dist \in [Node -> 0 .. DistInf]
      /\ bins \in [Threads -> [0 .. MaxBin - 1 -> Seq(Node)]] /\ indexes \in [0 .. 1 -> 0 .. MaxBin]
      /\ n \in 0 .. 1 /\ iter \in 0 .. 1 /\ n # iter
      /\ indexes[n] \in 0 .. MaxBin /\ indexes[n] >= c
      /\ \A v \in Node : D[v] <= dist[v]
      /\ \A b \in 0 .. c - 1 : bins[t][b] = <<>>
      /\ \A v \in Elems(bins[t][c]) : dist[v] >= low
  BY <1>1, CommonFacts DEF SsspCommon, RelaxInv
<1>6. /\ indexes' \in [0 .. 1 -> 0 .. MaxBin] /\ indexes'[iter] = indexes[iter]
      /\ indexes'[n] <= indexes[n] /\ indexes'[n] >= c /\ \A b \in filled : indexes'[n] <= b
  <2>1. CASE filled = {}
    BY <1>3, <1>5, <2>1
  <2>2. CASE filled # {}
    <3>1. filled \in SUBSET Nat
      BY <1>2, <1>5
    <3>2. \E b \in filled : \A e \in filled : b <= e
      BY <2>2, <3>1, LeastNumber
    <3>3. least \in filled /\ \A e \in filled : least <= e
      BY <1>2, <3>2
    <3>4. least \in c .. MaxBin - 1
      BY <1>2, <3>3
    <3>5. PICK k : k = Smaller(indexes[n], least)
      OBVIOUS
    <3>6. k \in 0 .. MaxBin /\ k <= indexes[n] /\ k >= c /\ k <= least
      BY <1>5, <3>4, <3>5 DEF Smaller
    <3>7. indexes' = [indexes EXCEPT ![n] = k]
      BY <1>3, <2>2, <3>5
    <3>8. indexes' \in [0 .. 1 -> 0 .. MaxBin] /\ indexes'[iter] = indexes[iter] /\ indexes'[n] = k
      BY <1>5, <3>6, <3>7
    <3>9. \A b \in filled : k <= b
      BY <1>5, <3>1, <3>3, <3>4, <3>6
    <3> QED
      BY <3>6, <3>8, <3>9
  <2> QED
    BY <2>1, <2>2
<1>7. x.at = "joined"
  BY <1>1
<1>8. RoundThread(dist, x, low)
  BY <1>7 DEF RoundThread, IsRelaxing
<1>9. \A b \in c .. MaxBin - 1 : bins[t][b] # <<>> => indexes'[n] <= b
  BY <1>2, <1>6
<1>10. dist' = dist /\ bins' = bins /\ todo' = todo /\ delta' = delta
  BY <1>3
<1>11. \A v : InBins(dist, bins[t], v) => InBins(dist, bins[t], v)'
  BY <1>10 DEF InBins, MaxBin
<1>12. RoundThread(dist', x, low) /\ \A v \in Node : dist[v] <= dist[v]
  BY <1>5, <1>8, <1>10, WeightType
<1>13. \A s \in Threads \ {t} : bins'[s] = bins[s]
  BY <1>10
<1> QED
  BY <1>1, <1>3, <1>4, <1>5, <1>6, <1>9, <1>10, <1>11, <1>12, <1>13 DEF RoundStep

\* The compare-and-swap. The lowered vertex falls into the bin of its new
\* distance, which is not below the one of the round.
LEMMA ImproveStep ==
  ASSUME NEW D, SsspCommon(D), IsNearest(D), NEW low, RelaxInv(low), NEW t \in Threads, Improve(t)
  PROVE  \E x : RoundStep(D, low, t, x)
<1>1. PICK th, a, b, old, new, c : /\ th = thread[t] /\ a = th.us[1] /\ b = th.rest[1]
                                   /\ old = th.old /\ new = th.new /\ c = Curr
  OBVIOUS
<1>2. /\ th.at = "improve"
      /\ UNCHANGED <<kernel, graph, step, todo, origin, delta, frontier, tails, indexes, iter>>
  BY <1>1 DEF Improve, Goes
<1>3. RoundThread(dist, th, low) /\ (LeftLoop(th) => todo = {}) /\ IsRelaxing(th)
  BY <1>1, <1>2 DEF RelaxInv, IsRelaxing
<1>4. /\ RelaxOK(dist, th, low) /\ ListOK(dist, th, low) /\ Head(th.us) = a /\ Head(th.rest) = b
      /\ a \in Node /\ b \in Node /\ b \in Elems(graph.out[a])
      /\ dist[a] \in Nat /\ dist[a] >= low /\ dist[b] \in 0 .. DistInf /\ Weight[<<a, b>>] \in Nat \ {0}
  BY <1>1, <1>3, AtEdge
<1>5. /\ new \in Nat /\ new >= dist[a] + Weight[<<a, b>>] /\ old \in 0 .. DistInf /\ old >= dist[b]
      /\ new < old
  BY <1>1, <1>2, <1>4 DEF RelaxOK
<1>6. /\ low = delta * c /\ c \in 0 .. MaxBin - 1 /\ delta \in Nat \ {0} /\ MaxBin \in Nat /\ DistInf = MaxBin
      /\ low \in Nat /\ graph \in Graphs /\ dist \in [Node -> 0 .. DistInf]
      /\ bins \in [Threads -> [0 .. MaxBin - 1 -> Seq(Node)]] /\ indexes \in [0 .. 1 -> 0 .. MaxBin]
      /\ indexes[Next1] \in 0 .. MaxBin /\ indexes[Next1] >= c
      /\ \A v \in Node : D[v] <= dist[v]
      /\ \A e \in 0 .. c - 1 : bins[t][e] = <<>>
      /\ \A v \in Elems(bins[t][c]) : dist[v] >= low
  <2>1. /\ low = delta * c /\ c \in 0 .. MaxBin - 1 /\ delta \in Nat \ {0} /\ MaxBin \in Nat /\ DistInf = MaxBin
        /\ indexes[Next1] \in 0 .. MaxBin /\ indexes[Next1] >= c
    BY <1>1, CommonFacts DEF RelaxInv
  <2>2. low \in Nat
    BY <2>1
  <2>3. /\ graph \in Graphs /\ dist \in [Node -> 0 .. DistInf]
        /\ bins \in [Threads -> [0 .. MaxBin - 1 -> Seq(Node)]] /\ indexes \in [0 .. 1 -> 0 .. MaxBin]
        /\ \A v \in Node : D[v] <= dist[v]
    BY DEF SsspCommon
  <2>4. /\ \A e \in 0 .. c - 1 : bins[t][e] = <<>>
        /\ \A v \in Elems(bins[t][c]) : dist[v] >= low
    BY <1>1 DEF RelaxInv
  <2> QED
    BY <2>1, <2>2, <2>3, <2>4
<1>7. CASE dist[b] # old
  <2>1. PICK x : x = Relaxing("recheck", th.us, th.rest, th.fused, 0, new)
    OBVIOUS
  <2>2. thread' = [thread EXCEPT ![t] = x] /\ dist' = dist /\ bins' = bins
    BY <1>1, <1>4, <1>7, <2>1 DEF Improve, Goes
  <2>3. x.at = "recheck" /\ x.us = th.us /\ x.rest = th.rest /\ x.fused = th.fused /\ x.new = new
    BY <2>1 DEF Relaxing
  <2>4. ListOK(dist, x, low)
    BY <1>4, <2>3 DEF ListOK
  <2>5. RoundThread(dist, x, low)
    BY <1>1, <1>5, <2>3, <2>4 DEF RoundThread, RelaxOK
  <2>6. LeftLoop(x) => todo' = {}
    BY <1>2, <1>3, <2>3 DEF LeftLoop, IsRelaxing
  <2>7. \A v : SeesTo(dist, th, v) => SeesTo(dist, x, v)
    BY <1>1, <1>2, <2>3 DEF SeesTo, Later, LeftOf, IsRelaxing
  <2> QED
    BY <1>1, <1>2, <2>2, <2>3, <2>5, <2>6, <2>7, QuietRound
<1>8. CASE dist[b] = old
  <2>1. PICK x, e, k, s : /\ x = Onward(th.us, Tail(th.rest), th.fused) /\ e = dist'
                          /\ k = new \div delta /\ s = Append(bins[t][k], b)
    OBVIOUS
  <2>2. /\ thread' = [thread EXCEPT ![t] = x] /\ e = [dist EXCEPT ![b] = new]
        /\ bins' = [bins EXCEPT ![t][k] = s]
    BY <1>1, <1>4, <1>8, <2>1 DEF Improve, Goes
  <2>3. k \in 0 .. MaxBin - 1 /\ k >= c /\ new >= low
    <3>1. new < MaxBin /\ new >= low /\ c \in Nat
      BY <1>4, <1>5, <1>6
    <3>2. k \in Nat /\ k <= new /\ (new >= delta * c <=> k >= c)
      BY <1>5, <1>6, <2>1, <3>1, DivFacts
    <3>3. k >= c
      BY <1>6, <3>1, <3>2
    <3>4. MaxBin \in Nat /\ k \in 0 .. MaxBin - 1
      BY <1>5, <1>6, <3>1, <3>2
    <3> QED
      BY <3>1, <3>3, <3>4
  <2>4. bins[t][k] \in Seq(Node)
    <3>1. bins[t] \in [0 .. MaxBin - 1 -> Seq(Node)]
      BY <1>6
    <3> QED
      BY <2>3, <3>1
  <2>5. s \in Seq(Node) /\ Elems(s) = Elems(bins[t][k]) \cup {b}
    BY <1>4, <2>1, <2>4, SeqFacts
  <2>6. /\ bins' \in [Threads -> [0 .. MaxBin - 1 -> Seq(Node)]]
        /\ \A r \in Threads \ {t} : bins'[r] = bins[r]
        /\ bins'[t][k] = s /\ \A i \in (0 .. MaxBin - 1) \ {k} : bins'[t][i] = bins[t][i]
    BY <1>6, <2>2, <2>3, <2>5, NewBin
  <2>7. e \in [Node -> 0 .. DistInf] /\ e[b] = new /\ \A v \in Node \ {b} : e[v] = dist[v]
    BY <1>4, <1>5, <1>6, <2>2
  <2>8. ASSUME NEW v \in Node
        PROVE  D[v] <= e[v] /\ e[v] <= dist[v] /\ (e[v] = dist[v] \/ e[v] >= low)
    <3>1. CASE v = b
      <4>1. D[b] <= D[a] + Weight[<<a, b>>] /\ D[a] \in Nat /\ D[b] \in Nat /\ D[a] <= dist[a]
        BY <1>4, <1>6 DEF IsNearest
      <4>2. D[b] <= new
        BY <1>4, <1>5, <4>1
      <4> QED
        BY <1>4, <1>5, <1>8, <2>3, <2>7, <3>1, <4>2
    <3>2. CASE v # b
      <4>1. e[v] = dist[v] /\ dist[v] \in Nat /\ D[v] <= dist[v]
        BY <1>6, <2>7, <3>2
      <4> QED
        BY <4>1
    <3> QED
      BY <3>1, <3>2
  <2>9. /\ \A w : RoundThread(dist, w, low) => RoundThread(e, w, low)
        /\ \A v \in Node : e[v] = dist[v] =>
             /\ Relaxed(dist, v) => Relaxed(e, v)
             /\ \A w : RoundThread(dist, w, low) /\ SeesTo(dist, w, v) => SeesTo(e, w, v)
    <3>1. \A v \in Node : e[v] <= dist[v] /\ (e[v] = dist[v] \/ e[v] >= low)
      BY <2>8
    <3> QED
      BY <1>6, <2>7, <3>1, Lowered
  <2>10. ListOK(e, th, low)
    BY <1>3, <2>9 DEF RoundThread, RelaxOK
  <2>11. /\ RoundThread(e, x, low) /\ x.at # "joined" /\ (LeftLoop(x) => th.fused)
         /\ \A v \in Node : Later(th, v) \/ LeftOf(e, th, v, Tail(th.rest))
                              => Relaxed(e, v) \/ SeesTo(e, x, v)
    BY <1>6, <2>1, <2>10, EdgeDone
  <2>12. LeftLoop(x) => todo' = {}
    BY <1>2, <1>3, <2>11 DEF LeftLoop
  <2>13. ASSUME NEW v \in Node, e[v] = dist[v], SeesTo(dist, th, v)
         PROVE  Relaxed(e, v) \/ SeesTo(e, x, v)
    <3>1. SeesTo(e, th, v)
      BY <1>3, <2>9, <2>13
    <3>2. CASE Later(th, v)
      BY <2>11, <3>2
    <3>3. CASE ~Later(th, v)
      <4>1. LeftOf(e, th, v, th.rest) /\ new = e[v] + Weight[<<v, b>>]
        BY <1>1, <1>2, <3>1, <3>3 DEF SeesTo
      <4>2. PICK r : r = th.rest
        OBVIOUS
      <4>3. Elems(r) = {b} \cup Elems(Tail(r))
        BY <1>4, <4>2, TailFacts DEF ListOK
      <4>4. v = th.us[1] /\ \A w \in Elems(graph.out[v]) : w \in Elems(r) \/ e[w] <= e[v] + Weight[<<v, w>>]
        BY <4>1, <4>2 DEF LeftOf
      <4>5. e[b] <= e[v] + Weight[<<v, b>>]
        BY <1>5, <2>7, <4>1
      <4>6. \A w \in Elems(graph.out[v]) : w \in Elems(Tail(r)) \/ e[w] <= e[v] + Weight[<<v, w>>]
        BY <4>3, <4>4, <4>5
      <4>7. LeftOf(e, th, v, Tail(th.rest))
        BY <4>2, <4>4, <4>6 DEF LeftOf
      <4> QED
        BY <2>11, <4>7
    <3> QED
      BY <3>2, <3>3
  <2>14. \A i \in 0 .. MaxBin - 1 : Elems(bins[t][i]) \subseteq Elems(bins'[t][i])
    BY <2>5, <2>6
  <2>15. ASSUME NEW v \in Node, e[v] = dist[v], InBins(dist, bins[t], v) PROVE InBins(dist, bins[t], v)'
    <3>1. PICK i : i = dist[v] \div delta
      OBVIOUS
    <3>2. i \in 0 .. MaxBin - 1 /\ v \in Elems(bins[t][i])
      BY <2>15, <3>1 DEF InBins
    <3>3. v \in Elems(bins'[t][i]) /\ i = dist'[v] \div delta'
      BY <1>2, <2>1, <2>14, <2>15, <3>1, <3>2
    <3> QED
      BY <3>2, <3>3 DEF InBins, MaxBin
  <2>16. InBins(dist, bins[t], b)'
    <3>1. k = dist'[b] \div delta' /\ b \in Elems(bins'[t][k])
      BY <1>2, <2>1, <2>5, <2>6, <2>7
    <3> QED
      BY <2>3, <3>1 DEF InBins, MaxBin
  <2>17. \A v \in Node : e[v] = dist[v] \/ (e[v] >= low /\ InBins(dist, bins[t], v)')
    BY <2>3, <2>7, <2>16
  <2>18. \A i \in 0 .. c - 1 : bins'[t][i] = <<>>
    <3>1. \A i \in 0 .. c - 1 : i \in (0 .. MaxBin - 1) \ {k}
      BY <1>6, <2>3
    <3> QED
      BY <1>6, <2>6, <3>1
  <2>19. \A v \in Elems(bins'[t][c]) : e[v] >= low
    <3>1. ASSUME NEW v \in Elems(bins[t][c]) PROVE e[v] >= low
      <4>1. bins[t][c] \in Seq(Node)
        <5>1. bins[t] \in [0 .. MaxBin - 1 -> Seq(Node)]
          BY <1>6
        <5> QED
          BY <1>6, <5>1
      <4>2. v \in Node
        <5>1. \A q \in Seq(Node) : Elems(q) \subseteq Node
          BY DEF Elems
        <5> QED
          BY <3>1, <4>1, <5>1
      <4>3. dist[v] >= low
        BY <1>6, <3>1
      <4> QED
        BY <2>8, <4>2, <4>3
    <3>2. Elems(bins'[t][c]) \subseteq Elems(bins[t][c]) \cup {b}
      <4>1. CASE c = k
        BY <2>5, <2>6, <4>1
      <4>2. CASE c # k
        BY <1>6, <2>6, <4>2
      <4> QED
        BY <4>1, <4>2
    <3> QED
      BY <2>3, <2>7, <3>1, <3>2
  <2>20. indexes' = indexes /\ todo' = todo /\ indexes[Next1] <= indexes[Next1]
    BY <1>2, <1>6
  <2>21. /\ dist' \in [Node -> 0 .. DistInf]
         /\ \A v \in Node : /\ D[v] <= dist'[v] /\ dist'[v] <= dist[v]
                            /\ dist'[v] = dist[v] \/ (dist'[v] >= low /\ InBins(dist, bins[t], v)')
    BY <2>1, <2>7, <2>8, <2>17
  <2>22. /\ \A i \in 0 .. Curr - 1 : bins'[t][i] = <<>>
         /\ \A v \in Elems(bins'[t][Curr]) : dist'[v] >= low
    BY <1>1, <2>1, <2>18, <2>19
  <2>23. /\ indexes' \in [0 .. 1 -> 0 .. MaxBin] /\ indexes'[iter] = indexes[iter]
         /\ indexes'[Next1] <= indexes[Next1] /\ indexes'[Next1] >= Curr
    BY <1>1, <1>6, <2>20
  <2>24. RoundThread(dist', x, low) /\ (LeftLoop(x) => todo' = {}) /\ x.at # "joined"
    BY <2>1, <2>11, <2>12
  <2>25. ASSUME NEW v \in Node, dist'[v] = dist[v],
                \/ \E i \in todo \ todo' : frontier[i] = v /\ dist[v] >= low
                \/ InBins(dist, bins[t], v) \/ SeesTo(dist, thread[t], v)
         PROVE  Relaxed(dist', v) \/ InBins(dist, bins[t], v)' \/ SeesTo(dist', x, v)
    BY <1>1, <2>1, <2>13, <2>15, <2>20, <2>25
  <2>26. /\ UNCHANGED <<kernel, graph, origin, delta, step, frontier, tails, iter>>
         /\ thread' = [thread EXCEPT ![t] = x] /\ todo' \subseteq todo
    BY <1>2, <2>2
  <2>27. RoundStep(D, low, t, x)
    BY <2>6, <2>21, <2>22, <2>23, <2>24, <2>25, <2>26 DEF RoundStep
  <2> QED
    BY <2>27
<1> QED
  BY <1>7, <1>8

\* The barrier at the end of a round: nothing is left that a thread would see
\* to, and the least of the votes is the first bin anything waits in.
LEMMA Barrier1Step ==
  ASSUME NEW D, SsspCommon(D), NEW low, RelaxInv(low), Barrier1
  PROVE  SsspCommon(D)' /\ \E b : FillInv(b)'
<1>1. PICK b, c, n : b = indexes[Next1] /\ c = Curr /\ n = Next1
  OBVIOUS
<1>2. /\ \A t \in Threads : thread[t].at = "joined"
      /\ step' = "fill" /\ todo' = {0} /\ thread' = [t \in Threads |-> Idle]
      /\ kernel' = kernel /\ graph' = graph /\ origin' = origin /\ delta' = delta /\ dist' = dist
      /\ frontier' = frontier /\ tails' = tails /\ indexes' = indexes /\ iter' = iter /\ bins' = bins
  BY DEF Barrier1, Joined1, BeginLoop
<1>3. /\ b \in 0 .. MaxBin /\ c \in 0 .. MaxBin - 1 /\ MaxBin \in Nat /\ b >= c /\ tails[n] = 0 /\ b = indexes[n]
      /\ \A t \in Threads : \A e \in 0 .. c - 1 : bins[t][e] = <<>>
      /\ \A t \in Threads : \A e \in c .. MaxBin - 1 : bins[t][e] # <<>> => b <= e
  BY <1>1, <1>2, CommonFacts DEF RelaxInv
<1>4. todo = {}
  <2>1. PICK t : t \in Threads
    BY KernelAssumption
  <2>2. LeftLoop(thread[t])
    BY <1>2, <2>1 DEF LeftLoop
  <2> QED
    BY <2>1, <2>2 DEF RelaxInv
<1>5. \A t \in Threads : \A v : ~SeesTo(dist, thread[t], v)
  BY <1>2 DEF SeesTo, IsRelaxing
<1>6. \A v \in Node : Relaxed(dist, v) \/ \E t \in Threads : InBins(dist, bins[t], v)
  BY <1>4, <1>5 DEF RelaxInv
<1>7. \A v \in Node : Relaxed(dist, v)' \/ \E t \in Threads : InBins(dist, bins[t], v)'
  BY <1>2, <1>6 DEF Relaxed, InBins, MaxBin
<1>8. SsspCommon(D)'
  BY <1>2 DEF SsspCommon, MaxBin
<1>9. Next1' = n /\ \A t \in Threads : thread'[t] = Idle /\ thread'[t].at = "idle"
  BY <1>1, <1>2 DEF Next1, Idle
<1>10. \A t \in Threads : \A i : ~OwesPlace(thread[t], bins[t], b, i)'
  BY <1>9 DEF OwesPlace
<1>11. \A t \in Threads : \A e \in 0 .. b - 1 : bins'[t][e] = <<>>
  <2> SUFFICES ASSUME NEW t \in Threads, NEW e \in 0 .. b - 1 PROVE bins[t][e] = <<>>
    BY <1>2
  <2>1. e \in 0 .. c - 1 \/ (e \in c .. MaxBin - 1 /\ ~(b <= e))
    BY <1>3
  <2> QED
    BY <1>3, <2>1
<1>12. tails'[n] = 0 /\ 0 .. tails'[n] - 1 = {}
  BY <1>2, <1>3
<1>13. FillInv(b)'
  BY <1>1, <1>2, <1>3, <1>7, <1>9, <1>10, <1>11, <1>12 DEF FillInv, MaxBin
<1> QED
  BY <1>8, <1>13

\* The steps of a round are the ones of this step of the kernel.
LEMMA RelaxPhase ==
  ASSUME NEW D, SsspCommon(D), IsNearest(D), NEW low, RelaxInv(low), SsspNext
  PROVE  SsspCommon(D)' /\ (RelaxInv(low)' \/ \E b : FillInv(b)')
<1>1. ASSUME NEW t \in Threads, NEW x, RoundStep(D, low, t, x)
      PROVE  SsspCommon(D)' /\ (RelaxInv(low)' \/ \E b : FillInv(b)')
  BY <1>1, RelaxKept
<1>2. step = "relax" /\ \A t \in Threads : thread[t].at \notin {"single", "claim", "copy"}
  BY DEF RelaxInv, RoundThread
<1>3. ~Barrier2 /\ \A t \in Threads : /\ ~EnterSingle(t) /\ ~ResetCurr(t) /\ ~PassSingle(t)
                                      /\ ~ClaimPlaces(t) /\ ~CopyBin(t) /\ ~Overrun(t)
  BY <1>2 DEF Barrier2, EnterSingle, ResetCurr, PassSingle, ClaimPlaces, CopyBin, Overrun
<1>4. CASE Barrier1
  BY <1>4, Barrier1Step
<1>5. ASSUME NEW t \in Threads,
             \/ \E i \in todo : TakeFrontier(t, i)
             \/ RelaxEdges(t) \/ LeaveLoop(t) \/ Fuse(t) \/ Vote(t)
      PROVE  \E x : RoundStep(D, low, t, x)
  <2>1. CASE \E i \in todo : TakeFrontier(t, i)
    BY <2>1, TakeFrontierStep
  <2>2. CASE ReadOld(t)
    BY <2>2, ReadOldStep
  <2>3. CASE ReadNew(t)
    BY <2>3, ReadNewStep
  <2>4. CASE Improve(t)
    BY <2>4, ImproveStep
  <2>5. CASE Recheck(t)
    BY <2>5, RecheckStep
  <2>6. CASE LeaveLoop(t)
    BY <2>6, LeaveLoopStep
  <2>7. CASE Fuse(t)
    BY <2>7, FuseStep
  <2>8. CASE Vote(t)
    BY <2>8, VoteStep
  <2> QED
    BY <1>5, <2>1, <2>2, <2>3, <2>4, <2>5, <2>6, <2>7, <2>8 DEF RelaxEdges
<1> QED
  BY <1>1, <1>3, <1>4, <1>5 DEF SsspNext

-----------------------------------------------------------------------------
(* Steps between two rounds                                                *)

LEMMA QuietFill ==
  ASSUME NEW D, SsspCommon(D), NEW b, FillInv(b), NEW t \in Threads, NEW x,
         UNCHANGED <<kernel, graph, step, origin, delta, dist, frontier, iter, bins>>,
         thread' = [thread EXCEPT ![t] = x], x.at \in {"single", "claim"},
         thread[t].at \in {"idle", "single"}, todo' = {},
         tails' \in [0 .. 1 -> Nat], indexes' \in [0 .. 1 -> 0 .. MaxBin],
         tails'[Next1] = tails[Next1], indexes'[Next1] = indexes[Next1],
         \/ \E s \in Threads : thread'[s].at = "single"
         \/ indexes'[iter] = MaxBin /\ tails'[iter] = 0
  PROVE  SsspCommon(D)' /\ FillInv(b)'
<1>1. /\ kernel' = kernel /\ graph' = graph /\ step' = step /\ origin' = origin /\ delta' = delta
      /\ dist' = dist /\ frontier' = frontier /\ iter' = iter /\ bins' = bins
  OBVIOUS
<1>2. PICK n, T : n = Next1 /\ T = tails[n]
  OBVIOUS
<1>3. Next1' = n /\ tails'[n] = T /\ indexes'[n] = indexes[n]
  BY <1>1, <1>2 DEF Next1
<1>4. DOMAIN thread = Threads
  BY DEF SsspCommon
<1>5. thread'[t] = x /\ DOMAIN thread' = Threads /\ \A s \in Threads \ {t} : thread'[s] = thread[s]
  BY <1>4
<1>6. SsspCommon(D)'
  BY <1>1, <1>5 DEF SsspCommon, MaxBin
<1>7. \A s \in Threads : \A i :
        OwesPlace(thread[s], bins[s], b, i)' <=> OwesPlace(thread[s], bins[s], b, i)
  <2>1. \A i : ~OwesPlace(thread[t], bins[t], b, i)' /\ ~OwesPlace(thread[t], bins[t], b, i)
    BY <1>5 DEF OwesPlace
  <2>2. \A s \in Threads \ {t} : \A i :
          OwesPlace(thread[s], bins[s], b, i)' <=> OwesPlace(thread[s], bins[s], b, i)
    BY <1>1, <1>5 DEF OwesPlace
  <2> QED
    BY <2>1, <2>2
<1>8. \A s \in Threads :
        /\ thread'[s].at \in {"idle", "single", "claim", "copy", "joined"}
        /\ thread'[s].at = "idle" => thread'[s] = Idle
        /\ thread'[s].at # "idle" => todo' = {}
        /\ thread'[s].at = "joined" /\ b < MaxBin => bins'[s][b] = <<>>
        /\ thread'[s].at = "copy" => /\ b < MaxBin /\ thread'[s].base \in Nat
                                     /\ thread'[s].base + Len(bins'[s][b]) <= T
  <2>1. \A s \in Threads \ {t} :
        /\ thread'[s].at \in {"idle", "single", "claim", "copy", "joined"}
        /\ thread'[s].at = "idle" => thread'[s] = Idle
        /\ thread'[s].at = "joined" /\ b < MaxBin => bins'[s][b] = <<>>
        /\ thread'[s].at = "copy" => /\ b < MaxBin /\ thread'[s].base \in Nat
                                     /\ thread'[s].base + Len(bins'[s][b]) <= T
    BY <1>1, <1>2, <1>5 DEF FillInv
  <2> QED
    BY <1>5, <2>1
<1>9. /\ step = "fill" /\ b = indexes[n] /\ b \in 0 .. MaxBin
      /\ \A s \in Threads : \A c \in 0 .. b - 1 : bins[s][c] = <<>>
      /\ b = MaxBin => T = 0
      /\ \A t1, t2 \in Threads : \A i \in 0 .. T - 1 :
           OwesPlace(thread[t1], bins[t1], b, i) /\ OwesPlace(thread[t2], bins[t2], b, i) => t1 = t2
      /\ \A i \in 0 .. T - 1 :
           \/ i \in DOMAIN frontier /\ frontier[i] \in Node
           \/ \E s \in Threads : OwesPlace(thread[s], bins[s], b, i)
      /\ \A v \in Node : \/ Relaxed(dist, v)
                         \/ \E s \in Threads : InBins(dist, bins[s], v)
                         \/ /\ dist[v] >= delta * b
                            /\ \E i \in 0 .. T - 1 :
                                 /\ frontier[i] = v
                                 /\ \A s \in Threads : ~OwesPlace(thread[s], bins[s], b, i)
  BY <1>2 DEF FillInv
<1>10. /\ \A v : Relaxed(dist, v) => Relaxed(dist, v)'
       /\ \A s, v : InBins(dist, bins[s], v) => InBins(dist, bins[s], v)'
  BY <1>1 DEF Relaxed, InBins, MaxBin
<1>11. \A v \in Node : \/ Relaxed(dist, v)'
                       \/ \E s \in Threads : InBins(dist, bins[s], v)'
                       \/ /\ dist'[v] >= delta' * b
                          /\ \E i \in 0 .. T - 1 :
                               /\ frontier'[i] = v
                               /\ \A s \in Threads : ~OwesPlace(thread[s], bins[s], b, i)'
  <2> SUFFICES ASSUME NEW v \in Node, ~Relaxed(dist, v)', \A s \in Threads : ~InBins(dist, bins[s], v)'
               PROVE  /\ dist'[v] >= delta' * b
                      /\ \E i \in 0 .. T - 1 :
                           /\ frontier'[i] = v
                           /\ \A s \in Threads : ~OwesPlace(thread[s], bins[s], b, i)'
    OBVIOUS
  <2>1. ~Relaxed(dist, v) /\ \A s \in Threads : ~InBins(dist, bins[s], v)
    BY <1>10
  <2>2. /\ dist[v] >= delta * b
        /\ \E i \in 0 .. T - 1 :
             /\ frontier[i] = v
             /\ \A s \in Threads : ~OwesPlace(thread[s], bins[s], b, i)
    BY <1>9, <2>1
  <2>3. dist'[v] >= delta' * b
    BY <1>1, <2>2
  <2>4. PICK i \in 0 .. T - 1 : /\ frontier[i] = v
                                /\ \A s \in Threads : ~OwesPlace(thread[s], bins[s], b, i)
    BY <2>2
  <2>5. frontier'[i] = v /\ \A s \in Threads : ~OwesPlace(thread[s], bins[s], b, i)'
    BY <1>1, <1>7, <2>4
  <2> QED
    BY <2>3, <2>5
<1>12. /\ step' = "fill" /\ b = indexes'[Next1'] /\ b \in 0 .. MaxBin /\ todo' \subseteq {0}
       /\ \/ todo' = {0} \/ \E s \in Threads : thread'[s].at = "single"
          \/ indexes'[iter'] = MaxBin /\ tails'[iter'] = 0
       /\ \A s \in Threads : \A c \in 0 .. b - 1 : bins'[s][c] = <<>>
       /\ b = MaxBin => T = 0
  BY <1>1, <1>3, <1>9
<1>13. /\ \A t1, t2 \in Threads : \A i \in 0 .. T - 1 :
            OwesPlace(thread[t1], bins[t1], b, i)' /\ OwesPlace(thread[t2], bins[t2], b, i)' => t1 = t2
       /\ \A i \in 0 .. T - 1 :
            \/ i \in DOMAIN frontier' /\ frontier'[i] \in Node
            \/ \E s \in Threads : OwesPlace(thread[s], bins[s], b, i)'
  BY <1>1, <1>7, <1>9
<1>14. FillInv(b)'
  BY <1>3, <1>8, <1>11, <1>12, <1>13 DEF FillInv, MaxBin
<1> QED
  BY <1>6, <1>14

\* What FillInv says, of the part of the frontier that is claimed.
FillFacts(b, n, T) ==
  /\ n = Next1 /\ T = tails[n] /\ T \in Nat /\ b = indexes[n] /\ b \in 0 .. MaxBin /\ MaxBin \in Nat
  /\ todo \subseteq {0}
  /\ \A s \in Threads :
       /\ thread[s].at \in {"idle", "single", "claim", "copy", "joined"}
       /\ thread[s].at = "idle" => thread[s] = Idle
       /\ thread[s].at # "idle" => todo = {}
       /\ thread[s].at = "joined" /\ b < MaxBin => bins[s][b] = <<>>
       /\ thread[s].at = "copy" => /\ b < MaxBin /\ thread[s].base \in Nat
                                   /\ thread[s].base + Len(bins[s][b]) <= T
  /\ \/ todo = {0} \/ \E s \in Threads : thread[s].at = "single"
     \/ indexes[iter] = MaxBin /\ tails[iter] = 0
  /\ \A s \in Threads : \A c \in 0 .. b - 1 : bins[s][c] = <<>>
  /\ b = MaxBin => T = 0
  /\ \A t1, t2 \in Threads : \A i \in 0 .. T - 1 :
       OwesPlace(thread[t1], bins[t1], b, i) /\ OwesPlace(thread[t2], bins[t2], b, i) => t1 = t2
  /\ \A i \in 0 .. T - 1 :
       \/ i \in DOMAIN frontier /\ frontier[i] \in Node
       \/ \E s \in Threads : OwesPlace(thread[s], bins[s], b, i)
  /\ \A v \in Node : \/ Relaxed(dist, v)
                     \/ \E s \in Threads : InBins(dist, bins[s], v)
                     \/ /\ dist[v] >= delta * b
                        /\ \E i \in 0 .. T - 1 :
                             /\ frontier[i] = v
                             /\ \A s \in Threads : ~OwesPlace(thread[s], bins[s], b, i)

LEMMA ClaimStep ==
  ASSUME NEW D, SsspCommon(D), NEW b, FillInv(b), NEW t \in Threads, ClaimPlaces(t)
  PROVE  SsspCommon(D)' /\ FillInv(b)'
<1>1. PICK n, T : n = Next1 /\ T = tails[n]
  OBVIOUS
<1>2. FillFacts(b, n, T)
  BY <1>1, CommonFacts DEF FillInv, FillFacts
<1>3. /\ n \in 0 .. 1 /\ iter \in 0 .. 1 /\ n # iter /\ T \in Nat /\ b \in 0 .. MaxBin /\ MaxBin \in Nat
      /\ tails \in [0 .. 1 -> Nat] /\ DOMAIN thread = Threads /\ b = indexes[n]
  <2>1. T \in Nat /\ b \in 0 .. MaxBin /\ MaxBin \in Nat /\ b = indexes[n]
    BY <1>2 DEF FillFacts
  <2>2. n \in 0 .. 1 /\ iter \in 0 .. 1 /\ n # iter
    BY <1>1, CommonFacts
  <2>3. tails \in [0 .. 1 -> Nat] /\ DOMAIN thread = Threads
    BY DEF SsspCommon
  <2> QED
    BY <2>1, <2>2, <2>3
<1>4. /\ thread[t].at = "claim"
      /\ UNCHANGED <<kernel, graph, step, todo, origin, delta, dist, frontier, indexes, iter, bins>>
  BY DEF ClaimPlaces, Goes
<1>5. PICK x : /\ thread' = [thread EXCEPT ![t] = x]
               /\ x = (IF b < MaxBin THEN [at |-> "copy", base |-> T] ELSE [at |-> "joined"])
  BY <1>1, <1>3 DEF ClaimPlaces, Goes
<1>6. thread'[t] = x /\ DOMAIN thread' = Threads /\ \A s \in Threads \ {t} : thread'[s] = thread[s]
  BY <1>3, <1>5
<1>7. PICK len : len = Len(bins[t][b])
  OBVIOUS
<1>8. b < MaxBin => len \in Nat
  <2>1. ASSUME b < MaxBin PROVE len \in Nat
    <3>1. b \in 0 .. MaxBin - 1
      BY <1>3, <2>1
    <3>2. bins[t][b] \in Seq(Node)
      BY <3>1, CommonFacts
    <3> QED
      BY <1>7, <3>2
  <2> QED
    BY <2>1
<1>9. /\ tails' \in [0 .. 1 -> Nat] /\ tails'[iter] = tails[iter]
      /\ tails'[n] = IF b < MaxBin THEN T + len ELSE T
  <2>1. CASE b < MaxBin
    <3>1. PICK T2 : T2 = T + len
      OBVIOUS
    <3>2. T2 \in Nat
      BY <1>3, <1>8, <2>1, <3>1
    <3>3. tails' = [tails EXCEPT ![n] = T2]
      BY <1>1, <1>3, <1>7, <2>1, <3>1 DEF ClaimPlaces
    <3> QED
      BY <1>3, <2>1, <3>1, <3>2, <3>3
  <2>2. CASE ~(b < MaxBin)
    <3>1. tails' = tails
      BY <1>1, <1>3, <2>2 DEF ClaimPlaces
    <3> QED
      BY <1>1, <1>3, <2>2, <3>1
  <2> QED
    BY <2>1, <2>2
<1>10. PICK T2 : T2 = tails'[n]
  OBVIOUS
<1>11. T2 \in Nat /\ T2 >= T /\ T2 = (IF b < MaxBin THEN T + len ELSE T)
  BY <1>3, <1>8, <1>9, <1>10
<1>12. SsspCommon(D)'
  BY <1>4, <1>6, <1>9 DEF SsspCommon, MaxBin
<1>13. \A s \in Threads \ {t} : \A i :
         OwesPlace(thread[s], bins[s], b, i)' <=> OwesPlace(thread[s], bins[s], b, i)
  BY <1>4, <1>6 DEF OwesPlace
<1>14. \A s \in Threads \ {t} : \A i : OwesPlace(thread[s], bins[s], b, i) => i \in Nat /\ i < T
  <2> SUFFICES ASSUME NEW s \in Threads \ {t}, NEW i, OwesPlace(thread[s], bins[s], b, i)
               PROVE  i \in Nat /\ i < T
    OBVIOUS
  <2>1. PICK base, l : base = thread[s].base /\ l = Len(bins[s][b])
    OBVIOUS
  <2>2. thread[s].at = "copy" /\ i \in base .. base + l - 1
    BY <2>1 DEF OwesPlace
  <2>3. base \in Nat /\ base + l <= T /\ b < MaxBin
    BY <1>2, <2>1, <2>2 DEF FillFacts
  <2>4. l \in Nat
    <3>1. b \in 0 .. MaxBin - 1
      BY <1>3, <2>3
    <3>2. bins[s][b] \in Seq(Node)
      BY <3>1, CommonFacts
    <3> QED
      BY <2>1, <3>2
  <2> QED
    BY <1>3, <2>2, <2>3, <2>4
<1>15. \A i : ~OwesPlace(thread[t], bins[t], b, i)
  BY <1>4 DEF OwesPlace
<1>16. \A i : OwesPlace(thread[t], bins[t], b, i)' <=> i \in T .. T2 - 1
  <2>1. CASE b < MaxBin
    <3>1. x.at = "copy" /\ x.base = T /\ bins'[t] = bins[t] /\ T2 = T + len
      BY <1>4, <1>5, <1>11, <2>1
    <3>2. PICK y, r : y = thread'[t] /\ r = bins'[t]
      OBVIOUS
    <3>3. y.at = "copy" /\ y.base = T /\ Len(r[b]) = len
      BY <1>6, <1>7, <3>1, <3>2
    <3>6. y.base .. y.base + Len(r[b]) - 1 = T .. T2 - 1
      <4>1. T + len - 1 = T2 - 1
        BY <1>3, <1>8, <2>1, <3>1
      <4> QED
        BY <3>3, <4>1
    <3>4. \A i : OwesPlace(y, r, b, i) <=> i \in T .. T2 - 1
      BY <3>3, <3>6 DEF OwesPlace
    <3>5. \A i : OwesPlace(thread[t], bins[t], b, i)' <=> OwesPlace(y, r, b, i)
      BY <3>2 DEF OwesPlace
    <3> QED
      BY <3>4, <3>5
  <2>2. CASE ~(b < MaxBin)
    <3>1. x.at = "joined" /\ T2 = T
      BY <1>5, <1>11, <2>2
    <3>2. T .. T2 - 1 = {}
      BY <1>3, <3>1
    <3> QED
      BY <1>6, <3>1, <3>2 DEF OwesPlace
  <2> QED
    BY <2>1, <2>2
<1>17. \A s \in Threads :
         /\ thread'[s].at \in {"idle", "single", "claim", "copy", "joined"}
         /\ thread'[s].at = "idle" => thread'[s] = Idle
         /\ thread'[s].at # "idle" => todo' = {}
         /\ thread'[s].at = "joined" /\ b < MaxBin => bins'[s][b] = <<>>
         /\ thread'[s].at = "copy" => /\ b < MaxBin /\ thread'[s].base \in Nat
                                      /\ thread'[s].base + Len(bins'[s][b]) <= T2
  <2>1. ASSUME NEW s \in Threads \ {t}
        PROVE  /\ thread[s].at \in {"idle", "single", "claim", "copy", "joined"}
               /\ thread[s].at = "idle" => thread[s] = Idle
               /\ thread[s].at # "idle" => todo' = {}
               /\ thread[s].at = "joined" /\ b < MaxBin => bins'[s][b] = <<>>
               /\ thread[s].at = "copy" => /\ b < MaxBin /\ thread[s].base \in Nat
                                           /\ thread[s].base + Len(bins'[s][b]) <= T2
    <3>1. thread[s].at = "copy" => /\ b < MaxBin /\ thread[s].base \in Nat
                                   /\ thread[s].base + Len(bins[s][b]) <= T
      BY <1>2 DEF FillFacts
    <3>2. thread[s].at = "copy" => thread[s].base + Len(bins[s][b]) <= T2
      <4>1. SUFFICES ASSUME thread[s].at = "copy" PROVE thread[s].base + Len(bins[s][b]) <= T2
        OBVIOUS
      <4>2. b \in 0 .. MaxBin - 1
        BY <1>3, <3>1, <4>1
      <4>3. bins[s][b] \in Seq(Node)
        BY <4>2, CommonFacts
      <4>4. Len(bins[s][b]) \in Nat
        BY <4>3
      <4> QED
        BY <1>3, <1>11, <3>1, <4>1, <4>4
    <3> QED
      BY <1>2, <1>4, <3>1, <3>2 DEF FillFacts
  <2>2. /\ thread'[t].at \in {"copy", "joined"} /\ todo' = {}
        /\ thread'[t].at = "joined" => ~(b < MaxBin)
        /\ thread'[t].at = "copy" => b < MaxBin /\ thread'[t].base = T /\ T + Len(bins'[t][b]) <= T2
    <3>1. todo' = {}
      BY <1>2, <1>4 DEF FillFacts
    <3>2. bins'[t][b] = bins[t][b]
      BY <1>4
    <3>3. CASE b < MaxBin
      <4>1. x.at = "copy" /\ x.base = T /\ T + Len(bins'[t][b]) <= T2
        BY <1>3, <1>5, <1>7, <1>8, <1>11, <3>2, <3>3
      <4> QED
        BY <1>6, <3>1, <3>3, <4>1
    <3>4. CASE ~(b < MaxBin)
      <4>1. x.at = "joined"
        BY <1>5, <3>4
      <4> QED
        BY <1>6, <3>1, <3>4, <4>1
    <3> QED
      BY <3>3, <3>4
  <2>3. thread'[t].at = "copy" => thread'[t].base \in Nat /\ thread'[t].base + Len(bins'[t][b]) <= T2
    BY <1>3, <2>2
  <2> QED
    BY <1>6, <2>1, <2>2, <2>3
<1>18. \A t1, t2 \in Threads : \A i \in 0 .. T2 - 1 :
         OwesPlace(thread[t1], bins[t1], b, i)' /\ OwesPlace(thread[t2], bins[t2], b, i)' => t1 = t2
  <2> SUFFICES ASSUME NEW t1 \in Threads, NEW t2 \in Threads, NEW i \in 0 .. T2 - 1,
                      OwesPlace(thread[t1], bins[t1], b, i)', OwesPlace(thread[t2], bins[t2], b, i)'
               PROVE  t1 = t2
    OBVIOUS
  <2>1. CASE t1 = t \/ t2 = t
    <3>1. i \in T .. T2 - 1
      BY <1>16, <2>1
    <3>2. ~(i < T)
      BY <1>3, <3>1
    <3> QED
      BY <1>13, <1>14, <2>1, <3>2
  <2>2. CASE t1 # t /\ t2 # t
    <3>1. OwesPlace(thread[t1], bins[t1], b, i) /\ OwesPlace(thread[t2], bins[t2], b, i)
      BY <1>13, <2>2
    <3>2. i \in 0 .. T - 1
      BY <1>3, <1>14, <2>2, <3>1
    <3> QED
      BY <1>2, <3>1, <3>2 DEF FillFacts
  <2> QED
    BY <2>1, <2>2
<1>19. \A i \in 0 .. T2 - 1 :
         \/ i \in DOMAIN frontier' /\ frontier'[i] \in Node
         \/ \E s \in Threads : OwesPlace(thread[s], bins[s], b, i)'
  <2> SUFFICES ASSUME NEW i \in 0 .. T2 - 1
               PROVE  \/ i \in DOMAIN frontier' /\ frontier'[i] \in Node
                      \/ \E s \in Threads : OwesPlace(thread[s], bins[s], b, i)'
    OBVIOUS
  <2>1. CASE i \in T .. T2 - 1
    BY <1>16, <2>1
  <2>2. CASE i \in 0 .. T - 1
    BY <1>2, <1>4, <1>13, <1>15, <2>2 DEF FillFacts
  <2> QED
    BY <1>3, <1>11, <2>1, <2>2
<1>20. /\ \A v : Relaxed(dist, v) => Relaxed(dist, v)'
       /\ \A s, v : InBins(dist, bins[s], v) => InBins(dist, bins[s], v)'
  BY <1>4 DEF Relaxed, InBins, MaxBin
<1>21. \A i \in 0 .. T - 1 : (\A s \in Threads : ~OwesPlace(thread[s], bins[s], b, i)) =>
         i \in 0 .. T2 - 1 /\ \A s \in Threads : ~OwesPlace(thread[s], bins[s], b, i)'
  <2> SUFFICES ASSUME NEW i \in 0 .. T - 1, \A s \in Threads : ~OwesPlace(thread[s], bins[s], b, i)
               PROVE  i \in 0 .. T2 - 1 /\ \A s \in Threads : ~OwesPlace(thread[s], bins[s], b, i)'
    OBVIOUS
  <2>1. i \in 0 .. T2 - 1 /\ i \notin T .. T2 - 1
    BY <1>3, <1>11
  <2> QED
    BY <1>13, <1>16, <2>1
<1>22. \A v \in Node : \/ Relaxed(dist, v)'
                       \/ \E s \in Threads : InBins(dist, bins[s], v)'
                       \/ /\ dist'[v] >= delta' * b
                          /\ \E i \in 0 .. T2 - 1 :
                               /\ frontier'[i] = v
                               /\ \A s \in Threads : ~OwesPlace(thread[s], bins[s], b, i)'
  <2> SUFFICES ASSUME NEW v \in Node, ~Relaxed(dist, v), ~\E s \in Threads : InBins(dist, bins[s], v)
               PROVE  /\ dist'[v] >= delta' * b
                      /\ \E i \in 0 .. T2 - 1 :
                           /\ frontier'[i] = v
                           /\ \A s \in Threads : ~OwesPlace(thread[s], bins[s], b, i)'
    BY <1>20
  <2>1. PICK i \in 0 .. T - 1 : /\ dist[v] >= delta * b /\ frontier[i] = v
                                /\ \A s \in Threads : ~OwesPlace(thread[s], bins[s], b, i)
    BY <1>2 DEF FillFacts
  <2>2. i \in 0 .. T2 - 1 /\ \A s \in Threads : ~OwesPlace(thread[s], bins[s], b, i)'
    BY <1>21, <2>1
  <2>3. dist'[v] >= delta' * b /\ frontier'[i] = v
    BY <1>4, <2>1
  <2> QED
    BY <2>2, <2>3
<1>23. Next1' = n /\ tails'[Next1'] = T2
  BY <1>1, <1>4, <1>10 DEF Next1
<1>24. /\ step' = "fill" /\ b = indexes'[Next1'] /\ b \in 0 .. MaxBin /\ todo' \subseteq {0}
       /\ \/ todo' = {0} \/ \E s \in Threads : thread'[s].at = "single"
          \/ indexes'[iter'] = MaxBin /\ tails'[iter'] = 0
       /\ \A s \in Threads : \A c \in 0 .. b - 1 : bins'[s][c] = <<>>
       /\ b = MaxBin => T2 = 0
  <2>1. step = "fill"
    BY DEF FillInv
  <2>2. todo = {0} \/ (\E s \in Threads : thread[s].at = "single") \/ (indexes[iter] = MaxBin /\ tails[iter] = 0)
    BY <1>2 DEF FillFacts
  <2>3. \A s \in Threads : thread[s].at = "single" => thread'[s].at = "single"
    BY <1>4, <1>6
  <2>4. b = MaxBin => T2 = 0
    BY <1>2, <1>3, <1>11 DEF FillFacts
  <2>5. \A s \in Threads : \A c \in 0 .. b - 1 : bins[s][c] = <<>>
    BY <1>2 DEF FillFacts
  <2>6. todo \subseteq {0}
    BY <1>2 DEF FillFacts
  <2> QED
    BY <1>3, <1>4, <1>9, <1>23, <2>1, <2>2, <2>3, <2>4, <2>5, <2>6
<1>25. FillInv(b)'
  BY <1>17, <1>18, <1>19, <1>22, <1>23, <1>24 DEF FillInv, MaxBin
<1> QED
  BY <1>12, <1>25

LEMMA CopyStep ==
  ASSUME NEW D, SsspCommon(D), NEW b, FillInv(b), NEW t \in Threads, CopyBin(t)
  PROVE  SsspCommon(D)' /\ FillInv(b)'
<1>1. PICK n, T, bin, base, len, x : /\ n = Next1 /\ T = tails[n] /\ bin = bins[t][b] /\ base = thread[t].base
                                     /\ len = Len(bin) /\ x = [at |-> "joined"]
  OBVIOUS
<1>2. FillFacts(b, n, T)
  BY <1>1, CommonFacts DEF FillInv, FillFacts
<1>3. /\ thread[t].at = "copy" /\ b = indexes[n]
      /\ UNCHANGED <<kernel, graph, step, todo, origin, delta, dist, tails, indexes, iter>>
      /\ thread' = [thread EXCEPT ![t] = x]
  BY <1>1, <1>2 DEF CopyBin, Goes, FillFacts
<1>4. b \in 0 .. MaxBin - 1 /\ MaxBin \in Nat /\ base \in Nat /\ base + len <= T /\ T \in Nat
  <2>1. b \in 0 .. MaxBin /\ MaxBin \in Nat /\ T \in Nat
    BY <1>2 DEF FillFacts
  <2>2. b < MaxBin /\ base \in Nat /\ base + len <= T
    BY <1>1, <1>2, <1>3 DEF FillFacts
  <2> QED
    BY <2>1, <2>2
<1>5. bin \in Seq(Node) /\ len \in Nat /\ DOMAIN bin = 1 .. len
  <2>1. bin \in Seq(Node)
    BY <1>1, <1>4, CommonFacts
  <2> QED
    BY <1>1, <2>1
<1>6. PICK mine : mine = base .. base + len - 1
  OBVIOUS
<1>7. /\ frontier' = [i \in DOMAIN frontier \cup mine |->
                        IF i \in mine THEN bin[i - base + 1] ELSE frontier[i]]
      /\ bins' = [bins EXCEPT ![t][b] = <<>>]
  BY <1>1, <1>3, <1>6 DEF CopyBin
<1>8. /\ \A i \in mine : i \in DOMAIN frontier' /\ frontier'[i] = bin[i - base + 1] /\ frontier'[i] \in Node
      /\ \A i \in DOMAIN frontier \ mine : i \in DOMAIN frontier' /\ frontier'[i] = frontier[i]
      /\ \A i \in mine : i - base + 1 \in 1 .. len /\ i \in 0 .. T - 1
      /\ \A j \in 1 .. len : base + j - 1 \in mine /\ (base + j - 1) - base + 1 = j
  <2>1. \A i \in mine : i - base + 1 \in 1 .. len /\ i \in 0 .. T - 1
    BY <1>4, <1>5, <1>6
  <2>2. \A j \in 1 .. len : base + j - 1 \in mine /\ (base + j - 1) - base + 1 = j
    BY <1>4, <1>5, <1>6
  <2>3. \A j \in 1 .. len : bin[j] \in Node
    BY <1>5
  <2>4. \A i \in mine : bin[i - base + 1] \in Node
    BY <2>1, <2>3
  <2> QED
    BY <1>7, <2>1, <2>2, <2>4
<1>9. DOMAIN thread = Threads /\ bins \in [Threads -> [0 .. MaxBin - 1 -> Seq(Node)]]
  BY DEF SsspCommon
<1>10. thread'[t] = x /\ DOMAIN thread' = Threads /\ \A s \in Threads \ {t} : thread'[s] = thread[s]
  BY <1>3, <1>9
<1>11. x.at = "joined"
  BY <1>1
<1>12. /\ bins' \in [Threads -> [0 .. MaxBin - 1 -> Seq(Node)]]
       /\ \A s \in Threads \ {t} : bins'[s] = bins[s]
       /\ bins'[t][b] = <<>> /\ \A c \in (0 .. MaxBin - 1) \ {b} : bins'[t][c] = bins[t][c]
  <2>1. PICK e : e = <<>>
    OBVIOUS
  <2>2. e \in Seq(Node) /\ bins' = [bins EXCEPT ![t][b] = e]
    BY <1>7, <2>1
  <2> QED
    BY <1>4, <1>9, <2>1, <2>2, NewBin
<1>13. SsspCommon(D)'
  BY <1>3, <1>10, <1>12 DEF SsspCommon, MaxBin
<1>14. \A s \in Threads \ {t} : \A i :
         OwesPlace(thread[s], bins[s], b, i)' <=> OwesPlace(thread[s], bins[s], b, i)
  BY <1>10, <1>12 DEF OwesPlace
<1>15. \A i : ~OwesPlace(thread[t], bins[t], b, i)'
  BY <1>10, <1>11 DEF OwesPlace
<1>16. \A i : OwesPlace(thread[t], bins[t], b, i) <=> i \in mine
  BY <1>1, <1>3, <1>6 DEF OwesPlace
<1>17. \A t1, t2 \in Threads : \A i \in 0 .. T - 1 :
         OwesPlace(thread[t1], bins[t1], b, i) /\ OwesPlace(thread[t2], bins[t2], b, i) => t1 = t2
  BY <1>2 DEF FillFacts
<1>18. \A s \in Threads :
         /\ thread'[s].at \in {"idle", "single", "claim", "copy", "joined"}
         /\ thread'[s].at = "idle" => thread'[s] = Idle
         /\ thread'[s].at # "idle" => todo' = {}
         /\ thread'[s].at = "joined" /\ b < MaxBin => bins'[s][b] = <<>>
         /\ thread'[s].at = "copy" => /\ b < MaxBin /\ thread'[s].base \in Nat
                                      /\ thread'[s].base + Len(bins'[s][b]) <= T
  <2>1. todo' = {}
    BY <1>2, <1>3 DEF FillFacts
  <2>2. \A s \in Threads \ {t} :
         /\ thread'[s].at \in {"idle", "single", "claim", "copy", "joined"}
         /\ thread'[s].at = "idle" => thread'[s] = Idle
         /\ thread'[s].at = "joined" /\ b < MaxBin => bins'[s][b] = <<>>
         /\ thread'[s].at = "copy" => /\ b < MaxBin /\ thread'[s].base \in Nat
                                      /\ thread'[s].base + Len(bins'[s][b]) <= T
    <3> SUFFICES ASSUME NEW s \in Threads \ {t}
                 PROVE  /\ thread[s].at \in {"idle", "single", "claim", "copy", "joined"}
                        /\ thread[s].at = "idle" => thread[s] = Idle
                        /\ thread[s].at = "joined" /\ b < MaxBin => bins[s][b] = <<>>
                        /\ thread[s].at = "copy" => /\ b < MaxBin /\ thread[s].base \in Nat
                                                    /\ thread[s].base + Len(bins[s][b]) <= T
      BY <1>10, <1>12
    <3> QED
      BY <1>2 DEF FillFacts
  <2> QED
    BY <1>10, <1>11, <1>12, <2>1, <2>2
<1>19. \A t1, t2 \in Threads : \A i \in 0 .. T - 1 :
         OwesPlace(thread[t1], bins[t1], b, i)' /\ OwesPlace(thread[t2], bins[t2], b, i)' => t1 = t2
  BY <1>14, <1>15, <1>17
<1>20. \A i \in 0 .. T - 1 :
         \/ i \in DOMAIN frontier' /\ frontier'[i] \in Node
         \/ \E s \in Threads : OwesPlace(thread[s], bins[s], b, i)'
  <2> SUFFICES ASSUME NEW i \in 0 .. T - 1, i \notin mine
               PROVE  \/ i \in DOMAIN frontier' /\ frontier'[i] \in Node
                      \/ \E s \in Threads : OwesPlace(thread[s], bins[s], b, i)'
    BY <1>8
  <2>1. \/ i \in DOMAIN frontier /\ frontier[i] \in Node
        \/ \E s \in Threads : OwesPlace(thread[s], bins[s], b, i)
    BY <1>2 DEF FillFacts
  <2> QED
    BY <1>8, <1>14, <1>16, <2>1
<1>21. ASSUME NEW v \in Node
       PROVE  \/ Relaxed(dist, v)'
              \/ \E s \in Threads : InBins(dist, bins[s], v)'
              \/ /\ dist'[v] >= delta' * b
                 /\ \E i \in 0 .. T - 1 :
                      /\ frontier'[i] = v
                      /\ \A s \in Threads : ~OwesPlace(thread[s], bins[s], b, i)'
  <2>1. \/ Relaxed(dist, v)
        \/ \E s \in Threads : InBins(dist, bins[s], v)
        \/ /\ dist[v] >= delta * b
           /\ \E i \in 0 .. T - 1 :
                /\ frontier[i] = v
                /\ \A s \in Threads : ~OwesPlace(thread[s], bins[s], b, i)
    BY <1>2 DEF FillFacts
  <2>2. CASE Relaxed(dist, v)
    BY <1>3, <2>2 DEF Relaxed
  <2>3. ASSUME NEW s \in Threads, s # t, InBins(dist, bins[s], v)
        PROVE  InBins(dist, bins[s], v)'
    <3>1. bins'[s] = bins[s]
      BY <1>12, <2>3
    <3> QED
      BY <1>3, <2>3, <3>1 DEF InBins, MaxBin
  <2>4. ASSUME InBins(dist, bins[t], v)
        PROVE  \/ InBins(dist, bins[t], v)'
               \/ /\ dist'[v] >= delta' * b
                  /\ \E i \in 0 .. T - 1 :
                       /\ frontier'[i] = v
                       /\ \A s \in Threads : ~OwesPlace(thread[s], bins[s], b, i)'
    <3>1. PICK k : k = dist[v] \div delta
      OBVIOUS
    <3>2. k \in 0 .. MaxBin - 1 /\ v \in Elems(bins[t][k])
      BY <2>4, <3>1 DEF InBins
    <3>3. CASE k # b
      <4>1. v \in Elems(bins'[t][k]) /\ k = dist'[v] \div delta'
        BY <1>3, <1>12, <3>1, <3>2, <3>3
      <4> QED
        BY <3>2, <4>1 DEF InBins, MaxBin
    <3>4. CASE k = b
      <4>1. PICK j \in 1 .. len : bin[j] = v
        BY <1>1, <1>5, <3>2, <3>4 DEF Elems
      <4>2. PICK i : i = base + j - 1
        OBVIOUS
      <4>3. i \in mine /\ i - base + 1 = j /\ i \in 0 .. T - 1
        BY <1>8, <4>1, <4>2
      <4>4. frontier'[i] = v
        BY <1>8, <4>1, <4>3
      <4>5. \A s \in Threads : ~OwesPlace(thread[s], bins[s], b, i)'
        BY <1>14, <1>15, <1>16, <1>17, <4>3
      <4>6. dist[v] >= delta * b
        <5>1. delta \in Nat \ {0} /\ dist[v] \in Nat /\ b \in Nat
          BY <1>4, CommonFacts
        <5>2. k >= b
          BY <3>4, <5>1
        <5> QED
          BY <3>1, <5>1, <5>2, DivFacts
      <4> QED
        BY <1>3, <4>3, <4>4, <4>5, <4>6
    <3> QED
      BY <3>3, <3>4
  <2>5. ASSUME dist[v] >= delta * b, NEW i \in 0 .. T - 1, frontier[i] = v,
               \A s \in Threads : ~OwesPlace(thread[s], bins[s], b, i)
        PROVE  /\ dist'[v] >= delta' * b /\ frontier'[i] = v
               /\ \A s \in Threads : ~OwesPlace(thread[s], bins[s], b, i)'
    <3>1. i \in DOMAIN frontier /\ i \notin mine
      BY <1>2, <1>16, <2>5 DEF FillFacts
    <3> QED
      BY <1>3, <1>8, <1>14, <1>15, <2>5, <3>1
  <2> QED
    BY <2>1, <2>2, <2>3, <2>4, <2>5
<1>22. Next1' = n /\ tails'[Next1'] = T
  BY <1>1, <1>3 DEF Next1
<1>23. /\ step' = "fill" /\ b = indexes'[Next1'] /\ b \in 0 .. MaxBin /\ todo' \subseteq {0}
       /\ \/ todo' = {0} \/ \E s \in Threads : thread'[s].at = "single"
          \/ indexes'[iter'] = MaxBin /\ tails'[iter'] = 0
       /\ \A s \in Threads : \A c \in 0 .. b - 1 : bins'[s][c] = <<>>
       /\ b = MaxBin => T = 0
  <2>1. step = "fill"
    BY DEF FillInv
  <2>2. todo = {0} \/ (\E s \in Threads : thread[s].at = "single") \/ (indexes[iter] = MaxBin /\ tails[iter] = 0)
    BY <1>2 DEF FillFacts
  <2>3. \A s \in Threads : thread[s].at = "single" => thread'[s].at = "single"
    BY <1>3, <1>10
  <2>4. \A c \in 0 .. b - 1 : c \in (0 .. MaxBin - 1) \ {b}
    BY <1>4
  <2>5. \A s \in Threads : \A c \in 0 .. b - 1 : bins[s][c] = <<>>
    BY <1>2 DEF FillFacts
  <2>6. \A s \in Threads : \A c \in 0 .. b - 1 : bins'[s][c] = <<>>
    BY <1>12, <2>4, <2>5
  <2>7. todo \subseteq {0} /\ b \in 0 .. MaxBin /\ (b = MaxBin => T = 0)
    BY <1>2 DEF FillFacts
  <2> QED
    BY <1>3, <1>22, <2>1, <2>2, <2>3, <2>6, <2>7
<1>24. FillInv(b)'
  BY <1>18, <1>19, <1>20, <1>21, <1>22, <1>23 DEF FillInv, MaxBin
<1> QED
  BY <1>13, <1>24

\* The barrier between two rounds: what was claimed is filled, and the cells of
\* the round after the next are reset.
LEMMA Barrier2Step ==
  ASSUME NEW D, SsspCommon(D), NEW b, FillInv(b), Barrier2
  PROVE  SsspCommon(D)' /\ ((\E low : RelaxInv(low)') \/ SsspDone')
<1>1. PICK n, m, T : n = Next1 /\ m = iter /\ T = tails[n]
  OBVIOUS
<1>2. FillFacts(b, n, T)
  BY <1>1, CommonFacts DEF FillInv, FillFacts
<1>3. /\ \A t \in Threads : thread[t].at = "joined"
      /\ kernel' = kernel /\ graph' = graph /\ origin' = origin /\ delta' = delta /\ dist' = dist
      /\ frontier' = frontier /\ tails' = tails /\ indexes' = indexes /\ bins' = bins /\ iter' = n
      /\ thread' = [t \in Threads |-> Idle]
      /\ IF b # MaxBin THEN step' = "relax" /\ todo' = 0 .. T - 1 ELSE step' = "done" /\ todo' = {}
  BY <1>1, <1>2 DEF Barrier2, Joined1, BeginLoop, FillFacts
<1>4. m \in 0 .. 1 /\ n = 1 - m
  BY <1>1, CommonFacts DEF Next1
<1>5. n \in 0 .. 1 /\ Next1' = m
  BY <1>3, <1>4 DEF Next1
<1>6. \A t \in Threads : thread'[t] = Idle /\ thread'[t].at = "idle" /\ DOMAIN thread' = Threads
  BY <1>3 DEF Idle
<1>7. SsspCommon(D)'
  BY <1>3, <1>5, <1>6 DEF SsspCommon, MaxBin
<1>8. /\ T \in Nat /\ b \in 0 .. MaxBin /\ MaxBin \in Nat /\ b = indexes[n] /\ T = tails[n]
      /\ \A s \in Threads : \A c \in 0 .. b - 1 : bins[s][c] = <<>>
      /\ b = MaxBin => T = 0
  BY <1>2 DEF FillFacts
<1>9. indexes[m] = MaxBin /\ tails[m] = 0
  <2>1. PICK t : t \in Threads
    BY KernelAssumption
  <2>2. todo = {} /\ \A s \in Threads : thread[s].at # "single"
    BY <1>2, <1>3, <2>1 DEF FillFacts
  <2> QED
    BY <1>1, <1>2, <2>2 DEF FillFacts
<1>10. \A s \in Threads : \A i : ~OwesPlace(thread[s], bins[s], b, i)
  BY <1>3 DEF OwesPlace
<1>11. \A i \in 0 .. T - 1 : i \in DOMAIN frontier /\ frontier[i] \in Node
  BY <1>2, <1>10 DEF FillFacts
<1>12. \A v \in Node : \/ Relaxed(dist, v)
                       \/ \E s \in Threads : InBins(dist, bins[s], v)
                       \/ \E i \in 0 .. T - 1 : frontier[i] = v /\ dist[v] >= delta * b
  BY <1>2 DEF FillFacts
<1>13. CASE b # MaxBin
  <2>1. PICK low : low = delta * b
    OBVIOUS
  <2>2. b \in 0 .. MaxBin - 1 /\ Curr' = b /\ indexes'[Next1'] = MaxBin /\ tails'[Next1'] = 0 /\ tails'[iter'] = T
    BY <1>3, <1>5, <1>8, <1>9, <1>13 DEF Curr
  <2>3. \A s \in Threads : bins[s][b] = <<>> /\ Elems(bins[s][b]) = {}
    <3>1. \A s \in Threads : bins[s][b] = <<>>
      BY <1>2, <1>3, <2>2 DEF FillFacts
    <3> QED
      BY <3>1, SeqFacts
  <2>4. /\ \A v : Relaxed(dist, v) => Relaxed(dist, v)'
        /\ \A s, v : InBins(dist, bins[s], v) => InBins(dist, bins[s], v)'
    BY <1>3 DEF Relaxed, InBins, MaxBin
  <2>5. \A v \in Node : \/ Relaxed(dist, v)'
                        \/ \E i \in todo' : frontier'[i] = v /\ dist'[v] >= low
                        \/ \E s \in Threads : InBins(dist, bins[s], v)' \/ SeesTo(dist, thread[s], v)'
    BY <1>3, <1>12, <1>13, <2>1, <2>4
  <2>6. \A s \in Threads : RoundThread(dist, thread[s], low)' /\ ~LeftLoop(thread[s])' /\ thread'[s].at # "joined"
    BY <1>6 DEF RoundThread, LeftLoop, IsRelaxing
  <2>7. /\ step' = "relax" /\ low = delta' * Curr' /\ indexes'[Next1'] >= Curr' /\ todo' = 0 .. tails'[iter'] - 1
    BY <1>3, <1>8, <1>13, <2>1, <2>2
  <2>8. \A i \in todo' : i \in DOMAIN frontier' /\ frontier'[i] \in Node
    BY <1>3, <1>11, <1>13
  <2>9. \A s \in Threads : \A c \in 0 .. Curr' - 1 : bins'[s][c] = <<>>
    BY <1>3, <1>8, <2>2
  <2>10. \A s \in Threads : Elems(bins'[s][Curr']) = {}
    BY <1>3, <2>2, <2>3
  <2>11. RelaxInv(low)'
    BY <2>2, <2>5, <2>6, <2>7, <2>8, <2>9, <2>10 DEF RelaxInv, MaxBin
  <2> QED
    BY <1>7, <2>11
<1>14. CASE b = MaxBin
  <2>1. 0 .. T - 1 = {}
    BY <1>8, <1>14
  <2>2. \A v \in Node : \A s \in Threads : ~InBins(dist, bins[s], v)
    <3> SUFFICES ASSUME NEW v \in Node, NEW s \in Threads, InBins(dist, bins[s], v) PROVE FALSE
      OBVIOUS
    <3>1. PICK k : k = dist[v] \div delta
      OBVIOUS
    <3>2. k \in 0 .. MaxBin - 1 /\ v \in Elems(bins[s][k])
      BY <3>1 DEF InBins
    <3>3. bins[s][k] = <<>>
      BY <1>8, <1>14, <3>2
    <3> QED
      BY <3>2, <3>3, SeqFacts
  <2>3. \A v \in Node : Relaxed(dist, v)
    BY <1>12, <2>1, <2>2
  <2>4. \A v \in Node : Relaxed(dist, v)'
    BY <1>3, <2>3 DEF Relaxed
  <2>5. SsspDone'
    BY <1>3, <1>6, <1>14, <2>4 DEF SsspDone
  <2> QED
    BY <1>7, <2>5
<1> QED
  BY <1>13, <1>14

LEMMA FillPhase ==
  ASSUME NEW D, SsspCommon(D), NEW b, FillInv(b), SsspNext
  PROVE  SsspCommon(D)' /\ (FillInv(b)' \/ (\E low : RelaxInv(low)') \/ SsspDone' \/ SsspOverrun')
<1>1. step = "fill" /\ \A t \in Threads : thread[t].at \in {"idle", "single", "claim", "copy", "joined"}
  BY DEF FillInv
<1>2. ~Barrier1 /\ \A t \in Threads : /\ \A i \in todo : ~TakeFrontier(t, i)
                                      /\ ~RelaxEdges(t) /\ ~LeaveLoop(t) /\ ~Fuse(t) /\ ~Vote(t)
  BY <1>1 DEF Barrier1, TakeFrontier, RelaxEdges, ReadOld, ReadNew, Improve, Recheck, LeaveLoop, Fuse, Vote
<1>3. CASE Barrier2
  BY <1>3, Barrier2Step
<1>4. /\ tails \in [0 .. 1 -> Nat] /\ indexes \in [0 .. 1 -> 0 .. MaxBin] /\ DOMAIN thread = Threads
      /\ iter \in 0 .. 1 /\ Next1 # iter /\ MaxBin \in Nat
  <2>1. iter \in 0 .. 1 /\ Next1 # iter /\ MaxBin \in Nat
    BY CommonFacts
  <2> QED
    BY <2>1 DEF SsspCommon
<1>5. ASSUME NEW t \in Threads, EnterSingle(t) PROVE SsspCommon(D)' /\ FillInv(b)'
  <2>1. PICK x : x = [at |-> "single"]
    OBVIOUS
  <2>2. /\ thread[t] = Idle /\ 0 \in todo /\ todo' = todo \ {0} /\ thread' = [thread EXCEPT ![t] = x]
        /\ UNCHANGED <<kernel, graph, step, origin, delta, dist, frontier, tails, indexes, iter, bins>>
    BY <1>5, <2>1 DEF EnterSingle, Take
  <2>3. todo' = {}
    BY <2>2 DEF FillInv
  <2>4. x.at = "single" /\ thread[t].at = "idle" /\ thread'[t].at = "single"
    BY <1>4, <2>1, <2>2 DEF Idle
  <2> QED
    BY <1>4, <2>2, <2>3, <2>4, QuietFill
<1>6. ASSUME NEW t \in Threads, ResetCurr(t) PROVE SsspCommon(D)' /\ FillInv(b)'
  <2>1. PICK x : x = [at |-> "claim"]
    OBVIOUS
  <2>2. /\ thread[t].at = "single" /\ thread' = [thread EXCEPT ![t] = x]
        /\ indexes' = [indexes EXCEPT ![iter] = MaxBin] /\ tails' = [tails EXCEPT ![iter] = 0]
        /\ UNCHANGED <<kernel, graph, step, todo, origin, delta, dist, frontier, iter, bins>>
    BY <1>6, <2>1 DEF ResetCurr, Goes
  <2>3. todo' = {}
    BY <2>2 DEF FillInv
  <2>4. x.at = "claim"
    BY <2>1
  <2>5. /\ tails' \in [0 .. 1 -> Nat] /\ indexes' \in [0 .. 1 -> 0 .. MaxBin]
        /\ tails'[Next1] = tails[Next1] /\ indexes'[Next1] = indexes[Next1]
        /\ indexes'[iter] = MaxBin /\ tails'[iter] = 0
    <3>1. Next1 \in 0 .. 1
      BY CommonFacts
    <3> QED
      BY <1>4, <2>2, <3>1
  <2> QED
    BY <2>2, <2>3, <2>4, <2>5, QuietFill
<1>7. ASSUME NEW t \in Threads, PassSingle(t) PROVE SsspCommon(D)' /\ FillInv(b)'
  <2>1. PICK x : x = [at |-> "claim"]
    OBVIOUS
  <2>2. /\ thread[t] = Idle /\ todo = {} /\ thread' = [thread EXCEPT ![t] = x]
        /\ UNCHANGED <<kernel, graph, step, todo, origin, delta, dist, frontier, tails, indexes, iter, bins>>
    BY <1>7, <2>1 DEF PassSingle, Goes
  <2>3. x.at = "claim" /\ thread[t].at = "idle"
    BY <2>1, <2>2 DEF Idle
  <2>4. (\E s \in Threads : thread[s].at = "single") \/ (indexes[iter] = MaxBin /\ tails[iter] = 0)
    BY <2>2 DEF FillInv
  <2>5. \A s \in Threads : thread[s].at = "single" => thread'[s].at = "single"
    BY <1>4, <2>2, <2>3
  <2>6. (\E s \in Threads : thread'[s].at = "single") \/ (indexes'[iter] = MaxBin /\ tails'[iter] = 0)
    BY <2>2, <2>4, <2>5
  <2> QED
    BY <1>4, <2>2, <2>3, <2>6, QuietFill
<1>8. ASSUME NEW t \in Threads, ClaimPlaces(t) PROVE SsspCommon(D)' /\ FillInv(b)'
  BY <1>8, ClaimStep
<1>9. ASSUME NEW t \in Threads, CopyBin(t) PROVE SsspCommon(D)' /\ FillInv(b)'
  BY <1>9, CopyStep
<1>10. ASSUME NEW t \in Threads, Overrun(t) PROVE SsspCommon(D)' /\ SsspOverrun'
  <2>1. /\ step' = "overrun" /\ todo' = {} /\ thread' = [s \in Threads |-> Idle]
        /\ UNCHANGED <<kernel, graph, origin, delta, dist, frontier, tails, indexes, iter, bins>>
    BY <1>10 DEF Overrun, BeginLoop
  <2> QED
    BY <2>1 DEF SsspCommon, SsspOverrun, MaxBin
<1> QED
  BY <1>2, <1>3, <1>5, <1>6, <1>7, <1>8, <1>9, <1>10 DEF SsspNext

-----------------------------------------------------------------------------
LEMMA SsspStarts == SsspInit => SsspInv
<1> SUFFICES ASSUME SsspInit PROVE SsspInv
  OBVIOUS
<1>1. /\ kernel = "sssp" /\ graph \in Graphs /\ origin \in Node /\ delta \in Deltas
      /\ dist = [n \in Node |-> IF n = origin THEN 0 ELSE DistInf]
      /\ frontier = [i \in {0} |-> origin]
      /\ tails = [i \in 0 .. 1 |-> IF i = 0 THEN 1 ELSE 0]
      /\ indexes = [i \in 0 .. 1 |-> IF i = 0 THEN 0 ELSE MaxBin]
      /\ iter = 0
      /\ bins = [t \in Threads |-> [b \in 0 .. MaxBin - 1 |-> <<>>]]
      /\ step = "relax" /\ todo = {0}
      /\ thread = [t \in Threads |-> Idle]
  BY DEF SsspInit
<1>2. delta \in Nat \ {0} /\ MaxBin \in Nat \ {0} /\ DistInf = MaxBin
  BY <1>1, DeltaStepAssumption, WeightType
<1>3. PICK D : D = Nearest(origin)
  OBVIOUS
<1>4. IsNearest(D)
  BY <1>1, <1>3, NearestIsNearest
<1>5. /\ dist \in [Node -> 0 .. DistInf] /\ dist[origin] = 0 /\ dist[frontier[0]] = 0 /\ frontier[0] = origin
      /\ \A v \in Node \ {origin} : dist[v] = DistInf
  BY <1>1, <1>2
<1>6. \A v \in Node : D[v] <= dist[v]
  BY <1>4, <1>5 DEF IsNearest
<1>7. /\ iter = 0 /\ Next1 = 1 /\ Curr = 0 /\ indexes[Next1] = MaxBin /\ tails[Next1] = 0 /\ tails[iter] = 1
      /\ tails \in [0 .. 1 -> Nat] /\ indexes \in [0 .. 1 -> 0 .. MaxBin]
  BY <1>1, <1>2 DEF Next1, Curr
<1>8. /\ bins \in [Threads -> [0 .. MaxBin - 1 -> Seq(Node)]]
      /\ \A t \in Threads : \A b \in 0 .. MaxBin - 1 : bins[t][b] = <<>>
  <2>1. PICK e : e = <<>>
    OBVIOUS
  <2>2. e \in Seq(Node)
    BY <2>1
  <2>3. bins = [t \in Threads |-> [b \in 0 .. MaxBin - 1 |-> e]]
    BY <1>1, <2>1
  <2> QED
    BY <2>1, <2>2, <2>3
<1>9. DOMAIN thread = Threads /\ \A t \in Threads : thread[t] = Idle /\ thread[t].at = "idle"
  BY <1>1 DEF Idle
<1>10. SsspCommon(D)
  BY <1>1, <1>5, <1>6, <1>7, <1>8, <1>9 DEF SsspCommon
<1>11. \A t \in Threads : RoundThread(dist, thread[t], 0) /\ ~LeftLoop(thread[t]) /\ thread[t].at # "joined"
  BY <1>9 DEF RoundThread, LeftLoop, IsRelaxing
<1>12. ASSUME NEW v \in Node, v # origin PROVE Relaxed(dist, v)
  <2>1. \A w \in Elems(graph.out[v]) : w \in Node
    BY <1>1, GraphFacts
  <2>2. ASSUME NEW w \in Elems(graph.out[v]) PROVE dist[w] <= dist[v] + Weight[<<v, w>>]
    <3>1. w \in Node /\ dist[w] \in 0 .. DistInf /\ dist[v] = DistInf /\ Weight[<<v, w>>] \in Nat
      BY <1>5, <1>12, <2>1, WeightType
    <3> QED
      BY <1>2, <3>1
  <2> QED
    BY <2>2 DEF Relaxed
<1>13. \A v \in Node : Relaxed(dist, v) \/ \E i \in todo : frontier[i] = v /\ dist[v] >= 0
  BY <1>1, <1>5, <1>12
<1>14. Curr \in 0 .. MaxBin - 1 /\ 0 = delta * Curr /\ indexes[Next1] >= Curr /\ todo \subseteq 0 .. tails[iter] - 1
  BY <1>1, <1>2, <1>7
<1>15. \A t \in Threads : Elems(bins[t][Curr]) = {}
  BY <1>8, <1>14, SeqFacts
<1>16. \A i \in todo : i \in DOMAIN frontier /\ frontier[i] \in Node
  BY <1>1
<1>17. \A t \in Threads : \A b \in 0 .. Curr - 1 : bins[t][b] = <<>>
  BY <1>7
<1>18. RelaxInv(0)
  BY <1>1, <1>7, <1>11, <1>13, <1>14, <1>15, <1>16, <1>17 DEF RelaxInv
<1> QED
  BY <1>3, <1>4, <1>10, <1>18 DEF SsspInv

LEMMA SsspStays == SsspInv /\ [SsspNext]_ssspVars => SsspInv'
<1> SUFFICES ASSUME SsspInv, [SsspNext]_ssspVars PROVE SsspInv'
  OBVIOUS
<1>1. PICK D : D = Nearest(origin)
  OBVIOUS
<1>2. /\ IsNearest(D) /\ SsspCommon(D)
      /\ (\E low : RelaxInv(low)) \/ (\E b : FillInv(b)) \/ SsspDone \/ SsspOverrun
  BY <1>1 DEF SsspInv
<1>3. CASE SsspNext
  <2>1. SsspCommon(D)' /\ ((\E low : RelaxInv(low)') \/ (\E b : FillInv(b)') \/ SsspDone' \/ SsspOverrun')
    <3>1. CASE \E low : RelaxInv(low)
      BY <1>2, <1>3, <3>1, RelaxPhase
    <3>2. CASE \E b : FillInv(b)
      BY <1>2, <1>3, <3>2, FillPhase
    <3>3. CASE SsspDone \/ SsspOverrun
      <4>1. step \in {"done", "overrun"} /\ todo = {} /\ \A t \in Threads : thread[t].at = "idle"
        BY <3>3 DEF SsspDone, SsspOverrun, Idle
      <4> QED
        BY <1>3, <4>1 DEF SsspNext, Barrier1, Barrier2, TakeFrontier, RelaxEdges, ReadOld, ReadNew, Improve, Recheck,
                          LeaveLoop, Fuse, Vote, EnterSingle, Take, ResetCurr, PassSingle, ClaimPlaces, CopyBin,
                          Overrun
    <3> QED
      BY <1>2, <3>1, <3>2, <3>3
  <2>2. graph' = graph /\ origin' = origin
    BY <1>3 DEF SsspNext, Barrier1, Barrier2, TakeFrontier, RelaxEdges, ReadOld, ReadNew, Improve, Recheck,
                LeaveLoop, Fuse, Vote, EnterSingle, ResetCurr, PassSingle, ClaimPlaces, CopyBin, Overrun, Goes
  <2>3. Nearest(origin)' = D /\ IsNearest(D)'
    <3>1. Nearest(origin)' = D
      BY <1>1, <2>2 DEF Nearest
    <3>2. IsNearest(D)'
      BY <1>2, <2>2 DEF IsNearest
    <3> QED
      BY <3>1, <3>2
  <2> QED
    BY <2>1, <2>3 DEF SsspInv
<1>4. CASE UNCHANGED ssspVars
  <2>1. /\ kernel' = kernel /\ graph' = graph /\ step' = step /\ todo' = todo /\ thread' = thread
        /\ origin' = origin /\ delta' = delta /\ dist' = dist /\ frontier' = frontier /\ tails' = tails
        /\ indexes' = indexes /\ iter' = iter /\ bins' = bins
    BY <1>4 DEF ssspVars, teamVars
  <2>2. Nearest(origin)' = D /\ IsNearest(D)'
    <3>1. Nearest(origin)' = D
      BY <1>1, <2>1 DEF Nearest
    <3>2. IsNearest(D)'
      BY <1>2, <2>1 DEF IsNearest
    <3> QED
      BY <3>1, <3>2
  <2>3. SsspCommon(D)'
    BY <1>2, <2>1 DEF SsspCommon, MaxBin
  <2>4. Curr' = Curr /\ Next1' = Next1
    BY <2>1 DEF Curr, Next1
  <2>5. /\ \A v : Relaxed(dist, v) => Relaxed(dist, v)'
        /\ \A t, v : InBins(dist, bins[t], v) => InBins(dist, bins[t], v)'
        /\ \A t, v : SeesTo(dist, thread[t], v) => SeesTo(dist, thread[t], v)'
        /\ \A t, low : RoundThread(dist, thread[t], low) => RoundThread(dist, thread[t], low)'
    <3>1. \A v : Relaxed(dist, v) => Relaxed(dist, v)'
      BY <2>1 DEF Relaxed
    <3>2. \A t, v : InBins(dist, bins[t], v) => InBins(dist, bins[t], v)'
      BY <2>1 DEF InBins, MaxBin
    <3>3. \A t, v : SeesTo(dist, thread[t], v) => SeesTo(dist, thread[t], v)'
      BY <2>1 DEF SeesTo, LeftOf, Later
    <3>4. \A t, low : RoundThread(dist, thread[t], low) => RoundThread(dist, thread[t], low)'
      BY <2>1 DEF RoundThread, RelaxOK, ListOK, IsRelaxing
    <3> QED
      BY <3>1, <3>2, <3>3, <3>4
  <2>6. \A low : RelaxInv(low) => RelaxInv(low)'
    BY <2>1, <2>4, <2>5 DEF RelaxInv, MaxBin, LeftLoop
  <2>7. ASSUME NEW b, FillInv(b) PROVE FillInv(b)'
    <3>1. \A s, i : OwesPlace(thread[s], bins[s], b, i)' <=> OwesPlace(thread[s], bins[s], b, i)
      BY <2>1 DEF OwesPlace
    <3> QED
      BY <2>1, <2>4, <2>5, <2>7, <3>1 DEF FillInv, MaxBin
  <2>8. (SsspDone => SsspDone') /\ (SsspOverrun => SsspOverrun')
    BY <2>1, <2>5 DEF SsspDone, SsspOverrun
  <2> QED
    BY <1>2, <2>2, <2>3, <2>6, <2>7, <2>8 DEF SsspInv
<1> QED
  BY <1>3, <1>4

LEMMA SsspAlways == SsspSpec => []SsspInv
BY SsspStarts, SsspStays, PTL DEF SsspSpec

(* Whatever the schedule, the graph, the weights and the width of a bin,   *)
(* as long as no copy has run past the frontier: when a round begins,      *)
(* every distance below its bin is the true one, and every vertex with an  *)
(* edge that still improves something waits in the frontier or in a bin,   *)
(* none below the one of the round.                                        *)
THEOREM BinsHold == SsspSpec => []BinsInOrder
<1>1. ASSUME SsspInv PROVE BinsInOrder
  <2> SUFFICES ASSUME step = "relax", \A t \in Threads : thread[t] = Idle PROVE BinsInOrder
    BY DEF BinsInOrder
  <2>1. PICK D : D = Nearest(origin)
    OBVIOUS
  <2>2. IsNearest(D) /\ SsspCommon(D)
    BY <1>1, <2>1 DEF SsspInv
  <2>3. PICK low : RelaxInv(low)
    BY <1>1 DEF SsspInv, FillInv, SsspDone, SsspOverrun
  <2>4. /\ low = delta * Curr /\ delta \in Nat \ {0} /\ Curr \in Nat /\ low \in Nat
        /\ graph \in Graphs /\ origin \in Node /\ dist \in [Node -> 0 .. DistInf] /\ dist[origin] = 0
        /\ \A v \in Node : D[v] <= dist[v] /\ D[v] \in Nat /\ dist[v] \in Nat
        /\ \A t \in Threads : \A b \in 0 .. Curr - 1 : bins[t][b] = <<>>
    <3>1. low = delta * Curr /\ delta \in Nat \ {0} /\ Curr \in Nat
      BY <2>2, <2>3, CommonFacts DEF RelaxInv
    <3>2. low \in Nat
      BY <3>1
    <3>3. \A t \in Threads : \A b \in 0 .. Curr - 1 : bins[t][b] = <<>>
      BY <2>3 DEF RelaxInv
    <3>4. \A v \in Node : dist[v] \in Nat
      BY <2>2, CommonFacts
    <3> QED
      BY <2>2, <3>1, <3>2, <3>3, <3>4 DEF SsspCommon, IsNearest
  <2>5. \A t \in Threads : \A v : ~SeesTo(dist, thread[t], v)
    BY DEF SeesTo, IsRelaxing, Idle
  <2>6. ASSUME NEW v \in Node
        PROVE  \/ Relaxed(dist, v)
               \/ dist[v] \div delta >= Curr
                  /\ \/ \E i \in todo : frontier[i] = v
                     \/ \E t \in Threads : v \in Elems(bins[t][dist[v] \div delta])
    <3>1. \/ Relaxed(dist, v)
          \/ \E i \in todo : frontier[i] = v /\ dist[v] >= low
          \/ \E t \in Threads : InBins(dist, bins[t], v)
      BY <2>3, <2>5 DEF RelaxInv
    <3>2. dist[v] >= low <=> dist[v] \div delta >= Curr
      BY <2>4, DivFacts
    <3>3. ASSUME NEW t \in Threads, InBins(dist, bins[t], v)
          PROVE  dist[v] \div delta >= Curr /\ v \in Elems(bins[t][dist[v] \div delta])
      <4>1. PICK k : k = dist[v] \div delta
        OBVIOUS
      <4>2. k \in 0 .. MaxBin - 1 /\ v \in Elems(bins[t][k])
        BY <3>3, <4>1 DEF InBins
      <4>3. k \notin 0 .. Curr - 1
        BY <2>4, <4>2, SeqFacts
      <4>4. k >= Curr
        BY <2>4, <4>2, <4>3
      <4> QED
        BY <4>1, <4>2, <4>4
    <3> QED
      BY <3>1, <3>2, <3>3
  <2>7. \A v \in Node : dist[v] < low => Relaxed(dist, v)
    <3> SUFFICES ASSUME NEW v \in Node, dist[v] < low PROVE Relaxed(dist, v)
      OBVIOUS
    <3>1. ~(dist[v] \div delta >= Curr)
      BY <2>4, DivFacts
    <3> QED
      BY <2>6, <3>1
  <2>8. \A v \in Node : D[v] < low => dist[v] <= D[v]
    BY <2>1, <2>4, <2>7, BelowIsTrue
  <2>9. \A v \in Node : D[v] < low => dist[v] = D[v]
    BY <2>4, <2>8
  <2>10. \A v \in Node : Nearest(origin)[v] < delta * Curr => dist[v] = Nearest(origin)[v]
    BY <2>1, <2>4, <2>9
  <2> QED
    BY <2>6, <2>10 DEF BinsInOrder, Relaxed
<1> QED
  BY <1>1, SsspAlways, PTL

(* Whatever the schedule, the graph, the weights and the width of a bin:   *)
(* the distances returned are those of the serial algorithm, unless a copy *)
(* ran past the frontier, which with delta 1 none does (FrontierHolds).    *)
THEOREM DistancesCorrect == SsspSpec => []DistancesExact
<1>1. ASSUME SsspInv PROVE DistancesExact
  <2> SUFFICES ASSUME step = "done" PROVE \A n \in Node : dist[n] = Nearest(origin)[n]
    BY DEF DistancesExact, SSSPVerifier
  <2>1. PICK D : D = Nearest(origin)
    OBVIOUS
  <2>2. IsNearest(D) /\ SsspCommon(D)
    BY <1>1, <2>1 DEF SsspInv
  <2>3. \A v \in Node : Relaxed(dist, v)
    BY <1>1 DEF SsspInv, RelaxInv, FillInv, SsspDone, SsspOverrun
  <2>4. /\ graph \in Graphs /\ origin \in Node /\ dist \in [Node -> 0 .. DistInf] /\ dist[origin] = 0
        /\ \A v \in Node : D[v] <= dist[v] /\ D[v] \in Nat /\ dist[v] \in Nat /\ D[v] <= DistInf
    <3>1. \A v \in Node : dist[v] \in Nat
      BY <2>2, CommonFacts
    <3> QED
      BY <2>2, <3>1 DEF SsspCommon, IsNearest
  <2>5. PICK c : c = DistInf + 1
    OBVIOUS
  <2>6. c \in Nat /\ \A v \in Node : D[v] < c
    BY <2>4, <2>5, WeightType
  <2>7. \A v \in Node : Nearest(origin)[v] < c => dist[v] <= Nearest(origin)[v]
    BY <2>3, <2>4, <2>6, BelowIsTrue
  <2>8. \A v \in Node : dist[v] <= D[v]
    BY <2>1, <2>6, <2>7
  <2> QED
    BY <2>1, <2>4, <2>8
<1> QED
  BY <1>1, SsspAlways, PTL

-----------------------------------------------------------------------------
(* Bins one unit wide: each is taken once with each distance it is given,  *)
(* so that the claims of a round are for as many places as there are       *)
(* vertices in its bin, at most.                                           *)

\* The entries of the bins, of whichever threads, are different vertices, and
\* wait at a distance they have or had. Each was found over an edge.
EdgeEnds == {v \in Node : \E u \in Node : v \in Elems(graph.out[u])}
Entry(bs, t, b, i) == t \in Threads /\ i \in DOMAIN bs[t][b]
EntryAt(d, b, v) == v \in EdgeEnds /\ d[v] <= b
Different(bs, b) ==
  \A t1, t2, i, j : Entry(bs, t1, b, i) /\ Entry(bs, t2, b, j) /\ bs[t1][b][i] = bs[t2][b][j] => t1 = t2 /\ i = j
EntriesOnce ==
  /\ \A b \in 0 .. MaxBin - 1 : \A t, i : Entry(bins, t, b, i) => EntryAt(dist, b, bins[t][b][i])
  /\ \A b \in 0 .. MaxBin - 1 : Different(bins, b)

\* What a thread will still claim, in the round whose bin is b.
Waiting(th, row, b) == IF th.at \in {"idle", "single", "claim"} THEN Len(row[b]) ELSE 0
Unclaimed(th, bs, b) == SumFunctionOnSet([t \in Threads |-> Waiting(th[t], bs[t], b)], Threads)

PlacesSuffice ==
  step = "fill" /\ indexes[Next1] < MaxBin =>
    tails[Next1] + Unclaimed(thread, bins, indexes[Next1]) <= NumEdgesDirected(graph)

OnceInv == delta = 1 => EntriesOnce /\ PlacesSuffice /\ step # "overrun"

\* An injective list has as many elements as places.
LEMMA ElemsOfInjective ==
  ASSUME NEW s \in Seq(Node), IsInjective(s)
  PROVE  Cardinality(Elems(s)) = Len(s)
<1>1. PICK n : n = Len(s)
  OBVIOUS
<1>2. n \in Nat /\ DOMAIN s = 1 .. n /\ s \in [1 .. n -> Node]
  BY <1>1
<1>3. IsFiniteSet(1 .. n) /\ Cardinality(1 .. n) = n
  BY <1>2, FS_Interval
<1>4. PICK f : f = [i \in 1 .. n |-> s[i]]
  OBVIOUS
<1>5. f \in Surjection(1 .. n, Elems(s)) /\ f \in Injection(1 .. n, Elems(s))
  <2>1. f \in [1 .. n -> Elems(s)]
    BY <1>2, <1>4 DEF Elems
  <2>2. \A v \in Elems(s) : \E i \in 1 .. n : f[i] = v
    BY <1>2, <1>4 DEF Elems
  <2>3. \A i, j \in 1 .. n : f[i] = f[j] => i = j
    BY <1>2, <1>4 DEF IsInjective
  <2> QED
    BY <2>1, <2>2, <2>3 DEF Surjection, Injection, IsInjective
<1>6. Cardinality(Elems(s)) = Cardinality(1 .. n)
  BY <1>3, <1>5, FS_Surjection
<1> QED
  BY <1>1, <1>3, <1>6

LEMMA NumEdgesType == ASSUME graph \in Graphs PROVE NumEdgesDirected(graph) \in Nat
<1>1. PICK f : f = [n \in Node |-> Len(graph.out[n])]
  OBVIOUS
<1>2. \A n \in Node : Len(graph.out[n]) \in Nat
  BY GraphFacts
<1>3. \A n \in Node : f[n] \in Nat
  BY <1>1, <1>2
<1>4. NumEdgesDirected(graph) = SumFunctionOnSet(f, Node)
  BY <1>1 DEF NumEdgesDirected
<1> QED
  BY <1>3, <1>4, NodeFacts, SumNat

\* What lies in a bin has room in the frontier: each entry has an edge to it,
\* which is of no other entry.
LEMMA BinFits ==
  ASSUME graph \in Graphs, EntriesOnce, NEW b \in 0 .. MaxBin - 1,
         \A t \in Threads : bins[t][b] \in Seq(Node)
  PROVE  SumFunctionOnSet([t \in Threads |-> Len(bins[t][b])], Threads) <= NumEdgesDirected(graph)
<1> DEFINE R == {p \in Threads \X Node : p[2] \in Elems(bins[p[1]][b])}
           Q == {e \in Node \X Node : e[2] \in Elems(graph.out[e[1]])}
           lens == [t \in Threads |-> Len(bins[t][b])]
           degree == [n \in Node |-> Len(graph.out[n])]
           sizes == [n \in Node |-> Cardinality(Elems(graph.out[n]))]
           From(v) == CHOOSE u \in Node : v \in Elems(graph.out[u])
           over == [p \in R |-> <<From(p[2]), p[2]>>]
<1>0. IsFiniteSet(Node) /\ IsFiniteSet(Threads)
  BY NodeFacts, KernelAssumption
<1>1. ASSUME NEW t \in Threads PROVE IsInjective(bins[t][b])
  <2>1. \A i, j \in DOMAIN bins[t][b] : bins[t][b][i] = bins[t][b][j] => i = j
    BY DEF EntriesOnce, Different, Entry
  <2> QED
    BY <2>1 DEF IsInjective
<1>2. ASSUME NEW t \in Threads PROVE lens[t] = RowSize(Node, R, t)
  <2>1. bins[t][b] \in Seq(Node)
    OBVIOUS
  <2>2. Elems(bins[t][b]) \subseteq Node
    BY <2>1 DEF Elems
  <2>3. {w \in Node : <<t, w>> \in R} = Elems(bins[t][b])
    BY <2>2
  <2>4. Cardinality(Elems(bins[t][b])) = Len(bins[t][b])
    BY <1>1, <2>1, ElemsOfInjective
  <2>5. lens[t] = Len(bins[t][b])
    OBVIOUS
  <2> HIDE DEF R, lens
  <2> QED
    BY <2>3, <2>4, <2>5 DEF RowSize
<1>3. ASSUME NEW n \in Node
      PROVE  /\ sizes[n] = RowSize(Node, Q, n) /\ sizes[n] \in Int
             /\ degree[n] \in Int /\ sizes[n] <= degree[n]
  <2>1. graph.out[n] \in Seq(Node) /\ Elems(graph.out[n]) \subseteq Node
    BY GraphFacts
  <2>2. {w \in Node : <<n, w>> \in Q} = Elems(graph.out[n])
    BY <2>1
  <2>3. sizes[n] = Cardinality(Elems(graph.out[n])) /\ degree[n] = Len(graph.out[n])
    OBVIOUS
  <2>4. Len(graph.out[n]) \in Nat
    BY <2>1
  <2>5. Cardinality(Elems(graph.out[n])) \in Nat /\ Cardinality(Elems(graph.out[n])) <= Len(graph.out[n])
    BY <2>1, ElemsCount
  <2>6. sizes[n] \in Int /\ degree[n] \in Int /\ sizes[n] <= degree[n]
    BY ONLY <2>3, <2>4, <2>5
  <2> HIDE DEF Q, sizes, degree
  <2> QED
    BY ONLY <2>2, <2>3, <2>6 DEF RowSize
<1>4. over \in Injection(R, Q)
  <2>1. ASSUME NEW p \in R PROVE over[p] \in Q /\ over[p][2] = p[2]
    <3>1. p[1] \in Threads /\ p[2] \in Node /\ p[2] \in Elems(bins[p[1]][b])
      OBVIOUS
    <3>2. PICK i \in DOMAIN bins[p[1]][b] : p[2] = bins[p[1]][b][i]
      BY <3>1 DEF Elems
    <3>3. p[2] \in EdgeEnds
      BY <3>1, <3>2 DEF EntriesOnce, Entry, EntryAt
    <3>4. \E u \in Node : p[2] \in Elems(graph.out[u])
      BY <3>3 DEF EdgeEnds
    <3>5. From(p[2]) \in Node /\ p[2] \in Elems(graph.out[From(p[2])])
      BY <3>4
    <3>6. over[p] = <<From(p[2]), p[2]>>
      OBVIOUS
    <3> HIDE DEF over, From
    <3> QED
      BY <3>1, <3>5, <3>6
  <2>2. ASSUME NEW p \in R, NEW q \in R, over[p] = over[q] PROVE p = q
    <3>1. p[2] = q[2]
      BY <2>1, <2>2
    <3>2. /\ p[1] \in Threads /\ p[2] \in Elems(bins[p[1]][b]) /\ p = <<p[1], p[2]>>
          /\ q[1] \in Threads /\ q[2] \in Elems(bins[q[1]][b]) /\ q = <<q[1], q[2]>>
      OBVIOUS
    <3> HIDE DEF over, R
    <3>3. PICK i \in DOMAIN bins[p[1]][b] : p[2] = bins[p[1]][b][i]
      BY <3>2 DEF Elems
    <3>4. PICK j \in DOMAIN bins[q[1]][b] : q[2] = bins[q[1]][b][j]
      BY <3>2 DEF Elems
    <3>5. p[1] = q[1]
      BY <3>1, <3>2, <3>3, <3>4 DEF EntriesOnce, Different, Entry
    <3> QED
      BY <3>1, <3>2, <3>5
  <2>3. over \in [R -> Q]
    <3>1. \A p \in R : over[p] \in Q
      BY <2>1
    <3>2. over = [p \in R |-> over[p]]
      OBVIOUS
    <3> HIDE DEF over, R, Q
    <3> QED
      BY <3>1, <3>2
  <2> HIDE DEF over, R, Q
  <2>4. DOMAIN over = R
    BY <2>3
  <2> QED
    BY <2>2, <2>3, <2>4 DEF Injection, IsInjective
<1>5. R \in SUBSET (Threads \X Node) /\ Q \in SUBSET (Node \X Node)
  OBVIOUS
<1>6. /\ lens = [t \in Threads |-> Len(bins[t][b])]
      /\ NumEdgesDirected(graph) = SumFunctionOnSet(degree, Node)
  BY DEF NumEdgesDirected
<1> HIDE DEF R, Q, lens, degree, sizes, over
<1>7. IsFiniteSet(R) /\ Cardinality(R) = SumFunctionOnSet(lens, Threads)
  BY ONLY <1>0, <1>2, <1>5, CountInRows
<1>8. IsFiniteSet(Q) /\ Cardinality(Q) = SumFunctionOnSet(sizes, Node)
  BY ONLY <1>0, <1>3, <1>5, CountInRows
<1>9. SumFunctionOnSet(sizes, Node) <= SumFunctionOnSet(degree, Node)
  BY ONLY <1>0, <1>3, SumGrows
<1>10. Cardinality(R) <= Cardinality(Q)
  BY ONLY <1>4, <1>8, FS_Injection
<1>11. /\ Cardinality(R) \in Nat /\ Cardinality(Q) \in Nat
       /\ SumFunctionOnSet(degree, Node) \in Int
  <2>1. Cardinality(R) \in Nat /\ Cardinality(Q) \in Nat
    BY ONLY <1>7, <1>8, FS_CardinalityType
  <2>2. SumFunctionOnSet(degree, Node) \in Int
    BY ONLY <1>0, <1>3, SumSplit
  <2> QED
    BY <2>1, <2>2
<1>12. SumFunctionOnSet(lens, Threads) <= SumFunctionOnSet(degree, Node)
  BY ONLY <1>7, <1>8, <1>9, <1>10, <1>11
<1> QED
  BY ONLY <1>6, <1>12

\* A step of one thread changes what is unclaimed by what that thread waits for.
LEMMA UnclaimedStep ==
  ASSUME NEW th, NEW th2, NEW bs, NEW bs2, NEW b, NEW t \in Threads,
         \A s \in Threads : Waiting(th[s], bs[s], b) \in Nat /\ Waiting(th2[s], bs2[s], b) \in Nat,
         \A s \in Threads \ {t} : Waiting(th2[s], bs2[s], b) = Waiting(th[s], bs[s], b)
  PROVE  /\ Unclaimed(th, bs, b) \in Nat
         /\ Unclaimed(th2, bs2, b)
              = Unclaimed(th, bs, b) - Waiting(th[t], bs[t], b) + Waiting(th2[t], bs2[t], b)
<1>1. PICK f, g : /\ f = [s \in Threads |-> Waiting(th[s], bs[s], b)]
                  /\ g = [s \in Threads |-> Waiting(th2[s], bs2[s], b)]
  OBVIOUS
<1>2. /\ \A s \in Threads : f[s] = Waiting(th[s], bs[s], b) /\ g[s] = Waiting(th2[s], bs2[s], b)
      /\ Unclaimed(th, bs, b) = SumFunctionOnSet(f, Threads)
      /\ Unclaimed(th2, bs2, b) = SumFunctionOnSet(g, Threads)
  BY <1>1 DEF Unclaimed
<1>3. \A s \in Threads : f[s] \in Nat /\ g[s] \in Nat /\ f[s] \in Int /\ g[s] \in Int
  BY <1>2
<1>4. \A s \in Threads \ {t} : g[s] = f[s]
  BY <1>2
<1>5. IsFiniteSet(Threads)
  BY KernelAssumption
<1>6. SumFunctionOnSet(g, Threads) = SumFunctionOnSet(f, Threads) - f[t] + g[t]
  BY ONLY <1>3, <1>4, <1>5, t \in Threads, SumChange
<1>7. SumFunctionOnSet(f, Threads) \in Nat
  BY ONLY <1>3, <1>5, SumNat
<1> QED
  BY <1>2, <1>6, <1>7

\* The entries of the bins stay different: a bin is emptied, or gets a vertex
\* whose distance was larger than any at which it waits there.
LEMMA EntriesEmptied ==
  ASSUME NEW D, SsspCommon(D), EntriesOnce, NEW t \in Threads, NEW c \in 0 .. MaxBin - 1,
         bins' = [bins EXCEPT ![t][c] = <<>>], dist' = dist, graph' = graph
  PROVE  EntriesOnce'
<1>1. PICK e : e = <<>>
  OBVIOUS
<1>2. e \in Seq(Node) /\ bins' = [bins EXCEPT ![t][c] = e] /\ DOMAIN e = {}
  BY <1>1
<1>3. bins \in [Threads -> [0 .. MaxBin - 1 -> Seq(Node)]]
  BY DEF SsspCommon
<1>4. /\ \A r \in Threads \ {t} : bins'[r] = bins[r]
      /\ bins'[t][c] = e /\ \A b \in (0 .. MaxBin - 1) \ {c} : bins'[t][b] = bins[t][b]
  BY ONLY <1>2, <1>3, t \in Threads, c \in 0 .. MaxBin - 1, NewBin
<1>5. \A b \in 0 .. MaxBin - 1 : \A r, i : Entry(bins', r, b, i) => Entry(bins, r, b, i) /\ bins'[r][b][i] = bins[r][b][i]
  BY <1>2, <1>4 DEF Entry
<1>6. EdgeEnds' = EdgeEnds
  BY DEF EdgeEnds
<1>7. \A b \in 0 .. MaxBin - 1 : Different(bins', b)
  <2> SUFFICES ASSUME NEW b \in 0 .. MaxBin - 1 PROVE Different(bins', b)
    OBVIOUS
  <2>1. Different(bins, b)
    BY DEF EntriesOnce
  <2> QED
    BY <1>5, <2>1 DEF Different
<1>8. \A b \in 0 .. MaxBin - 1 : \A r, i : Entry(bins', r, b, i) => EntryAt(dist', b, bins'[r][b][i])
  <2>1. \A b \in 0 .. MaxBin - 1 : \A r, i : Entry(bins, r, b, i) => EntryAt(dist', b, bins[r][b][i])
    BY DEF EntriesOnce
  <2> QED
    BY ONLY <1>5, <2>1
<1> QED
  BY ONLY <1>6, <1>7, <1>8 DEF EntriesOnce, Entry, EntryAt, Different, MaxBin

LEMMA EntriesImproved ==
  ASSUME NEW D, SsspCommon(D), EntriesOnce, NEW t \in Threads, NEW v \in EdgeEnds, NEW new \in 0 .. MaxBin - 1,
         new < dist[v], dist' = [dist EXCEPT ![v] = new],
         bins' = [bins EXCEPT ![t][new] = Append(bins[t][new], v)], graph' = graph
  PROVE  EntriesOnce'
<1>1. PICK old, s : old = bins[t][new] /\ s = Append(old, v)
  OBVIOUS
<1>2. bins \in [Threads -> [0 .. MaxBin - 1 -> Seq(Node)]] /\ v \in Node /\ dist[v] \in Nat /\ new \in Nat /\ MaxBin \in Nat
  BY CommonFacts DEF SsspCommon, EdgeEnds
<1>3. old \in Seq(Node) /\ s \in Seq(Node) /\ Len(old) \in Nat
  BY <1>1, <1>2
<1>4. bins' = [bins EXCEPT ![t][new] = s]
  BY <1>1
<1>5. /\ \A r \in Threads \ {t} : bins'[r] = bins[r]
      /\ bins'[t][new] = s /\ \A b \in (0 .. MaxBin - 1) \ {new} : bins'[t][b] = bins[t][b]
  BY <1>2, <1>3, <1>4, NewBin
<1>6. PICK n : n = Len(old)
  OBVIOUS
<1>7. /\ n \in Nat /\ DOMAIN old = 1 .. n /\ DOMAIN s = 1 .. n + 1 /\ s[n + 1] = v
      /\ \A i \in 1 .. n : s[i] = old[i]
  BY <1>1, <1>3, <1>6
\* What an entry of now is: the new one, or one there was.
<1>8. ASSUME NEW b \in 0 .. MaxBin - 1, NEW r, NEW i, Entry(bins', r, b, i)
      PROVE  \/ r = t /\ b = new /\ i = n + 1 /\ bins'[r][b][i] = v
             \/ Entry(bins, r, b, i) /\ bins'[r][b][i] = bins[r][b][i]
  <2>1. r \in Threads /\ i \in DOMAIN bins'[r][b]
    BY <1>8 DEF Entry
  <2>2. CASE r = t /\ b = new
    <3>1. i \in 1 .. n + 1 /\ bins'[r][b][i] = s[i]
      BY <1>5, <1>7, <2>1, <2>2
    <3>2. CASE i = n + 1
      BY <1>7, <2>2, <3>1, <3>2
    <3>3. CASE i # n + 1
      <4>1. i \in 1 .. n
        BY <1>7, <3>1, <3>3
      <4> QED
        BY <1>1, <1>7, <2>1, <2>2, <3>1, <4>1 DEF Entry
    <3> QED
      BY <3>2, <3>3
  <2>3. CASE ~(r = t /\ b = new)
    <3>1. bins'[r][b] = bins[r][b]
      BY <1>5, <2>1, <2>3
    <3> QED
      BY <2>1, <3>1 DEF Entry
  <2> QED
    BY <2>2, <2>3
\* None there was is of v.
<1>9. \A r, i : Entry(bins, r, new, i) => bins[r][new][i] # v
  <2> SUFFICES ASSUME NEW r, NEW i, Entry(bins, r, new, i), bins[r][new][i] = v PROVE FALSE
    OBVIOUS
  <2>1. EntryAt(dist, new, v)
    BY DEF EntriesOnce
  <2> QED
    BY <1>2, <2>1 DEF EntryAt
<1>10. \A b \in 0 .. MaxBin - 1 : Different(bins', b)
  <2> SUFFICES ASSUME NEW b \in 0 .. MaxBin - 1, NEW r1, NEW r2, NEW i, NEW j,
                      Entry(bins', r1, b, i), Entry(bins', r2, b, j), bins'[r1][b][i] = bins'[r2][b][j]
               PROVE  r1 = r2 /\ i = j
    BY DEF Different
  <2>1. Different(bins, b)
    BY DEF EntriesOnce
  <2>2. \/ r1 = t /\ b = new /\ i = n + 1 /\ bins'[r1][b][i] = v
        \/ Entry(bins, r1, b, i) /\ bins'[r1][b][i] = bins[r1][b][i]
    BY ONLY <1>8, b \in 0 .. MaxBin - 1, Entry(bins', r1, b, i)
  <2>3. \/ r2 = t /\ b = new /\ j = n + 1 /\ bins'[r2][b][j] = v
        \/ Entry(bins, r2, b, j) /\ bins'[r2][b][j] = bins[r2][b][j]
    BY ONLY <1>8, b \in 0 .. MaxBin - 1, Entry(bins', r2, b, j)
  <2> QED
    BY <1>9, <2>1, <2>2, <2>3 DEF Different
<1>11. \A b \in 0 .. MaxBin - 1 : \A w : EntryAt(dist, b, w) => EntryAt(dist', b, w)
  <2> SUFFICES ASSUME NEW b \in 0 .. MaxBin - 1, NEW w, EntryAt(dist, b, w) PROVE EntryAt(dist', b, w)
    OBVIOUS
  <2>1. w \in EdgeEnds /\ w \in Node /\ dist[w] <= b /\ b \in Nat /\ dist[w] \in Nat
    BY <1>2, CommonFacts DEF EntryAt, EdgeEnds
  <2>2. dist'[w] <= b
    <3>1. dist \in [Node -> 0 .. DistInf]
      BY DEF SsspCommon
    <3>2. dist'[w] = IF w = v THEN new ELSE dist[w]
      BY <2>1, <3>1
    <3> QED
      BY <1>2, <2>1, <3>2
  <2> QED
    BY <2>1, <2>2 DEF EntryAt
<1>12. EntryAt(dist', new, v)
  <2>1. dist'[v] = new
    BY <1>2 DEF SsspCommon
  <2> QED
    BY <1>2, <2>1 DEF EntryAt
<1>13. \A b \in 0 .. MaxBin - 1 : \A r, i : Entry(bins', r, b, i) => EntryAt(dist', b, bins'[r][b][i])
  <2>1. \A b \in 0 .. MaxBin - 1 : \A r, i : Entry(bins, r, b, i) => EntryAt(dist, b, bins[r][b][i])
    BY DEF EntriesOnce
  <2> QED
    BY ONLY <1>8, <1>11, <1>12, <2>1
<1>14. EdgeEnds' = EdgeEnds
  BY DEF EdgeEnds
<1> QED
  BY ONLY <1>10, <1>13, <1>14 DEF EntriesOnce, Entry, EntryAt, Different, MaxBin

\* An improvement, and its distance.
LEMMA ImproveOnce ==
  ASSUME NEW D, SsspCommon(D), NEW low, RelaxInv(low), delta = 1, EntriesOnce, NEW t \in Threads, Improve(t)
  PROVE  EntriesOnce'
<1>1. PICK th, v, new : th = thread[t] /\ v = th.rest[1] /\ new = th.new
  OBVIOUS
<1>2. th.at = "improve" /\ graph' = graph
  BY <1>1 DEF Improve, Goes
<1>3. RoundThread(dist, th, low) /\ IsRelaxing(th)
  BY <1>1, <1>2 DEF RelaxInv, IsRelaxing
<1>4. /\ RelaxOK(dist, th, low) /\ Head(th.rest) = v /\ v \in Node /\ th.us[1] \in Node
      /\ v \in Elems(graph.out[th.us[1]])
  BY <1>1, <1>3, AtEdge
<1>5. new \in Nat /\ new < th.old /\ th.old \in 0 .. DistInf
  BY <1>1, <1>2, <1>4 DEF RelaxOK
<1>6. v \in EdgeEnds
  BY <1>4 DEF EdgeEnds
<1>7. CASE dist[v] # th.old
  <2>1. dist' = dist /\ bins' = bins
    BY <1>1, <1>4, <1>7 DEF Improve
  <2> QED
    BY <1>2, <2>1 DEF EntriesOnce, Entry, EntryAt, Different, MaxBin, EdgeEnds
<1>8. CASE dist[v] = th.old
  <2>1. MaxBin \in Nat /\ DistInf = MaxBin
    BY CommonFacts
  <2>2. new \in 0 .. MaxBin - 1
    BY <1>5, <2>1
  <2>3. th.new \div delta = new
    BY <1>1, <1>5
  <2>4. dist' = [dist EXCEPT ![v] = new] /\ bins' = [bins EXCEPT ![t][new] = Append(bins[t][new], v)]
    BY <1>1, <1>4, <1>8, <2>3 DEF Improve
  <2> QED
    BY <1>2, <1>5, <1>6, <1>8, <2>2, <2>4, EntriesImproved
<1> QED
  BY <1>7, <1>8

\* The fill of the frontier: a claim moves what a thread waits for to the tail.
LEMMA FillOnce ==
  ASSUME NEW D, SsspCommon(D), NEW b, FillInv(b), EntriesOnce, PlacesSuffice, NEW t \in Threads,
         EnterSingle(t) \/ ResetCurr(t) \/ PassSingle(t) \/ ClaimPlaces(t) \/ CopyBin(t) \/ Overrun(t)
  PROVE  EntriesOnce' /\ PlacesSuffice' /\ step' # "overrun"
<1>1. PICK n, T, E : n = Next1 /\ T = tails[n] /\ E = NumEdgesDirected(graph)
  OBVIOUS
<1>2. /\ n \in 0 .. 1 /\ iter \in 0 .. 1 /\ n # iter /\ T \in Nat /\ E \in Nat /\ b = indexes[n]
      /\ b \in 0 .. MaxBin /\ MaxBin \in Nat /\ step = "fill" /\ graph \in Graphs
      /\ tails \in [0 .. 1 -> Nat] /\ indexes \in [0 .. 1 -> 0 .. MaxBin] /\ DOMAIN thread = Threads
  <2>1. graph \in Graphs /\ tails \in [0 .. 1 -> Nat] /\ indexes \in [0 .. 1 -> 0 .. MaxBin] /\ DOMAIN thread = Threads
    BY DEF SsspCommon
  <2>2. b = indexes[n] /\ b \in 0 .. MaxBin /\ step = "fill"
    BY <1>1 DEF FillInv
  <2>3. n \in 0 .. 1 /\ iter \in 0 .. 1 /\ n # iter /\ T \in Nat /\ MaxBin \in Nat
    BY <1>1, CommonFacts
  <2>4. E \in Nat
    BY <1>1, <2>1, NumEdgesType
  <2> QED
    BY <2>1, <2>2, <2>3, <2>4
<1>3. b < MaxBin => T + Unclaimed(thread, bins, b) <= E
  BY <1>1, <1>2 DEF PlacesSuffice
<1>4. b < MaxBin => \A s \in Threads : Len(bins[s][b]) \in Nat
  <2>1. SUFFICES ASSUME b < MaxBin, NEW s \in Threads PROVE Len(bins[s][b]) \in Nat
    OBVIOUS
  <2>2. b \in 0 .. MaxBin - 1
    BY <1>2, <2>1
  <2>3. bins[s][b] \in Seq(Node)
    BY <2>2, CommonFacts
  <2> QED
    BY <2>3
<1>5. b < MaxBin => Unclaimed(thread, bins, b) \in Nat
  <2>1. SUFFICES ASSUME b < MaxBin PROVE Unclaimed(thread, bins, b) \in Nat
    OBVIOUS
  <2>2. \A s \in Threads : Waiting(thread[s], bins[s], b) \in Nat
    BY <1>4, <2>1 DEF Waiting
  <2>3. PICK th, bs : th = thread /\ bs = bins
    OBVIOUS
  <2>4. \A s \in Threads : Waiting(th[s], bs[s], b) \in Nat
    BY <2>2, <2>3
  <2>5. Unclaimed(th, bs, b) \in Nat
    BY ONLY <2>4, t \in Threads, UnclaimedStep
  <2> QED
    BY <2>3, <2>5
\* A step of t after which it waits for so much.
<1>6. ASSUME b < MaxBin, NEW x, thread' = [thread EXCEPT ![t] = x], \A s \in Threads \ {t} : bins'[s] = bins[s],
             Waiting(x, bins'[t], b) \in Nat
      PROVE  Unclaimed(thread', bins', b)
               = Unclaimed(thread, bins, b) - Waiting(thread[t], bins[t], b) + Waiting(x, bins'[t], b)
  <2>1. thread'[t] = x /\ \A s \in Threads \ {t} : thread'[s] = thread[s]
    BY <1>2, <1>6
  <2>2. PICK th, th2, bs, bs2 : th = thread /\ th2 = thread' /\ bs = bins /\ bs2 = bins'
    OBVIOUS
  <2>3. \A s \in Threads : Waiting(th[s], bs[s], b) \in Nat
    BY <1>4, <1>6, <2>2 DEF Waiting
  <2>4. \A s \in Threads \ {t} : Waiting(th2[s], bs2[s], b) = Waiting(th[s], bs[s], b)
    BY <1>6, <2>1, <2>2
  <2>5. Waiting(th2[t], bs2[t], b) = Waiting(x, bs2[t], b) /\ Waiting(x, bs2[t], b) \in Nat
    BY <1>6, <2>1, <2>2
  <2>6. \A s \in Threads : Waiting(th[s], bs[s], b) \in Nat /\ Waiting(th2[s], bs2[s], b) \in Nat
    BY <2>3, <2>4, <2>5
  <2>7. Unclaimed(th2, bs2, b) = Unclaimed(th, bs, b) - Waiting(th[t], bs[t], b) + Waiting(th2[t], bs2[t], b)
    BY ONLY <2>4, <2>6, t \in Threads, UnclaimedStep
  <2> QED
    BY <2>2, <2>5, <2>7
<1>7. ASSUME bins' = bins, dist' = dist, graph' = graph PROVE EntriesOnce'
  BY <1>7 DEF EntriesOnce, Entry, EntryAt, Different, MaxBin, EdgeEnds
<1>8. ASSUME NEW x, thread' = [thread EXCEPT ![t] = x], x.at \in {"single", "claim"},
             thread[t].at \in {"idle", "single"}, bins' = bins, dist' = dist, graph' = graph, iter' = iter, step' = step,
             tails'[n] = T, indexes'[n] = b
      PROVE  EntriesOnce' /\ PlacesSuffice' /\ step' # "overrun"
  <2>1. Next1' = n
    BY <1>1, <1>8 DEF Next1
  <2>2. ASSUME b < MaxBin PROVE T + Unclaimed(thread', bins', b) <= E
    <3>1. Waiting(thread[t], bins[t], b) = Len(bins[t][b]) /\ Waiting(x, bins'[t], b) = Len(bins[t][b])
      BY <1>8 DEF Waiting
    <3>2. Unclaimed(thread', bins', b) = Unclaimed(thread, bins, b) - Len(bins[t][b]) + Len(bins[t][b])
      BY <1>4, <1>6, <1>8, <2>2, <3>1
    <3>3. Len(bins[t][b]) \in Nat
      BY <1>4, <2>2
    <3> QED
      BY <1>3, <1>5, <2>2, <3>2, <3>3
  <2>3. NumEdgesDirected(graph)' = E /\ MaxBin' = MaxBin
    BY <1>1, <1>8 DEF MaxBin
  <2>4. PlacesSuffice'
    BY <1>8, <2>1, <2>2, <2>3 DEF PlacesSuffice
  <2> QED
    BY <1>2, <1>7, <1>8, <2>4
<1>9. CASE EnterSingle(t)
  <2>1. PICK x : x = [at |-> "single"]
    OBVIOUS
  <2>2. /\ thread[t] = Idle /\ thread' = [thread EXCEPT ![t] = x]
        /\ UNCHANGED <<kernel, graph, step, origin, delta, dist, frontier, tails, indexes, iter, bins>>
    BY <1>9, <2>1 DEF EnterSingle, Take
  <2> QED
    <3>1. thread[t].at = "idle" /\ x.at \in {"single", "claim"}
      BY <2>1, <2>2 DEF Idle
    <3>2. tails'[n] = T /\ indexes'[n] = b
      BY <1>1, <1>2, <2>2
    <3> QED
      BY <1>8, <2>2, <3>1, <3>2
<1>10. CASE PassSingle(t)
  <2>1. PICK x : x = [at |-> "claim"]
    OBVIOUS
  <2>2. /\ thread[t] = Idle /\ thread' = [thread EXCEPT ![t] = x]
        /\ UNCHANGED <<kernel, graph, step, todo, origin, delta, dist, frontier, tails, indexes, iter, bins>>
    BY <1>10, <2>1 DEF PassSingle, Goes
  <2> QED
    <3>1. thread[t].at = "idle" /\ x.at \in {"single", "claim"}
      BY <2>1, <2>2 DEF Idle
    <3>2. tails'[n] = T /\ indexes'[n] = b
      BY <1>1, <1>2, <2>2
    <3> QED
      BY <1>8, <2>2, <3>1, <3>2
<1>11. CASE ResetCurr(t)
  <2>1. PICK x : x = [at |-> "claim"]
    OBVIOUS
  <2>2. /\ thread[t].at = "single" /\ thread' = [thread EXCEPT ![t] = x]
        /\ indexes' = [indexes EXCEPT ![iter] = MaxBin] /\ tails' = [tails EXCEPT ![iter] = 0]
        /\ UNCHANGED <<kernel, graph, step, todo, origin, delta, dist, frontier, iter, bins>>
    BY <1>11, <2>1 DEF ResetCurr, Goes
  <2>3. tails'[n] = T /\ indexes'[n] = b
    BY <1>1, <1>2, <2>2
  <2> QED
    BY <1>8, <2>1, <2>2, <2>3
<1>12. CASE ClaimPlaces(t)
  <2>1. PICK x, len : /\ x = (IF b < MaxBin THEN [at |-> "copy", base |-> T] ELSE [at |-> "joined"])
                      /\ len = Len(bins[t][b])
    OBVIOUS
  <2>2. /\ thread[t].at = "claim" /\ thread' = [thread EXCEPT ![t] = x]
        /\ UNCHANGED <<kernel, graph, step, todo, origin, delta, dist, frontier, indexes, iter, bins>>
    BY <1>1, <1>2, <1>12, <2>1 DEF ClaimPlaces, Goes
  <2>3. x.at \in {"copy", "joined"}
    BY <2>1
  <2>4. Next1' = n /\ indexes'[n] = b /\ NumEdgesDirected(graph)' = E /\ MaxBin' = MaxBin
    BY <1>1, <1>2, <2>2 DEF Next1, MaxBin
  <2>5. ASSUME b < MaxBin PROVE tails'[n] + Unclaimed(thread', bins', b) <= E
    <3>0. len \in Nat
      BY <1>4, <2>1, <2>5
    <3>1. len \in Nat /\ T + len \in Nat
      BY ONLY <1>2, <3>0
    <3>2. tails' = [tails EXCEPT ![n] = T + len]
      BY <1>1, <1>2, <1>12, <2>1, <2>5 DEF ClaimPlaces
    <3>3. tails'[n] = T + len
      BY <1>2, <3>2
    <3>4. Waiting(thread[t], bins[t], b) = len /\ Waiting(x, bins'[t], b) = 0
      BY <2>1, <2>2, <2>3 DEF Waiting
    <3>5. Unclaimed(thread', bins', b) = Unclaimed(thread, bins, b) - len + 0
      <4>1. Waiting(x, bins'[t], b) \in Nat /\ \A s \in Threads \ {t} : bins'[s] = bins[s]
        BY <2>2, <3>4
      <4>2. Unclaimed(thread', bins', b)
              = Unclaimed(thread, bins, b) - Waiting(thread[t], bins[t], b) + Waiting(x, bins'[t], b)
        BY <1>6, <2>2, <2>5, <4>1
      <4> QED
        BY ONLY <3>4, <4>2
    <3> QED
      BY <1>2, <1>3, <1>5, <2>5, <3>1, <3>3, <3>5
  <2>6. PlacesSuffice'
    BY <2>4, <2>5 DEF PlacesSuffice
  <2> QED
    BY <1>2, <1>7, <2>2, <2>6
<1>13. thread[t].at = "copy" => b < MaxBin /\ thread[t].base \in Nat /\ thread[t].base + Len(bins[t][b]) <= T
  BY <1>1 DEF FillInv
<1>14. CASE CopyBin(t)
  <2>1. PICK x, e : x = [at |-> "joined"] /\ e = <<>>
    OBVIOUS
  <2>2. /\ thread[t].at = "copy" /\ thread' = [thread EXCEPT ![t] = x]
        /\ bins' = [bins EXCEPT ![t][b] = e]
        /\ UNCHANGED <<kernel, graph, step, todo, origin, delta, dist, tails, indexes, iter>>
    BY <1>1, <1>2, <1>14, <2>1 DEF CopyBin, Goes
  <2>3. b \in 0 .. MaxBin - 1 /\ b < MaxBin
    BY <1>2, <1>13, <2>2
  <2>4. EntriesOnce'
    BY <2>1, <2>2, <2>3, EntriesEmptied
  <2>5. \A s \in Threads \ {t} : bins'[s] = bins[s]
    <3>1. e \in Seq(Node) /\ bins \in [Threads -> [0 .. MaxBin - 1 -> Seq(Node)]]
      BY <2>1 DEF SsspCommon
    <3> QED
      BY <2>2, <2>3, <3>1, NewBin
  <2>6. Waiting(thread[t], bins[t], b) = 0 /\ Waiting(x, bins'[t], b) = 0
    BY <2>1, <2>2 DEF Waiting
  <2>7. Unclaimed(thread', bins', b) = Unclaimed(thread, bins, b) - 0 + 0
    <3>1. Waiting(x, bins'[t], b) \in Nat
      BY <2>6
    <3>2. Unclaimed(thread', bins', b)
            = Unclaimed(thread, bins, b) - Waiting(thread[t], bins[t], b) + Waiting(x, bins'[t], b)
      BY <1>6, <2>2, <2>3, <2>5, <3>1
    <3> QED
      BY ONLY <2>6, <3>2
  <2>8. Next1' = n /\ indexes'[n] = b /\ NumEdgesDirected(graph)' = E /\ MaxBin' = MaxBin /\ tails'[n] = T
    BY <1>1, <1>2, <2>2 DEF Next1, MaxBin
  <2>9. T + Unclaimed(thread', bins', b) <= E
    BY <1>3, <1>5, <2>3, <2>7
  <2>10. PlacesSuffice'
    BY <2>8, <2>9 DEF PlacesSuffice
  <2> QED
    BY <1>2, <2>2, <2>4, <2>10
<1>15. ~Overrun(t)
  <2>1. SUFFICES ASSUME Overrun(t) PROVE FALSE
    OBVIOUS
  <2>2. thread[t].at = "copy" /\ ~Fits(t)
    BY <2>1 DEF Overrun
  <2>3. /\ b < MaxBin /\ thread[t].base \in Nat /\ thread[t].base + Len(bins[t][b]) <= T
        /\ Len(bins[t][b]) \in Nat
    BY <1>4, <1>13, <2>2
  <2>4. T <= E
    BY <1>2, <1>3, <1>5, <2>3
  <2>5. thread[t].base + Len(bins[t][b]) <= E
    BY <1>2, <2>3, <2>4
  <2> QED
    BY <1>1, <1>2, <2>2, <2>5 DEF Fits
<1> QED
  BY <1>9, <1>10, <1>11, <1>12, <1>14, <1>15

\* Where the fill begins, all that lies in the bin is unclaimed.
LEMMA FillBegins ==
  ASSUME NEW D, SsspCommon(D), NEW low, RelaxInv(low), EntriesOnce, Barrier1
  PROVE  EntriesOnce' /\ PlacesSuffice' /\ step' # "overrun"
<1>1. PICK b, n : n = Next1 /\ b = indexes[n]
  OBVIOUS
<1>2. /\ step' = "fill" /\ thread' = [t \in Threads |-> Idle]
      /\ UNCHANGED <<kernel, graph, origin, delta, dist, frontier, tails, indexes, iter, bins>>
  BY DEF Barrier1, BeginLoop
<1>3. tails[n] = 0 /\ b \in 0 .. MaxBin /\ MaxBin \in Nat /\ graph \in Graphs
  <2>1. tails[n] = 0
    BY <1>1 DEF RelaxInv
  <2>2. graph \in Graphs
    BY DEF SsspCommon
  <2> QED
    BY <1>1, <2>1, <2>2, CommonFacts
<1>4. EntriesOnce'
  BY <1>2 DEF EntriesOnce, Entry, EntryAt, Different, MaxBin, EdgeEnds
<1>5. ASSUME b < MaxBin PROVE tails[n] + Unclaimed(thread', bins', b) <= NumEdgesDirected(graph)
  <2>1. b \in 0 .. MaxBin - 1
    BY <1>3, <1>5
  <2>2. \A t \in Threads : bins[t][b] \in Seq(Node)
    BY <2>1, CommonFacts
  <2>3. PICK lens, f : /\ lens = [t \in Threads |-> Len(bins[t][b])]
                       /\ f = [t \in Threads |-> Waiting(thread'[t], bins'[t], b)]
    OBVIOUS
  <2>4. SumFunctionOnSet(lens, Threads) <= NumEdgesDirected(graph)
    BY <1>3, <2>1, <2>2, <2>3, BinFits
  <2>5. \A t \in Threads : lens[t] = Len(bins[t][b]) /\ Len(bins[t][b]) \in Nat /\ f[t] = Waiting(thread'[t], bins'[t], b)
    BY <2>2, <2>3
  <2>6. \A t \in Threads : Waiting(thread'[t], bins'[t], b) = Len(bins[t][b])
    BY <1>2 DEF Waiting, Idle
  <2>7. \A t \in Threads : lens[t] \in Int /\ lens[t] \in Nat /\ f[t] = lens[t]
    BY <2>5, <2>6
  <2>8. SumFunctionOnSet(f, Threads) = SumFunctionOnSet(lens, Threads) /\ SumFunctionOnSet(lens, Threads) \in Nat
    BY ONLY <2>7, KernelAssumption, SumSame, SumNat
  <2>9. Unclaimed(thread', bins', b) = SumFunctionOnSet(f, Threads)
    BY <2>3 DEF Unclaimed
  <2> QED
    BY <1>3, <2>4, <2>8, <2>9, NumEdgesType
<1>6. /\ Next1' = n /\ indexes'[n] = b /\ tails'[n] = tails[n]
      /\ NumEdgesDirected(graph)' = NumEdgesDirected(graph) /\ MaxBin' = MaxBin
  BY <1>1, <1>2 DEF Next1, MaxBin
<1>7. PlacesSuffice'
  BY <1>5, <1>6 DEF PlacesSuffice
<1> QED
  BY <1>2, <1>4, <1>7

LEMMA OnceStarts == SsspInit => OnceInv
<1> SUFFICES ASSUME SsspInit PROVE OnceInv
  OBVIOUS
<1>1. bins = [t \in Threads |-> [b \in 0 .. MaxBin - 1 |-> <<>>]] /\ step = "relax"
  BY DEF SsspInit
<1>2. \A t, i : \A b \in 0 .. MaxBin - 1 : ~Entry(bins, t, b, i)
  BY <1>1 DEF Entry
<1>3. EntriesOnce
  BY <1>2 DEF EntriesOnce, Different
<1> QED
  BY <1>1, <1>3 DEF OnceInv, PlacesSuffice

LEMMA OnceStays == SsspInv /\ OnceInv /\ [SsspNext]_ssspVars => OnceInv'
<1> SUFFICES ASSUME SsspInv, OnceInv, [SsspNext]_ssspVars, delta' = 1
             PROVE  EntriesOnce' /\ PlacesSuffice' /\ step' # "overrun"
  BY DEF OnceInv
<1>1. PICK D : D = Nearest(origin)
  OBVIOUS
<1>2. /\ IsNearest(D) /\ SsspCommon(D)
      /\ (\E low : RelaxInv(low)) \/ (\E b : FillInv(b)) \/ SsspDone \/ SsspOverrun
  BY <1>1 DEF SsspInv
<1>3. delta' = delta
  BY DEF ssspVars, SsspNext, Barrier1, Barrier2, TakeFrontier, RelaxEdges, ReadOld, ReadNew, Improve, Recheck,
         LeaveLoop, Fuse, Vote, EnterSingle, ResetCurr, PassSingle, ClaimPlaces, CopyBin, Overrun
<1>4. delta = 1 /\ EntriesOnce /\ PlacesSuffice /\ step # "overrun"
  BY <1>3 DEF OnceInv
<1>5. ASSUME bins' = bins, dist' = dist, graph' = graph PROVE EntriesOnce'
  BY <1>4, <1>5 DEF EntriesOnce, Entry, EntryAt, Different, MaxBin, EdgeEnds
<1>6. CASE UNCHANGED ssspVars
  <2>1. /\ bins' = bins /\ dist' = dist /\ graph' = graph /\ step' = step /\ thread' = thread
        /\ tails' = tails /\ indexes' = indexes /\ iter' = iter
    BY <1>6 DEF ssspVars, teamVars
  <2>2. PlacesSuffice'
    BY <1>4, <2>1 DEF PlacesSuffice, Next1, MaxBin
  <2> QED
    BY <1>4, <1>5, <2>1, <2>2
<1>7. ASSUME NEW low, RelaxInv(low), SsspNext PROVE EntriesOnce' /\ PlacesSuffice' /\ step' # "overrun"
  <2>1. step = "relax" /\ \A t \in Threads : thread[t].at \notin {"single", "claim", "copy"}
    BY <1>7 DEF RelaxInv, RoundThread
  <2>2. CASE Barrier1
    BY <1>2, <1>4, <1>7, <2>2, FillBegins
  <2>3. ASSUME NEW t \in Threads,
               \/ \E i \in todo : TakeFrontier(t, i)
               \/ ReadOld(t) \/ ReadNew(t) \/ Recheck(t) \/ LeaveLoop(t) \/ Vote(t)
        PROVE  bins' = bins /\ dist' = dist /\ graph' = graph /\ step' = step
    BY <2>3 DEF TakeFrontier, ReadOld, ReadNew, Recheck, LeaveLoop, Vote, Goes
  <2>4. ASSUME NEW t \in Threads, Improve(t) PROVE EntriesOnce' /\ step' = step
    <3>1. EntriesOnce'
      BY <1>2, <1>4, <1>7, <2>4, ImproveOnce
    <3> QED
      BY <2>4, <3>1 DEF Improve, Goes
  <2>5. ASSUME NEW t \in Threads, Fuse(t) PROVE EntriesOnce' /\ step' = step
    <3>1. dist' = dist /\ graph' = graph /\ step' = step
      BY <2>5 DEF Fuse, Goes
    <3>2. PICK c : c = Curr
      OBVIOUS
    <3>3. c \in 0 .. MaxBin - 1
      BY <1>7, <3>2 DEF RelaxInv
    <3>4. bins' = bins \/ bins' = [bins EXCEPT ![t][c] = <<>>]
      BY <2>5, <3>2 DEF Fuse
    <3>5. CASE bins' = bins
      BY <1>5, <3>1, <3>5
    <3>6. CASE bins' = [bins EXCEPT ![t][c] = <<>>]
      BY <1>2, <1>4, <3>1, <3>3, <3>6, EntriesEmptied
    <3> QED
      BY <3>1, <3>4, <3>5, <3>6
  <2>6. ~Barrier2 /\ \A t \in Threads : /\ ~EnterSingle(t) /\ ~ResetCurr(t) /\ ~PassSingle(t)
                                        /\ ~ClaimPlaces(t) /\ ~CopyBin(t) /\ ~Overrun(t)
    BY <2>1 DEF Barrier2, EnterSingle, ResetCurr, PassSingle, ClaimPlaces, CopyBin, Overrun
  <2>7. step' = "relax" => PlacesSuffice'
    BY DEF PlacesSuffice
  <2>8. \/ Barrier1
        \/ \E t \in Threads : \/ \E i \in todo : TakeFrontier(t, i)
                              \/ ReadOld(t) \/ ReadNew(t) \/ Recheck(t) \/ LeaveLoop(t) \/ Vote(t)
                              \/ Improve(t) \/ Fuse(t)
    BY <1>7, <2>6 DEF SsspNext, RelaxEdges
  <2> QED
    BY <1>5, <2>1, <2>2, <2>3, <2>4, <2>5, <2>7, <2>8
<1>8. ASSUME NEW b, FillInv(b), SsspNext PROVE EntriesOnce' /\ PlacesSuffice' /\ step' # "overrun"
  <2>1. step = "fill" /\ \A t \in Threads : thread[t].at \in {"idle", "single", "claim", "copy", "joined"}
    BY <1>8 DEF FillInv
  <2>2. ~Barrier1 /\ \A t \in Threads : /\ \A i \in todo : ~TakeFrontier(t, i)
                                        /\ ~RelaxEdges(t) /\ ~LeaveLoop(t) /\ ~Fuse(t) /\ ~Vote(t)
    BY <2>1 DEF Barrier1, TakeFrontier, RelaxEdges, ReadOld, ReadNew, Improve, Recheck, LeaveLoop, Fuse, Vote
  <2>3. CASE Barrier2
    <3>1. /\ bins' = bins /\ dist' = dist /\ graph' = graph
          /\ step' \in {"relax", "done"}
      BY <2>3 DEF Barrier2, BeginLoop
    <3> QED
      BY <1>5, <3>1 DEF PlacesSuffice
  <2>4. ASSUME NEW t \in Threads,
               EnterSingle(t) \/ ResetCurr(t) \/ PassSingle(t) \/ ClaimPlaces(t) \/ CopyBin(t) \/ Overrun(t)
        PROVE  EntriesOnce' /\ PlacesSuffice' /\ step' # "overrun"
    BY <1>2, <1>4, <1>8, <2>4, FillOnce
  <2> QED
    BY <1>8, <2>2, <2>3, <2>4 DEF SsspNext
<1>9. CASE SsspNext /\ (SsspDone \/ SsspOverrun)
  <2>1. step \in {"done", "overrun"} /\ todo = {} /\ \A t \in Threads : thread[t].at = "idle"
    BY <1>9 DEF SsspDone, SsspOverrun, Idle
  <2> QED
    BY <1>9, <2>1 DEF SsspNext, Barrier1, Barrier2, TakeFrontier, RelaxEdges, ReadOld, ReadNew, Improve, Recheck,
                      LeaveLoop, Fuse, Vote, EnterSingle, Take, ResetCurr, PassSingle, ClaimPlaces, CopyBin, Overrun
<1> QED
  BY <1>2, <1>6, <1>7, <1>8, <1>9

(* Whatever the schedule, the graph and the weights, with bins one unit    *)
(* wide no copy runs past the frontier, and no vertex is in a bin twice:   *)
(* the program has a place for each edge, and each entry of a bin takes    *)
(* one edge of its own.                                                    *)
THEOREM FrontierHolds == SsspSpec => []FrontierSuffices
<1>1. ASSUME SsspInv, OnceInv PROVE FrontierSuffices
  <2> SUFFICES ASSUME delta = 1 PROVE FrontierSuffices
    BY DEF FrontierSuffices
  <2>1. EntriesOnce /\ step # "overrun"
    BY <1>1 DEF OnceInv
  <2>2. \A t1, t2 \in Threads, b \in 0 .. MaxBin - 1 :
          \A i \in DOMAIN bins[t1][b], j \in DOMAIN bins[t2][b] :
            bins[t1][b][i] = bins[t2][b][j] => t1 = t2 /\ i = j
    BY <2>1 DEF EntriesOnce, Different, Entry
  <2> QED
    BY <2>1, <2>2 DEF FrontierSuffices
<1> QED
  BY <1>1, OnceStarts, OnceStays, SsspAlways, PTL DEF SsspSpec


\* The variables of delta-stepping keep their types: the copies into the
\* frontier are vertices, and no vote names a bin that does not exist.
FrontierType == DOMAIN frontier \subseteq Nat /\ \A i \in DOMAIN frontier : frontier[i] \in Node

LEMMA FrontierTypeKept ==
  ASSUME SsspInv, FrontierType, [SsspNext]_ssspVars
  PROVE  FrontierType'
<1>1. CASE UNCHANGED frontier
  BY <1>1 DEF FrontierType
<1>2. ASSUME NEW t \in Threads, CopyBin(t) PROVE FrontierType'
  <2>1. PICK b, base : b = indexes[Next1] /\ base = thread[t].base
    OBVIOUS
  <2>2. PICK list : list = bins[t][b]
    OBVIOUS
  <2>3. PICK mine : mine = base .. base + Len(list) - 1
    OBVIOUS
  <2>4. /\ thread[t].at = "copy"
        /\ frontier' = [i \in DOMAIN frontier \cup mine |->
                          IF i \in mine THEN list[i - base + 1] ELSE frontier[i]]
    BY <1>2, <2>1, <2>2, <2>3 DEF CopyBin
  <2>5. PICK c : FillInv(c)
    <3>1. ASSUME NEW low, RelaxInv(low) PROVE FALSE
      BY <2>4, <3>1 DEF RelaxInv, RoundThread
    <3>2. ~SsspDone /\ ~SsspOverrun
      BY <2>4 DEF SsspDone, SsspOverrun, Idle
    <3> QED
      BY <3>1, <3>2 DEF SsspInv
  <2>6. b \in 0 .. MaxBin /\ b < MaxBin /\ base \in Nat
    BY <2>1, <2>4, <2>5 DEF FillInv
  <2>7. list \in Seq(Node)
    <3>1. bins \in [Threads -> [0 .. MaxBin - 1 -> Seq(Node)]]
      BY DEF SsspInv, SsspCommon
    <3>2. MaxBin \in Nat
      BY WeightType
    <3>3. b \in 0 .. MaxBin - 1
      BY <2>6, <3>2
    <3> QED
      BY <2>2, <3>1, <3>3
  <2>8. \A i \in mine : i \in Nat /\ list[i - base + 1] \in Node
    <3>1. ASSUME NEW i \in mine PROVE i \in Nat /\ list[i - base + 1] \in Node
      <4>1. i - base + 1 \in 1 .. Len(list) /\ i \in Nat
        BY <2>3, <2>6, <2>7, <3>1
      <4> QED
        BY <2>7, <4>1
    <3> QED
      BY <3>1
  <2>9. DOMAIN frontier' = DOMAIN frontier \cup mine
    BY <2>4
  <2>10. \A i \in DOMAIN frontier' : frontier'[i] = IF i \in mine THEN list[i - base + 1] ELSE frontier[i]
    BY <2>4
  <2> QED
    BY <2>8, <2>9, <2>10 DEF FrontierType
<1>3. CASE UNCHANGED ssspVars
  BY <1>1, <1>3 DEF ssspVars
<1>4. ASSUME NEW t \in Threads,
             \/ \E i \in todo : TakeFrontier(t, i)
             \/ RelaxEdges(t) \/ LeaveLoop(t) \/ Fuse(t) \/ Vote(t)
             \/ EnterSingle(t) \/ ResetCurr(t) \/ PassSingle(t) \/ ClaimPlaces(t) \/ Overrun(t)
      PROVE  UNCHANGED frontier
  BY <1>4 DEF TakeFrontier, RelaxEdges, ReadOld, ReadNew, Improve, Recheck, LeaveLoop, Fuse, Vote,
       EnterSingle, ResetCurr, PassSingle, ClaimPlaces, Overrun
<1>5. Barrier1 \/ Barrier2 => UNCHANGED frontier
  BY DEF Barrier1, Barrier2
<1> QED
  BY <1>1, <1>2, <1>3, <1>4, <1>5 DEF SsspNext

\* The variables of delta-stepping keep their types: what is copied into the
\* frontier are vertices, and no vote names a bin that does not exist.
THEOREM SsspTypesHold == SsspSpec => []SsspTypeOK
<1>1. SsspInit => FrontierType
  BY NodeFacts DEF SsspInit, FrontierType
<1>2. SsspInv /\ FrontierType /\ [SsspNext]_ssspVars => FrontierType'
  BY FrontierTypeKept
<1>3. SsspInv /\ FrontierType => SsspTypeOK
  BY DEF SsspInv, SsspCommon, FrontierType, SsspTypeOK, RelaxInv, FillInv, SsspDone, SsspOverrun
<1> QED
  BY <1>1, <1>2, <1>3, SsspAlways, PTL DEF SsspSpec

-----------------------------------------------------------------------------
(* All kernels together. Each keeps to its own variables, and the others   *)
(* to theirs, so that a run of Kernels is a run of one of them.            *)
LEMMA OneRuns ==
  /\ kernel \in {"cc", "cc_sv"} /\ [Next]_vars => [CcNext]_ccVars
  /\ kernel = "bfs" /\ [Next]_vars => [BfsNext]_bfsVars
  /\ kernel = "bc" /\ [Next]_vars => [BcNext]_bcVars
  /\ kernel = "sssp" /\ [Next]_vars => [SsspNext]_ssspVars
  /\ kernel \in {"pr", "pr_spmv"} /\ [Next]_vars => [PrNext]_prVars
<1>1. /\ CcNext => kernel \in {"cc", "cc_sv"}
      /\ BfsNext => kernel = "bfs"
      /\ BcNext => kernel = "bc"
      /\ SsspNext => kernel = "sssp"
      /\ PrNext => kernel \in {"pr", "pr_spmv"}
  BY DEF CcNext, Afforest, ShiloachVishkin, BfsNext, BcNext, SsspNext, PrNext
<1>2. UNCHANGED vars => UNCHANGED ccVars /\ UNCHANGED bfsVars /\ UNCHANGED bcVars
                        /\ UNCHANGED ssspVars /\ UNCHANGED prVars
  BY DEF vars, ccVars, bfsVars, bcVars, ssspVars, prVars, teamVars, queueVars, ccOwn, bfsOwn, bcOwn,
         ssspOwn, prOwn, searchVars, pathVars, scoreVars
<1>3. Next => CcNext \/ BfsNext \/ BcNext \/ SsspNext \/ PrNext
  BY DEF Next
<1> QED
  BY <1>1, <1>2, <1>3

(* And none changes the graph, or which kernel it is.                      *)
LEMMA SameRun == [Next]_vars => kernel' = kernel /\ graph' = graph
<1>1. CcNext => kernel' = kernel /\ graph' = graph
  BY DEF CcNext, Afforest, ShiloachVishkin, TakeSample, TakeFinish, Link, ReadU, ReadV, ReadHigh,
         CompareAndSwap, Climb, ClimbOn, ClimbLow, Compress, TakeShort, Test, Reread, Write, EndSample,
         EndCompress, Pick, EndFinish, EndFinal, TakeHook, HookU, HookV, HookTest, HookWrite, EndHook,
         EndShortcut, Goes
<1>2. \A t \in Threads : Flush(t) => kernel' = kernel /\ graph' = graph
  BY DEF Flush, Reserve, CopyOut, LastFlush, Goes
<1>3. \A t \in Threads : \A v, x : BufferPush(t, v, x) => kernel' = kernel /\ graph' = graph
  BY DEF BufferPush, Goes
<1>4. BfsNext => kernel' = kernel /\ graph' = graph
  <2>1. \A t \in Threads : TDStep(t) \/ QueueToBitmap(t) \/ BUStep(t) \/ BitmapToQueue(t)
                             => kernel' = kernel /\ graph' = graph
    BY <1>3 DEF TDStep, TakeExpand, ReadParent, Claim, QueueToBitmap, TakeToBitmap, ReadWord, SwapWord,
           BUStep, TakeChunk, Look, ReadNext, WriteNext, BitmapToQueue, TakeToQueue, PushBit, Goes
  <2>2. GoBottomUp \/ GoTopDown \/ Return \/ EndTopDown \/ EndToBitmap \/ EndBottomUp \/ EndToQueue
          => kernel' = kernel /\ graph' = graph
    BY DEF GoBottomUp, GoTopDown, Return, EndTopDown, EndToBitmap, EndBottomUp, EndToQueue
  <2> QED
    BY <1>2, <2>1, <2>2 DEF BfsNext
<1>5. BcNext => kernel' = kernel /\ graph' = graph
  <2>1. \A t \in Threads : PBFS(t) => kernel' = kernel /\ graph' = graph
    BY <1>2, <1>3 DEF PBFS, TakePathVertex, ReadDepth, ClaimDepth, TestDepth, ReadBits, SwapBits, AddPaths, Goes
  <2>2. /\ \A i \in todo : Accumulate(i) => kernel' = kernel /\ graph' = graph
        /\ \A s \in Node : PickSource(s) => kernel' = kernel /\ graph' = graph
        /\ EndLevel \/ EndBack \/ ReturnScores => kernel' = kernel /\ graph' = graph
    BY DEF Accumulate, PickSource, EndLevel, EndBack, ReturnScores
  <2> QED
    BY <2>1, <2>2 DEF BcNext
<1>6. SsspNext => kernel' = kernel /\ graph' = graph
  <2>1. \A t \in Threads : RelaxEdges(t) => kernel' = kernel /\ graph' = graph
    BY DEF RelaxEdges, ReadOld, ReadNew, Improve, Recheck, Goes
  <2>2. \A t \in Threads : LeaveLoop(t) \/ Fuse(t) \/ Vote(t) => kernel' = kernel /\ graph' = graph
    BY DEF LeaveLoop, Fuse, Vote, Goes
  <2>3. \A t \in Threads : \/ EnterSingle(t) \/ ResetCurr(t) \/ PassSingle(t) \/ ClaimPlaces(t)
                             \/ CopyBin(t) \/ Overrun(t)
                             => kernel' = kernel /\ graph' = graph
    BY DEF EnterSingle, ResetCurr, PassSingle, ClaimPlaces, CopyBin, Overrun, Goes
  <2>4. /\ \A t \in Threads : \A i \in todo : TakeFrontier(t, i) => kernel' = kernel /\ graph' = graph
        /\ Barrier1 \/ Barrier2 => kernel' = kernel /\ graph' = graph
    BY DEF TakeFrontier, Barrier1, Barrier2
  <2> QED
    BY <2>1, <2>2, <2>3, <2>4 DEF SsspNext
<1>7. PrNext => kernel' = kernel /\ graph' = graph
  BY DEF PrNext, TakePull, Pull, StoreRank, Contribute, EndContribute, EndIteration, Goes
<1>8. UNCHANGED vars => kernel' = kernel /\ graph' = graph
  BY DEF vars, teamVars
<1> QED
  BY <1>1, <1>4, <1>5, <1>6, <1>7, <1>8 DEF Next

LEMMA KernelsApart ==
  Spec => \/ CcSpec /\ [](kernel \in {"cc", "cc_sv"})
          \/ BfsSpec /\ [](kernel = "bfs")
          \/ BcSpec /\ [](kernel = "bc")
          \/ SsspSpec /\ [](kernel = "sssp")
          \/ PrSpec /\ [](kernel \in {"pr", "pr_spmv"})
<1>1. /\ Init => CcInit \/ BfsInit \/ BcInit \/ SsspInit \/ PrInit
      /\ CcInit => kernel \in {"cc", "cc_sv"}
      /\ BfsInit => kernel = "bfs"
      /\ BcInit => kernel = "bc"
      /\ SsspInit => kernel = "sssp"
      /\ PrInit => kernel \in {"pr", "pr_spmv"}
  BY DEF Init, CcInit, BfsInit, BcInit, SsspInit, PrInit
<1>2. /\ kernel \in {"cc", "cc_sv"} /\ [Next]_vars => (kernel \in {"cc", "cc_sv"})'
      /\ kernel = "bfs" /\ [Next]_vars => (kernel = "bfs")'
      /\ kernel = "bc" /\ [Next]_vars => (kernel = "bc")'
      /\ kernel = "sssp" /\ [Next]_vars => (kernel = "sssp")'
      /\ kernel \in {"pr", "pr_spmv"} /\ [Next]_vars => (kernel \in {"pr", "pr_spmv"})'
  BY SameRun
<1>3. CcInit /\ [][Next]_vars => CcSpec /\ [](kernel \in {"cc", "cc_sv"})
  BY <1>1, <1>2, OneRuns, PTL DEF CcSpec
<1>4. BfsInit /\ [][Next]_vars => BfsSpec /\ [](kernel = "bfs")
  BY <1>1, <1>2, OneRuns, PTL DEF BfsSpec
<1>5. BcInit /\ [][Next]_vars => BcSpec /\ [](kernel = "bc")
  BY <1>1, <1>2, OneRuns, PTL DEF BcSpec
<1>6. SsspInit /\ [][Next]_vars => SsspSpec /\ [](kernel = "sssp")
  BY <1>1, <1>2, OneRuns, PTL DEF SsspSpec
<1>7. PrInit /\ [][Next]_vars => PrSpec /\ [](kernel \in {"pr", "pr_spmv"})
  BY <1>1, <1>2, OneRuns, PTL DEF PrSpec
<1> QED
  BY <1>1, <1>3, <1>4, <1>5, <1>6, <1>7, PTL DEF Spec

(* Types of the variables of whichever kernel runs.                        *)
THEOREM KernelTypesHold == Spec => []TypeOK
<1>1. /\ kernel \notin {"cc", "cc_sv"} => CcTypeOK
      /\ kernel # "bfs" => BfsTypeOK
      /\ kernel # "bc" => BcTypeOK
      /\ kernel # "sssp" => SsspTypeOK
      /\ kernel \notin {"pr", "pr_spmv"} => PrTypeOK
  BY DEF CcTypeOK, BfsTypeOK, BcTypeOK, SsspTypeOK, PrTypeOK
<1>2. /\ kernel \in {"cc", "cc_sv"} /\ CcTypeOK => TypeOK
      /\ kernel = "bfs" /\ BfsTypeOK => TypeOK
      /\ kernel = "bc" /\ BcTypeOK => TypeOK
      /\ kernel = "sssp" /\ SsspTypeOK => TypeOK
      /\ kernel \in {"pr", "pr_spmv"} /\ PrTypeOK => TypeOK
  BY <1>1 DEF TypeOK
<1> QED
  BY <1>2, KernelsApart, CcTypeCorrect, BfsTypesHold, BcTypesHold, SsspTypesHold, PrTypesHold, PTL

(* Whichever program runs and whatever its threads do, these answers pass  *)
(* their verifiers (benchmark.h:114-120): the components and the parents,  *)
(* the distances unless a copy ran past the frontier, and the scores that  *)
(* are returned because they changed by less than the tolerance, up to one *)
(* unit for each edge. Nothing is said of scores returned at max_iters.    *)
THEOREM KernelAnswersVerify == Spec => []AnswersVerify
<1>1. /\ kernel \notin {"cc", "cc_sv"} => LabelsComponents
      /\ kernel # "bfs" => BfsReachesAll
      /\ kernel # "sssp" => DistancesExact
      /\ kernel \notin {"pr", "pr_spmv"} => ToleranceVerifies
  BY DEF LabelsComponents, BfsReachesAll, DistancesExact, ToleranceVerifies
<1>2. /\ kernel \in {"cc", "cc_sv"} => kernel \notin {"pr", "pr_spmv"} /\ kernel # "bfs" /\ kernel # "sssp"
      /\ kernel = "bfs" => kernel \notin {"pr", "pr_spmv", "cc", "cc_sv"} /\ kernel # "sssp"
      /\ kernel = "bc" => kernel \notin {"pr", "pr_spmv", "cc", "cc_sv"} /\ kernel # "sssp" /\ kernel # "bfs"
      /\ kernel = "sssp" => kernel \notin {"pr", "pr_spmv", "cc", "cc_sv"} /\ kernel # "bfs"
      /\ kernel \in {"pr", "pr_spmv"} => kernel \notin {"cc", "cc_sv"} /\ kernel # "bfs" /\ kernel # "sssp"
  OBVIOUS
<1>3. /\ kernel \in {"cc", "cc_sv"} /\ LabelsComponents => AnswersVerify
      /\ kernel = "bfs" /\ BfsReachesAll => AnswersVerify
      /\ kernel = "bc" => AnswersVerify
      /\ kernel = "sssp" /\ DistancesExact => AnswersVerify
      /\ kernel \in {"pr", "pr_spmv"} /\ ToleranceVerifies => AnswersVerify
  BY <1>1, <1>2 DEF AnswersVerify
<1> QED
  BY <1>3, KernelsApart, ComponentsLabelled, SearchVerifies, DistancesCorrect, TolerancesVerify, PTL

(* Whichever program runs, it keeps what was shown of it: components'      *)
(* pointers stay within a component, the search's parents are one level up *)
(* and its queue holds one level, the shortest paths of betweenness        *)
(* centrality are counted exactly, a round of delta-stepping begins with   *)
(* every distance below its bin final, and with delta 1 its frontier holds *)
(* what is copied into it.                                                 *)
THEOREM KernelInvariantsHold ==
  Spec => [](PointsWithin /\ ParentsOneLevelUp /\ FrontierIsALevel /\ PathsCounted /\ BinsInOrder
            /\ FrontierSuffices)
<1>1. /\ kernel \notin {"cc", "cc_sv"} => PointsWithin
      /\ kernel # "bfs" => ParentsOneLevelUp /\ FrontierIsALevel
      /\ kernel # "bc" => PathsCounted
      /\ kernel # "sssp" => BinsInOrder /\ FrontierSuffices
  BY DEF PointsWithin, ParentsOneLevelUp, FrontierIsALevel, PathsCounted, BinsInOrder, FrontierSuffices
<1>2. /\ kernel \in {"cc", "cc_sv"} => kernel # "bfs" /\ kernel # "bc" /\ kernel # "sssp"
      /\ kernel = "bfs" => kernel \notin {"cc", "cc_sv"} /\ kernel # "bc" /\ kernel # "sssp"
      /\ kernel = "bc" => kernel \notin {"cc", "cc_sv"} /\ kernel # "bfs" /\ kernel # "sssp"
      /\ kernel = "sssp" => kernel \notin {"cc", "cc_sv"} /\ kernel # "bfs" /\ kernel # "bc"
      /\ kernel \in {"pr", "pr_spmv"} =>
           kernel \notin {"cc", "cc_sv"} /\ kernel # "bfs" /\ kernel # "bc" /\ kernel # "sssp"
  OBVIOUS
<1> DEFINE Invariants == PointsWithin /\ ParentsOneLevelUp /\ FrontierIsALevel /\ PathsCounted /\ BinsInOrder
                        /\ FrontierSuffices
<1>3. /\ kernel \in {"cc", "cc_sv"} /\ PointsWithin => Invariants
      /\ kernel = "bfs" /\ ParentsOneLevelUp /\ FrontierIsALevel => Invariants
      /\ kernel = "bc" /\ PathsCounted => Invariants
      /\ kernel = "sssp" /\ BinsInOrder /\ FrontierSuffices => Invariants
      /\ kernel \in {"pr", "pr_spmv"} => Invariants
  BY <1>1, <1>2
<1> HIDE DEF Invariants
<1>4. Invariants => PointsWithin /\ ParentsOneLevelUp /\ FrontierIsALevel /\ PathsCounted /\ BinsInOrder
                   /\ FrontierSuffices
  BY DEF Invariants
<1> QED
  BY <1>3, <1>4, KernelsApart, PointersWithin, ParentsCorrect, FrontierCorrect, PathsAreCounted, BinsHold,
     FrontierHolds, PTL

(* What is seen of a kernel other than Afforest in Merging does not move.  *)
LEMMA OthersKeepClasses ==
  /\ Init /\ kernel \notin {"cc", "cc_sv"} => Merged!Init
  /\ kernel \notin {"cc", "cc_sv"} /\ [Next]_vars => UNCHANGED Merged!mergingVars
<1>1. kernel # "cc" => Merged!Init
  BY DEF Merged!Init
<1>2. ASSUME kernel \notin {"cc", "cc_sv"}, [Next]_vars PROVE UNCHANGED Merged!mergingVars
  <2>1. kernel' = kernel /\ graph' = graph
    BY <1>2, SameRun
  <2>2. kernel # "cc" /\ kernel' # "cc"
    BY <1>2, <2>1
  <2>3. {e \in Node \X Node : Edge(graph, e[1], e[2])}' = {e \in Node \X Node : Edge(graph, e[1], e[2])}
    BY <2>1
  <2> QED
    BY <2>2, <2>3 DEF Merged!mergingVars
<1> QED
  BY <1>1, <1>2

(* All programs implement Merging: Afforest as AfforestUnites says, the    *)
(* others by leaving everything as it is.                                  *)
THEOREM KernelsUnite == Spec => UnitesTrees
<1> DEFINE Others == kernel \notin {"cc", "cc_sv"}
<1>1. Others /\ Init => Merged!Init
  BY OthersKeepClasses
<1>2. Others /\ [Next]_vars => [Merged!Next]_(Merged!mergingVars)
  BY OthersKeepClasses
<1>3. Others /\ [Next]_vars => Others'
  BY SameRun
<1>4. Init => Others \/ CcInit
  BY DEF Init, BfsInit, BcInit, SsspInit, PrInit
<1> HIDE DEF Others
<1>5. CcInit /\ [][Next]_vars => UnitesTrees
  <2>1. CcInit => kernel \in {"cc", "cc_sv"}
    BY DEF CcInit
  <2>2. kernel \in {"cc", "cc_sv"} /\ [Next]_vars => (kernel \in {"cc", "cc_sv"})'
    BY SameRun
  <2> QED
    BY <2>1, <2>2, OneRuns, AfforestUnites, PTL DEF CcSpec
<1>6. Init /\ Others /\ [][Next]_vars => UnitesTrees
  BY <1>1, <1>2, <1>3, PTL DEF UnitesTrees, Merged!Spec
<1> QED
  BY <1>4, <1>5, <1>6, PTL DEF Spec
=============================================================================
