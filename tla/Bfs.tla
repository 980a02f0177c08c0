-------------------------------- MODULE Bfs ---------------------------------
(***************************************************************************)
(* Direction-optimizing breadth-first search (bfs.cc). A level is expanded *)
(* top-down from the queue (TDStep), each thread claiming vertices with a  *)
(* compare-and-swap on parent, or bottom-up from a bitmap (BUStep), each   *)
(* unvisited vertex looking for a parent in front.                         *)
(***************************************************************************)
EXTENDS Frontier

CONSTANTS Alphas, Beta,  \* values of alpha and the value of beta: when to go
                         \* bottom-up, and when to return
          ChunkSize      \* of schedule(dynamic, 1024) in BUStep

(* Chunks are whole words, as 1024 is a multiple of 64: set_bit in BUStep  *)
(* is not atomic.                                                          *)
ASSUME BfsAssumption ==
  /\ Alphas \subseteq Nat \ {0} /\ Beta \in Nat \ {0} /\ ChunkSize \in Nat \ {0}
  /\ ChunkSize % WordBits = 0

VARIABLES source, alpha, parent,
          front, curr,    \* the bits set in the two bitmaps
          scout, edges,   \* scout_count, edges_to_check
          awake, oldAwake \* awake_count, old_awake_count

bfsVars == <<teamVars, queueVars, source, alpha, parent, front, curr, scout, edges, awake, oldAwake>>
searchVars == <<source, alpha, parent, front, curr, scout, edges, awake, oldAwake>>

(* C++ division, which rounds toward zero.                                 *)
Quotient(a, b) == IF a >= 0 THEN a \div b ELSE -((-a) \div b)

EdgeCount == LET S[n \in 0 .. N] == IF n = 0 THEN 0 ELSE S[n - 1] + Len(graph.out[n - 1])
             IN  S[N]

(* InitParent, and parent[source] = source: an unvisited vertex holds its  *)
(* negated degree.                                                         *)
InitialParent(s) ==
  [n \in Node |-> IF n = s THEN s
                  ELSE IF graph.out[n] # <<>> THEN -Len(graph.out[n]) ELSE -1]

Visited == {n \in Node : parent[n] >= 0}

-----------------------------------------------------------------------------
(* TDStep.                                                                 *)
Expanding(at, u, rest, val) == [at |-> at, u |-> u, rest |-> rest, val |-> val]
NextOut(u, rest) == IF rest = <<>> THEN Idle ELSE Expanding("readParent", u, rest, 0)

TakeExpand(t, i) ==
  /\ step = "td"
  /\ Take(t, i, NextOut(queue.shared[i], graph.out[queue.shared[i]]))
  /\ UNCHANGED <<kernel, graph, step, queueVars, searchVars>>

ReadParent(t) ==
  LET th == thread[t]
      val == parent[Head(th.rest)]
  IN  /\ th.at = "readParent"
      /\ Goes(t, IF val < 0 THEN Expanding("claim", th.u, th.rest, val)
                 ELSE NextOut(th.u, Tail(th.rest)))
      /\ UNCHANGED <<queueVars, searchVars>>

Claim(t) ==
  LET th == thread[t]
      v == Head(th.rest)
      next == NextOut(th.u, Tail(th.rest))
  IN  /\ th.at = "claim"
      /\ IF parent[v] = th.val
         THEN /\ parent' = [parent EXCEPT ![v] = th.u]
              /\ scout' = scout - th.val
              /\ BufferPush(t, v, next)
         ELSE Goes(t, next) /\ UNCHANGED <<parent, scout, buffer>>
      /\ UNCHANGED <<queue, source, alpha, front, curr, edges, awake, oldAwake>>

TDStep(t) == (\E i \in todo : TakeExpand(t, i)) \/ ReadParent(t) \/ Claim(t)

-----------------------------------------------------------------------------
(* QueueToBitmap with set_bit_atomic: read the word, swap it in if nobody  *)
(* changed it, else again.                                                 *)
Setting(at, u, word) == [at |-> at, u |-> u, word |-> word]

TakeToBitmap(t, i) ==
  /\ step = "toBitmap"
  /\ Take(t, i, Setting("readWord", queue.shared[i], {}))
  /\ UNCHANGED <<kernel, graph, step, queueVars, searchVars>>

ReadWord(t) ==
  /\ thread[t].at = "readWord"
  /\ Goes(t, Setting("swapWord", thread[t].u, front \cap Word(thread[t].u)))
  /\ UNCHANGED <<queueVars, searchVars>>

(* Mutated form: set_bit in place of set_bit_atomic.                       *)
StoreWord(t) ==
  LET th == thread[t]
  IN  /\ th.at = "swapWord"
      /\ front' = (front \ Word(th.u)) \cup th.word \cup {th.u}
      /\ Goes(t, Idle)
      /\ UNCHANGED <<queueVars, source, alpha, parent, curr, scout, edges, awake, oldAwake>>

SwapWord(t) ==
  LET th == thread[t]
  IN  /\ th.at = "swapWord"
      /\ IF front \cap Word(th.u) = th.word
         THEN front' = front \cup {th.u} /\ Goes(t, Idle)
         ELSE UNCHANGED front /\ Goes(t, Setting("readWord", th.u, {}))
      /\ UNCHANGED <<queueVars, source, alpha, parent, curr, scout, edges, awake, oldAwake>>

QueueToBitmap(t) == (\E i \in todo : TakeToBitmap(t, i)) \/ ReadWord(t) \/ SwapWord(t)

-----------------------------------------------------------------------------
(* BUStep. A thread takes a chunk of vertices; next is the bitmap curr.    *)
Chunks == {c \in Node : c * ChunkSize < N}
Chunk(c) == {u \in Node : u \div ChunkSize = c}
FirstOf(S) == CHOOSE u \in S : \A w \in S : u <= w
NextUp(S) == IF S = {} THEN Idle ELSE [at |-> "look", left |-> S]

TakeChunk(t, c) ==
  /\ step = "bu"
  /\ Take(t, c, NextUp(Chunk(c)))
  /\ UNCHANGED <<kernel, graph, step, queueVars, searchVars>>

(* Mutated form: vertices that have a parent look for one too.             *)
LookAgain(t) ==
  LET u == FirstOf(thread[t].left)
      s == graph.in[u]
      hits == {i \in DOMAIN s : s[i] \in front}
  IN  /\ thread[t].at = "look"
      /\ parent' = IF hits # {} THEN [parent EXCEPT ![u] = s[FirstOf(hits)]] ELSE parent
      /\ awake' = IF hits # {} THEN awake + 1 ELSE awake
      /\ Goes(t, IF hits # {} THEN [at |-> "readNext", left |-> thread[t].left]
                 ELSE NextUp(thread[t].left \ {u}))
      /\ UNCHANGED <<queueVars, source, alpha, front, curr, scout, edges, oldAwake>>

(* The first in-neighbour whose bit is set in front becomes the parent.    *)
Look(t) ==
  LET u == FirstOf(thread[t].left)
      s == graph.in[u]
      hits == {i \in DOMAIN s : s[i] \in front}
      found == parent[u] < 0 /\ hits # {}
  IN  /\ thread[t].at = "look"
      /\ parent' = IF found THEN [parent EXCEPT ![u] = s[FirstOf(hits)]] ELSE parent
      /\ awake' = IF found THEN awake + 1 ELSE awake
      /\ Goes(t, IF found THEN [at |-> "readNext", left |-> thread[t].left]
                 ELSE NextUp(thread[t].left \ {u}))
      /\ UNCHANGED <<queueVars, source, alpha, front, curr, scout, edges, oldAwake>>

(* next.set_bit(u): a plain read and a plain write of the word.            *)
ReadNext(t) ==
  LET left == thread[t].left
  IN  /\ thread[t].at = "readNext"
      /\ Goes(t, [at |-> "writeNext", left |-> left, word |-> curr \cap Word(FirstOf(left))])
      /\ UNCHANGED <<queueVars, searchVars>>

WriteNext(t) ==
  LET u == FirstOf(thread[t].left)
  IN  /\ thread[t].at = "writeNext"
      /\ curr' = (curr \ Word(u)) \cup thread[t].word \cup {u}
      /\ Goes(t, NextUp(thread[t].left \ {u}))
      /\ UNCHANGED <<queueVars, source, alpha, parent, front, scout, edges, awake, oldAwake>>

BUStep(t) == (\E c \in todo : TakeChunk(t, c)) \/ Look(t) \/ ReadNext(t) \/ WriteNext(t)

-----------------------------------------------------------------------------
(* BitmapToQueue.                                                          *)
TakeToQueue(t, n) ==
  /\ step = "toQueue"
  /\ Take(t, n, IF n \in front THEN [at |-> "push", u |-> n] ELSE Idle)
  /\ UNCHANGED <<kernel, graph, step, queueVars, searchVars>>

PushBit(t) ==
  /\ thread[t].at = "push"
  /\ BufferPush(t, thread[t].u, Idle)
  /\ UNCHANGED <<queue, searchVars>>

BitmapToQueue(t) == (\E n \in todo : TakeToQueue(t, n)) \/ PushBit(t)

-----------------------------------------------------------------------------
(* DOBFS: the loop, and what follows each parallel region.                 *)
GoBottomUp ==
  /\ step = "loop" /\ ~QueueEmpty(queue)
  /\ scout > Quotient(edges, alpha)
  /\ BeginLoop("toBitmap", Window(queue))
  /\ UNCHANGED <<kernel, graph, queueVars, searchVars>>

GoTopDown ==
  /\ step = "loop" /\ ~QueueEmpty(queue)
  /\ ~(scout > Quotient(edges, alpha))
  /\ edges' = edges - scout
  /\ scout' = 0
  /\ BeginLoop("td", Window(queue))
  /\ UNCHANGED <<kernel, graph, queueVars, source, alpha, parent, front, curr, awake, oldAwake>>

(* Unreached vertices get parent -1.                                       *)
Return ==
  /\ step = "loop" /\ QueueEmpty(queue)
  /\ parent' = [n \in Node |-> IF parent[n] < -1 THEN -1 ELSE parent[n]]
  /\ BeginLoop("done", {})
  /\ UNCHANGED <<kernel, graph, queueVars, source, alpha, front, curr, scout, edges, awake, oldAwake>>

EndTopDown ==
  /\ step = "td" /\ AllJoined
  /\ queue' = Slide(queue)
  /\ BeginLoop("loop", {})
  /\ UNCHANGED <<kernel, graph, buffer, searchVars>>

(* The start of a bottom-up step, which clears the bitmap it fills.        *)
BeginBottomUp(count) ==
  /\ oldAwake' = count
  /\ awake' = 0
  /\ BeginLoop("bu", Chunks)

EndToBitmap ==
  /\ step = "toBitmap" /\ TeamDone
  /\ queue' = Slide(queue)
  /\ curr' = {}
  /\ BeginBottomUp(queue.end - queue.start)
  /\ UNCHANGED <<kernel, graph, buffer, source, alpha, parent, front, scout, edges>>

(* front.swap(curr), and the test of the do loop.                          *)
EndBottomUp ==
  /\ step = "bu" /\ TeamDone
  /\ front' = curr
  /\ IF awake >= oldAwake \/ awake > N \div Beta
     THEN curr' = {} /\ BeginBottomUp(awake)
     ELSE curr' = front /\ BeginLoop("toQueue", Node) /\ UNCHANGED <<awake, oldAwake>>
  /\ UNCHANGED <<kernel, graph, queueVars, source, alpha, parent, scout, edges>>

EndToQueue ==
  /\ step = "toQueue" /\ AllJoined
  /\ queue' = Slide(queue)
  /\ scout' = 1
  /\ BeginLoop("loop", {})
  /\ UNCHANGED <<kernel, graph, buffer, source, alpha, parent, front, curr, edges, awake, oldAwake>>

BfsInit ==
  /\ kernel = "bfs"
  /\ graph \in Graphs
  /\ source \in {n \in Node : graph.out[n] # <<>>}  \* SourcePicker
  /\ alpha \in Alphas
  /\ step = "loop" /\ todo = {}
  /\ thread = [t \in Threads |-> Idle]
  /\ queue = Slide(PushBack(EmptyQueue, source))
  /\ buffer = [t \in Threads |-> <<>>]
  /\ parent = InitialParent(source)
  /\ front = {} /\ curr = {}
  /\ scout = Len(graph.out[source]) /\ edges = EdgeCount
  /\ awake = 0 /\ oldAwake = 0

BfsNext ==
  /\ kernel = "bfs"
  /\ \/ \E t \in Threads : \/ TDStep(t) \/ QueueToBitmap(t) \/ BUStep(t) \/ BitmapToQueue(t)
                           \/ step \in {"td", "toQueue"} /\ Flush(t) /\ UNCHANGED searchVars
     \/ GoBottomUp \/ GoTopDown \/ Return
     \/ EndTopDown \/ EndToBitmap \/ EndBottomUp \/ EndToQueue

BfsSpec == BfsInit /\ [][BfsNext]_bfsVars

BfsFairSpec == BfsSpec /\ WF_bfsVars(BfsNext)

-----------------------------------------------------------------------------
(* Types of the variables of the search.                                   *)
BfsTypeOK ==
  kernel = "bfs" =>
    /\ graph \in Graphs /\ source \in Node /\ alpha \in Alphas
    /\ step \in {"loop", "td", "toBitmap", "bu", "toQueue", "done"}
    /\ todo \subseteq Node /\ DOMAIN thread = Threads
    /\ queue.shared \in [0 .. N - 1 -> 0 .. N]
    /\ buffer \in [Threads -> Seq(Node)]
    /\ parent \in [Node -> Int]
    /\ front \subseteq Node /\ curr \subseteq Node
    /\ {scout, edges, awake, oldAwake} \subseteq Int

(* Every parent is the source of an edge to its child and exactly one      *)
(* level above it, at every moment. In particular a search that returns to *)
(* the bottom-up direction may find in front the bits of an earlier        *)
(* bottom-up phase, which nothing clears (bfs.cc:139-151): it must never   *)
(* pick one of those as a parent.                                          *)
ParentsOneLevelUp ==
  kernel = "bfs" =>
    LET depth == Depth(source)
    IN  \A v \in Visited \ {source} :
          /\ v \in DOMAIN depth
          /\ parent[v] \in Elems(graph.in[v])
          /\ depth[parent[v]] + 1 = depth[v]

(* Between two levels the window of the queue holds the vertices of one    *)
(* level, each once, and exactly the levels up to it are visited: no       *)
(* vertex gets lost between buffers, bitmap words and the queue, and none  *)
(* enters it twice, so the queue never grows beyond its num_nodes places.  *)
FrontierIsALevel ==
  kernel = "bfs" /\ step = "loop" =>
    LET W == Within(source)
    IN  /\ queue.in <= N
        /\ Cardinality(InWindow(queue)) = queue.end - queue.start
        /\ \/ QueueEmpty(queue) /\ Visited = W[N]
           \/ \E k \in 0 .. N : /\ Visited = W[k]
                                /\ InWindow(queue) = IF k = 0 THEN {source} ELSE W[k] \ W[k - 1]

(* BFSVerifier: a serial search, and what is asked of each vertex's parent. *)
BFSVerifier ==
  LET depth == Depth(source)
      DepthOf(v) == IF v \in DOMAIN depth THEN depth[v] ELSE -1
  IN  \A u \in Node :
        IF DepthOf(u) # -1 /\ parent[u] # -1
        THEN IF u = source THEN parent[u] = u /\ depth[u] = 0
             ELSE parent[u] \in Elems(graph.in[u]) /\ DepthOf(parent[u]) = depth[u] - 1
        ELSE DepthOf(u) = parent[u]

(* The answer passes BFSVerifier (bfs.cc:201-247) whatever the schedule    *)
(* was: a parent one level up for the vertices that can be reached, and -1 *)
(* for exactly the others.                                                 *)
BfsReachesAll == kernel = "bfs" /\ step = "done" => BFSVerifier

(* The search ends, although it may go back and forth between directions.  *)
BfsTerminates == kernel = "bfs" ~> step = "done"
=============================================================================
