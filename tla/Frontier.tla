------------------------------ MODULE Frontier ------------------------------
(***************************************************************************)
(* The shared containers of the traversal kernels: SlidingQueue with one   *)
(* QueueBuffer per thread (sliding_queue.h), and the words of a Bitmap     *)
(* (bitmap.h). Vertices are claimed by a compare-and-swap elsewhere; here  *)
(* is how they get from a thread's buffer into the next window.            *)
(***************************************************************************)
EXTENDS GapKernel, Integers

CONSTANTS BufferSize,  \* given_size of QueueBuffer
          WordBits     \* kBitsPerWord

ASSUME FrontierAssumption == BufferSize \in Nat \ {0} /\ WordBits \in Nat \ {0}

VARIABLES queue,  \* shared[], shared_in, shared_out_start, shared_out_end
          buffer  \* local_queue of each thread

queueVars == <<queue, buffer>>

Unset == N  \* an element of shared[] nothing was written to

EmptyQueue == [shared |-> [i \in 0 .. N - 1 |-> Unset], in |-> 0, start |-> 0, end |-> 0]

PushBack(q, n) == [q EXCEPT !.shared[q.in] = n, !.in = @ + 1]
Slide(q) == [q EXCEPT !.start = q.end, !.end = q.in]
QueueEmpty(q) == q.start = q.end
Window(q) == q.start .. q.end - 1
InWindow(q) == {q.shared[i] : i \in Window(q)}

(* QueueBuffer::push_back(v) by thread t, which then goes on as next says: *)
(* a full buffer is flushed first, and takes v after that.                 *)
BufferPush(t, v, next) ==
  IF Len(buffer[t]) = BufferSize
  THEN /\ Goes(t, [at |-> "reserve", held |-> <<v>>, next |-> next])
       /\ UNCHANGED buffer
  ELSE /\ buffer' = [buffer EXCEPT ![t] = Append(@, v)]
       /\ Goes(t, next)

(* QueueBuffer::flush: fetch_and_add on shared_in, then the copy into the  *)
(* places that are now this thread's.                                      *)
Joined == [at |-> "joined"]

Reserve(t) ==
  /\ thread[t].at = "reserve"
  /\ queue' = [queue EXCEPT !.in = @ + Len(buffer[t])]
  /\ Goes(t, [at |-> "copy", held |-> thread[t].held, next |-> thread[t].next,
              base |-> queue.in])
  /\ UNCHANGED buffer

CopyOut(t) ==
  LET base == thread[t].base
      mine == base .. base + Len(buffer[t]) - 1
  IN  /\ thread[t].at = "copy"
      /\ queue' = [queue EXCEPT !.shared =
                     [i \in 0 .. N - 1 |-> IF i \in mine THEN buffer[t][i - base + 1] ELSE @[i]]]
      /\ buffer' = [buffer EXCEPT ![t] = thread[t].held]
      /\ Goes(t, thread[t].next)

(* The loops that fill a queue end with nowait: a thread that finds no     *)
(* iteration left flushes while others still work, and joins the barrier.  *)
LastFlush(t) ==
  /\ todo = {} /\ thread[t] = Idle
  /\ Goes(t, [at |-> "reserve", held |-> <<>>, next |-> Joined])
  /\ UNCHANGED queueVars

Flush(t) == Reserve(t) \/ CopyOut(t) \/ LastFlush(t)

AllJoined == \A t \in Threads : thread[t] = Joined

(* The bits that share a word with bit n.                                  *)
Word(n) == {m \in n - WordBits .. n + WordBits : m >= 0 /\ m \div WordBits = n \div WordBits}

-----------------------------------------------------------------------------
(* Distance from the source: the vertices within k steps of it.            *)
Within(source) ==
  LET W[k \in 0 .. N] ==
        IF k = 0 THEN {source}
        ELSE W[k - 1] \cup UNION {Elems(graph.out[u]) : u \in W[k - 1]}
  IN  W

Reached(source) == Within(source)[N]

Depth(source) ==
  LET W == Within(source)
  IN  [v \in W[N] |-> CHOOSE k \in 0 .. N : v \in W[k] /\ (k > 0 => v \notin W[k - 1])]
=============================================================================
