--------------------------- MODULE SamplerProofs ----------------------------
(***************************************************************************)
(* Proofs about Sampler for any number of CPUs, pages and map elements:    *)
(* a drain reports every workload page it found in the map, leaves nothing *)
(* behind that was there when it began, no sample is counted twice, and    *)
(* the BPF_NOEXIST race costs at most one sample of each other CPU.        *)
(***************************************************************************)
EXTENDS Sampler, FiniteSums

-----------------------------------------------------------------------------
(* Entries and handlers *)

\* A page that is in the map is found in the element that holds it.
LEMMA ElementOfPresent ==
    ASSUME NEW p \in Present
    PROVE  ElementOf(p) \in Element /\ entry[ElementOf(p)] = p
BY DEF Present, ElementOf

\* Handlers that race for a page are CPUs, so they can be counted.
LEMMA MissedBounds ==
    ASSUME NEW S, S \subseteq CPU
    PROVE  /\ IsFiniteSet(S)
           /\ Cardinality(S) \in Nat
           /\ Cardinality(CPU) \in Nat \ {0}
           /\ Cardinality(S) <= Cardinality(CPU)
<1>1. IsFiniteSet(CPU) /\ CPU # {}
  BY SamplerAssumption
<1>2. IsFiniteSet(S) /\ Cardinality(S) <= Cardinality(CPU)
  BY <1>1, FS_Subset
<1>3. Cardinality(S) \in Nat /\ Cardinality(CPU) \in Nat
  BY <1>1, <1>2, FS_CardinalityType
<1>4. Cardinality(CPU) # 0
  BY <1>1, FS_EmptySet
<1> QED
  BY <1>2, <1>3, <1>4

\* A handler that is done no longer races, and the others still do.
LEMMA MissedWithout ==
    ASSUME NEW S, S \subseteq CPU, NEW c \in S
    PROVE  /\ Cardinality(S \ {c}) = Cardinality(S) - 1
           /\ Cardinality(S) \in Nat \ {0}
<1>1. IsFiniteSet(S) /\ Cardinality(S) \in Nat
  BY MissedBounds
<1>2. Cardinality(S \ {c}) = Cardinality(S) - 1
  BY <1>1, FS_RemoveElement
<1>3. Cardinality(S \ {c}) \in Nat
  BY MissedBounds
<1> QED
  BY <1>1, <1>2, <1>3

-----------------------------------------------------------------------------
(* The inductive invariant *)

\* The invariant holds of an empty map and an idle drain.
LEMMA InvInit == Init => IInv
<1> SUFFICES ASSUME Init PROVE IInv
  OBVIOUS
<1> USE DEF Init
<1>1. MapType /\ DrainType /\ Present = {}
  BY SamplerAssumption DEF MapType, DrainType, Present
<1>2. HandlerType
  BY DEF HandlerType, Idle
<1>3. RaceLossBound /\ RacersBound
  BY <1>1, MissedBounds DEF RaceLossBound, RacersBound
<1>4. DrainProgress
  BY <1>1 DEF DrainProgress, Pending
<1> QED
  BY <1>1, <1>2, <1>3, <1>4 DEF IInv

\* A step that leaves the map and the handlers alone leaves their part of the
\* invariant alone.
LEMMA MapUnchanged ==
    ASSUME IInv, UNCHANGED <<entry, count, handler, losers>>
    PROVE  /\ MapType' /\ HandlerType' /\ RaceLossBound' /\ RacersBound'
           /\ Present' = Present
           /\ \A e \in Element : entry'[e] # Free => Counted(e)'
<1>1. Present' = Present
  BY DEF Present
<1>2. \A p \in Page : Missed(p)' = Missed(p)
  BY DEF Missed
<1>3. Present \subseteq Page
  BY DEF Present
<1>4. RacersBound'
  BY <1>1, <1>2, <1>3 DEF IInv, RacersBound
<1>5. \A e \in Element : entry'[e] # Free => Counted(e)'
  BY DEF IInv, DrainProgress, Counted
<1> QED
  BY <1>1, <1>4, <1>5 DEF IInv, MapType, HandlerType, RaceLossBound

\* A step that leaves the drain alone leaves its types alone.
LEMMA DrainUnchanged ==
    ASSUME IInv, UNCHANGED <<drainVars, inserted>>
    PROVE  DrainType' /\ Pending' = Pending
BY DEF IInv, DrainType, Pending, drainVars

-----------------------------------------------------------------------------
(* sample_mem *)

\* A handler that found an entry is no racer; one that missed it races for a
\* page that is not in the map, and so against no insertion yet.
LEMMA LookupStep ==
    ASSUME IInv, NEW c \in CPU, NEW p \in Page, Lookup(c, p)
    PROVE  IInv'
<1>1. /\ handler[c] = Idle
      /\ UNCHANGED <<entry, count, drainVars, inserted, losers>>
  BY DEF Lookup, mapVars
<1>2. \/ /\ p \in Present
         /\ handler' = [handler EXCEPT ![c] =
                            [step |-> "found", page |-> p, elem |-> ElementOf(p)]]
      \/ /\ p \notin Present
         /\ handler' = [handler EXCEPT ![c] =
                            [step |-> "missed", page |-> p, elem |-> Free]]
  BY DEF Lookup
<1>3. MapType' /\ DrainType' /\ Present' = Present /\ Pending' = Pending
  BY <1>1, DrainUnchanged DEF IInv, MapType, Present
<1>4. HandlerType'
  BY <1>1, <1>2, ElementOfPresent DEF IInv, HandlerType
<1>5. \A q \in Present : Missed(q)' = Missed(q)
  BY <1>1, <1>2 DEF IInv, HandlerType, Missed, Idle
<1>6. RaceLossBound' /\ RacersBound'
  BY <1>1, <1>3, <1>5 DEF IInv, RaceLossBound, RacersBound
<1>7. DrainProgress'
  BY <1>1, <1>3 DEF IInv, DrainProgress, drainVars, Counted
<1> QED
  BY <1>3, <1>4, <1>6, <1>7 DEF IInv

\* Counting into an element, whichever page it holds by now, empties no entry.
LEMMA AddStep ==
    ASSUME IInv, NEW c \in CPU, Add(c)
    PROVE  IInv'
<1>1. PICK e \in Element :
         /\ handler[c].step = "found"
         /\ handler' = [handler EXCEPT ![c] = Idle]
         /\ UNCHANGED <<entry, drainVars, inserted, losers>>
         /\ count' = count \/ count' = [count EXCEPT ![e][c] = @ + 1]
  BY DEF IInv, HandlerType, Add
<1>2. count \in [Element -> [CPU -> Nat]]
  BY DEF IInv, MapType
<1>3. count' \in [Element -> [CPU -> Nat]]
  <2>1. [count EXCEPT ![e][c] = @ + 1] \in [Element -> [CPU -> Nat]]
    BY <1>2
  <2> QED
    BY <1>1, <1>2, <2>1
<1>4. MapType' /\ DrainType' /\ Present' = Present /\ Pending' = Pending
  BY <1>1, <1>3, DrainUnchanged DEF IInv, MapType, Present
<1>5. HandlerType'
  BY <1>1 DEF IInv, HandlerType, Idle
<1>6. \A q \in Page : Missed(q)' = Missed(q)
  BY <1>1 DEF IInv, HandlerType, Missed, Idle
<1>7. RaceLossBound' /\ RacersBound'
  BY <1>1, <1>4, <1>6 DEF IInv, RaceLossBound, RacersBound, Present
<1>8. \A f \in Element : Counted(f) => Counted(f)'
  <2> SUFFICES ASSUME NEW f \in Element, NEW d \in CPU, count[f][d] > 0
               PROVE  count'[f][d] > 0
    BY DEF Counted
  <2> QED
    BY <1>1, <1>2
<1>9. DrainProgress'
  BY <1>1, <1>4, <1>8 DEF IInv, DrainProgress, drainVars
<1> QED
  BY <1>4, <1>5, <1>7, <1>9 DEF IInv

\* The insertion that succeeds starts a race among the other CPUs; one that
\* fails has been one of them.
LEMMA InsertStep ==
    ASSUME IInv, NEW c \in CPU, Insert(c)
    PROVE  IInv'
<1>0. PICK p \in Page : p = handler[c].page
  BY DEF IInv, HandlerType, Insert
<1>1. /\ handler[c].step = "missed"
      /\ handler' = [handler EXCEPT ![c] = Idle]
      /\ UNCHANGED <<pc, keys, key, page_samples, due>>
  BY DEF Insert
<1>2. p \in Page /\ c \in Missed(p)
  BY <1>0, <1>1 DEF IInv, HandlerType, Missed
<1>3. \A q \in Page : Missed(q)' = Missed(q) \ {c}
  BY <1>1 DEF IInv, HandlerType, Missed, Idle
<1>4. \A q \in Page : /\ Missed(q) \subseteq CPU
                      /\ Cardinality(Missed(q)') \in Nat
                      /\ Cardinality(Missed(q)') <= Cardinality(Missed(q))
                      /\ Cardinality(Missed(q)) \in Nat
                      /\ Cardinality(CPU) \in Nat \ {0}
  <2> SUFFICES ASSUME NEW q \in Page
               PROVE  /\ Missed(q) \subseteq CPU
                      /\ Cardinality(Missed(q)') \in Nat
                      /\ Cardinality(Missed(q)') <= Cardinality(Missed(q))
                      /\ Cardinality(Missed(q)) \in Nat
                      /\ Cardinality(CPU) \in Nat \ {0}
    OBVIOUS
  <2>1. Missed(q) \subseteq CPU
    BY DEF Missed
  <2>2. IsFiniteSet(Missed(q)) /\ Cardinality(Missed(q)) \in Nat
    BY <2>1, MissedBounds
  <2>3. /\ Missed(q) \ {c} \subseteq Missed(q)
        /\ Missed(q) \ {c} \subseteq CPU
    BY <2>1
  <2>4. /\ Cardinality(Missed(q) \ {c}) \in Nat
        /\ Cardinality(CPU) \in Nat \ {0}
    BY <2>3, MissedBounds
  <2>5. Cardinality(Missed(q) \ {c}) <= Cardinality(Missed(q))
    BY <2>2, <2>3, FS_Subset
  <2> QED
    BY <1>3, <2>1, <2>2, <2>4, <2>5
<1>5. handler' \in [CPU -> [step : {"idle", "found", "missed"},
                            page : Page \cup {NoKey},
                            elem : Element \cup {Free}]]
  BY <1>1 DEF IInv, HandlerType, Idle
<1>6. \A d \in CPU : /\ handler'[d].step = "missed" => handler'[d].page \in Page
                     /\ handler'[d].step = "found" => handler'[d].elem \in Element
  BY <1>1 DEF IInv, HandlerType, Idle
<1>7. losers \in [Page -> Nat]
  BY DEF IInv, HandlerType
<1>8. CASE /\ p \notin Present
           /\ \E e \in Element :
                 /\ entry[e] = Free
                 /\ entry' = [entry EXCEPT ![e] = p]
                 /\ count' = [count EXCEPT ![e] = [d \in CPU |-> IF d = c THEN 1 ELSE 0]]
           /\ ahead' \in IF pc = "collect" THEN {ahead, ahead \cup {p}} ELSE {ahead}
           /\ inserted' = inserted \cup {p}
           /\ losers' = [losers EXCEPT ![p] = 0]
  <2>1. PICK e \in Element :
                 /\ entry[e] = Free
                 /\ entry' = [entry EXCEPT ![e] = p]
                 /\ count' = [count EXCEPT ![e] = [d \in CPU |-> IF d = c THEN 1 ELSE 0]]
    BY <1>8
  <2>2. entry \in [Element -> Page \cup {Free}] /\ count \in [Element -> [CPU -> Nat]]
    BY DEF IInv, MapType
  <2>3. Present' = Present \cup {p}
    BY <1>2, <2>1, <2>2, SamplerAssumption DEF Present
  <2>4. MapType'
    <3>1. entry' \in [Element -> Page \cup {Free}]
      BY <1>2, <2>1, <2>2
    <3>2. count' \in [Element -> [CPU -> Nat]]
      BY <2>1, <2>2
    <3>3. \A g \in Element : entry[g] # p
      BY <1>2, <1>8 DEF Present
    <3>4. \A g, h \in Element : entry'[g] = entry'[h] /\ entry'[g] # Free => g = h
      BY <2>1, <2>2, <3>3 DEF IInv, MapType
    <3> QED
      BY <3>1, <3>2, <3>4 DEF MapType
  <2>5. DrainType'
    BY <1>1, <1>2, <1>8 DEF IInv, DrainType
  <2>6. HandlerType'
    BY <1>2, <1>5, <1>6, <1>7, <1>8 DEF HandlerType
  <2>7. RaceLossBound'
    BY <1>2, <1>4, <1>7, <1>8 DEF IInv, RaceLossBound
  <2>8. RacersBound'
    <3> SUFFICES ASSUME NEW q \in Present'
                 PROVE  losers'[q] + Cardinality(Missed(q)') < Cardinality(CPU)
      BY DEF RacersBound
    <3>1. q \in Page
      BY DEF Present
    <3>2. CASE q = p
      <4>1. Cardinality(Missed(p)') <= Cardinality(CPU \ {c})
        <5>1. Missed(p)' \subseteq CPU \ {c}
          BY <1>2, <1>3, <1>4
        <5>2. IsFiniteSet(CPU \ {c})
          BY MissedBounds
        <5> QED
          BY <5>1, <5>2, FS_Subset
      <4>2. Cardinality(CPU \ {c}) = Cardinality(CPU) - 1
        BY MissedWithout
      <4>3. losers'[q] = 0
        BY <1>2, <1>7, <1>8, <3>2
      <4> QED
        BY <1>4, <3>1, <3>2, <4>1, <4>2, <4>3
    <3>3. CASE q # p
      <4>1. q \in Present /\ losers'[q] = losers[q]
        BY <1>2, <1>7, <1>8, <2>3, <3>1, <3>3
      <4>2. losers[q] + Cardinality(Missed(q)) < Cardinality(CPU)
        BY <4>1 DEF IInv, RacersBound
      <4> QED
        BY <1>4, <1>7, <3>1, <4>1, <4>2
    <3> QED
      BY <3>2, <3>3
  <2>9. DrainProgress'
    <3>1. \A f \in Element : entry'[f] # Free => Counted(f)'
      <4> SUFFICES ASSUME NEW f \in Element, entry'[f] # Free
                   PROVE  \E d \in CPU : count'[f][d] > 0
        BY DEF Counted
      <4>1. CASE f = e
        BY <2>1, <2>2, <4>1
      <4>2. CASE f # e
        BY <2>1, <2>2, <4>2 DEF IInv, DrainProgress, Counted
      <4> QED
        BY <4>1, <4>2
    <3>2. /\ Pending' \subseteq Pending \cup {p}
          /\ Pending \subseteq Pending'
      BY <1>1, <1>8 DEF Pending
    <3>3. /\ Pending' \subseteq Present'
          /\ Present' \subseteq Pending' \cup inserted'
      BY <1>8, <2>3, <3>2 DEF IInv, DrainProgress
    <3> QED
      BY <1>1, <1>8, <3>1, <3>3 DEF IInv, DrainProgress
  <2> QED
    BY <2>4, <2>5, <2>6, <2>7, <2>8, <2>9 DEF IInv
<1>9. CASE /\ p \in Present
           /\ losers' = [losers EXCEPT ![p] = @ + 1]
           /\ UNCHANGED <<mapVars, ahead, inserted>>
  <2>1. MapType' /\ DrainType' /\ Present' = Present /\ Pending' = Pending
    BY <1>1, <1>9, DrainUnchanged DEF IInv, MapType, DrainType, Present, Pending, mapVars
  <2>2. HandlerType'
    BY <1>2, <1>5, <1>6, <1>7, <1>9 DEF HandlerType
  <2>3. /\ Cardinality(Missed(p)') = Cardinality(Missed(p)) - 1
        /\ Cardinality(Missed(p)) \in Nat \ {0}
    BY <1>2, <1>3, <1>4, MissedWithout
  <2>4. losers[p] + Cardinality(Missed(p)) < Cardinality(CPU)
    BY <1>9 DEF IInv, RacersBound
  <2>5. losers'[p] < Cardinality(CPU) /\ losers'[p] + Cardinality(Missed(p)') < Cardinality(CPU)
    BY <1>2, <1>4, <1>7, <1>9, <2>3, <2>4
  <2>6. \A q \in Page \ {p} : losers'[q] = losers[q]
    BY <1>7, <1>9
  <2>7. RaceLossBound'
    BY <2>5, <2>6 DEF IInv, RaceLossBound
  <2>8. RacersBound'
    <3> SUFFICES ASSUME NEW q \in Present, q # p
                 PROVE  losers'[q] + Cardinality(Missed(q)') < Cardinality(CPU)
      BY <2>1, <2>5 DEF RacersBound
    <3>1. q \in Page
      BY DEF Present
    <3>2. losers[q] + Cardinality(Missed(q)) < Cardinality(CPU)
      BY DEF IInv, RacersBound
    <3> QED
      BY <1>4, <1>7, <2>6, <3>1, <3>2
  <2>9. DrainProgress'
    BY <1>1, <1>9, <2>1 DEF IInv, DrainProgress, mapVars, Counted
  <2> QED
    BY <2>1, <2>2, <2>7, <2>8, <2>9 DEF IInv
<1>10. CASE UNCHANGED <<mapVars, ahead, inserted, losers>>
  <2>1. MapType' /\ DrainType' /\ Present' = Present /\ Pending' = Pending
    BY <1>1, <1>10 DEF IInv, MapType, DrainType, Present, Pending, mapVars
  <2>2. HandlerType'
    BY <1>5, <1>6, <1>7, <1>10 DEF HandlerType
  <2>3. RaceLossBound'
    BY <1>10 DEF IInv, RaceLossBound
  <2>4. RacersBound'
    <3> SUFFICES ASSUME NEW q \in Present
                 PROVE  losers'[q] + Cardinality(Missed(q)') < Cardinality(CPU)
      BY <2>1 DEF RacersBound
    <3>1. q \in Page
      BY DEF Present
    <3>2. losers[q] + Cardinality(Missed(q)) < Cardinality(CPU)
      BY DEF IInv, RacersBound
    <3> QED
      BY <1>4, <1>7, <1>10, <3>1, <3>2
  <2>5. DrainProgress'
    BY <1>1, <1>10, <2>1 DEF IInv, DrainProgress, mapVars, Counted
  <2> QED
    BY <2>1, <2>2, <2>3, <2>4, <2>5 DEF IInv
<1> QED
  BY <1>0, <1>8, <1>9, <1>10 DEF Insert

-----------------------------------------------------------------------------
(* sample_epoch *)

\* A drain is due to delete, and to report, what is in the map as it begins.
LEMMA StartDrainStep ==
    ASSUME IInv, StartDrain
    PROVE  IInv'
<1>1. /\ pc = "idle" /\ pc' = "collect"
      /\ ahead' = Present /\ keys' = {} /\ inserted' = {} /\ page_samples' = {}
      /\ due' = Present \cap WorkloadPage
      /\ UNCHANGED <<entry, count, handler, key, losers>>
  BY DEF StartDrain, mapVars
<1>2. /\ MapType' /\ HandlerType' /\ RaceLossBound' /\ RacersBound'
      /\ Present' = Present
      /\ \A e \in Element : entry'[e] # Free => Counted(e)'
  BY <1>1, MapUnchanged
<1>3. DrainType'
  BY <1>1 DEF IInv, DrainType, Present
<1>4. Pending' = Present
  BY <1>1 DEF IInv, DrainProgress, Pending
<1>5. DrainProgress'
  BY <1>1, <1>2, <1>4 DEF IInv, DrainProgress
<1> QED
  BY <1>2, <1>3, <1>5 DEF IInv

\* Pass 1 hands a key from the iteration to keys_to_process.
LEMMA CollectKeyStep ==
    ASSUME IInv, CollectKey
    PROVE  IInv'
<1>1. PICK k \in ahead : ahead' = ahead \ {k} /\ keys' = keys \cup {k}
  BY DEF CollectKey
<1>2. /\ pc = "collect"
      /\ UNCHANGED <<entry, count, handler, pc, key, page_samples, inserted, due, losers>>
  BY DEF CollectKey, mapVars
<1>3. /\ MapType' /\ HandlerType' /\ RaceLossBound' /\ RacersBound'
      /\ Present' = Present
      /\ \A e \in Element : entry'[e] # Free => Counted(e)'
  BY <1>2, MapUnchanged
<1>4. DrainType'
  BY <1>1, <1>2 DEF IInv, DrainType
<1>5. Pending' = Pending
  BY <1>1, <1>2 DEF Pending
<1>6. key' \notin keys'
  BY <1>1, <1>2, SamplerAssumption DEF IInv, DrainType, DrainProgress
<1>7. DrainProgress'
  BY <1>1, <1>2, <1>3, <1>5, <1>6 DEF IInv, DrainProgress
<1> QED
  BY <1>3, <1>4, <1>7 DEF IInv

\* Pass 1 ends when there is nothing ahead, and a drain when no key is left.
LEMMA EndStep ==
    ASSUME IInv, EndCollect \/ EndDrain
    PROVE  IInv'
<1>1. /\ UNCHANGED <<entry, count, handler, ahead, keys, key, page_samples,
                     inserted, due, losers>>
      /\ \/ pc = "collect" /\ pc' = "read" /\ ahead = {}
         \/ pc = "read" /\ pc' = "idle" /\ keys = {}
  BY DEF EndCollect, EndDrain, mapVars
<1>2. /\ MapType' /\ HandlerType' /\ RaceLossBound' /\ RacersBound'
      /\ Present' = Present
      /\ \A e \in Element : entry'[e] # Free => Counted(e)'
  BY <1>1, MapUnchanged
<1>3. DrainType' /\ Pending' = Pending
  BY <1>1 DEF IInv, DrainType, Pending
<1>4. DrainProgress'
  BY <1>1, <1>2, <1>3 DEF IInv, DrainProgress
<1> QED
  BY <1>2, <1>3, <1>4 DEF IInv

\* A workload page that was due is reported when its entry is read, since no
\* entry is without a sample.
LEMMA ReadKeyStep ==
    ASSUME IInv, ReadKey
    PROVE  IInv'
<1>1. PICK k \in keys :
         /\ key' = k
         /\ keys' = keys \ {k}
         /\ page_samples' = IF Counted(ElementOf(k)) /\ k \in WorkloadPage
                            THEN page_samples \cup {k} ELSE page_samples
  BY DEF ReadKey, is_workload_vma
<1>2. /\ pc = "read" /\ pc' = "delete"
      /\ UNCHANGED <<entry, count, handler, ahead, inserted, due, losers>>
  BY DEF ReadKey, mapVars
<1>3. /\ MapType' /\ HandlerType' /\ RaceLossBound' /\ RacersBound'
      /\ Present' = Present
      /\ \A e \in Element : entry'[e] # Free => Counted(e)'
  BY <1>2, MapUnchanged
<1>4. DrainType'
  BY <1>1, <1>2 DEF IInv, DrainType
<1>5. k \in Page /\ k # NoKey /\ key = NoKey
  BY <1>2, SamplerAssumption DEF IInv, DrainType, DrainProgress
<1>6. Pending' = Pending
  BY <1>1, <1>2, <1>5 DEF Pending
<1>7. k \in Present
  BY <1>5 DEF IInv, DrainProgress, Pending
<1>8. Counted(ElementOf(k))
  <2>1. ElementOf(k) \in Element /\ entry[ElementOf(k)] = k
    BY <1>7, ElementOfPresent
  <2> QED
    BY <1>5, <2>1, SamplerAssumption DEF IInv, DrainProgress
<1>9. due' \subseteq (ahead' \cup keys') \cup page_samples'
  BY <1>1, <1>2, <1>8 DEF IInv, DrainProgress, DrainType
<1>10. DrainProgress'
  BY <1>1, <1>2, <1>3, <1>5, <1>6, <1>9 DEF IInv, DrainProgress
<1> QED
  BY <1>3, <1>4, <1>10 DEF IInv

\* Deleting an entry takes its page, and no other, out of the map.
LEMMA DeleteKeyStep ==
    ASSUME IInv, DeleteKey
    PROVE  IInv'
<1>1. /\ pc = "delete" /\ pc' = "read" /\ key' = NoKey
      /\ entry' = [entry EXCEPT ![ElementOf(key)] = Free]
      /\ count' = [count EXCEPT ![ElementOf(key)] = [c \in CPU |-> 0]]
      /\ UNCHANGED <<handler, ahead, keys, page_samples, inserted, due, losers>>
  BY DEF DeleteKey
<1>2. key # NoKey /\ key \in Page /\ key \in Present /\ key \notin keys /\ ahead = {}
  BY <1>1 DEF IInv, DrainType, DrainProgress, Pending
<1>3. PICK e \in Element : e = ElementOf(key) /\ entry[e] = key
  BY <1>2, ElementOfPresent
<1>4. /\ entry \in [Element -> Page \cup {Free}]
      /\ \A f, g \in Element : entry[f] = entry[g] /\ entry[f] # Free => f = g
      /\ count \in [Element -> [CPU -> Nat]]
  BY DEF IInv, MapType
<1>5. MapType'
  <2>1. entry' \in [Element -> Page \cup {Free}]
    BY <1>1, <1>3, <1>4
  <2>2. count' \in [Element -> [CPU -> Nat]]
    BY <1>1, <1>3, <1>4
  <2>3. \A f, g \in Element : entry'[f] = entry'[g] /\ entry'[f] # Free => f = g
    BY <1>1, <1>3, <1>4
  <2> QED
    BY <2>1, <2>2, <2>3 DEF MapType
<1>6. Present' = Present \ {key}
  <2>1. \A f \in Element \ {e} : entry[f] # key
    BY <1>2, <1>3, <1>4, SamplerAssumption
  <2> QED
    BY <1>1, <1>3, <1>4, <2>1, SamplerAssumption DEF Present
<1>7. DrainType' /\ HandlerType'
  BY <1>1 DEF IInv, DrainType, HandlerType
<1>8. \A q \in Page : Missed(q)' = Missed(q)
  BY <1>1 DEF Missed
<1>9. RaceLossBound' /\ RacersBound'
  BY <1>1, <1>6, <1>8 DEF IInv, RaceLossBound, RacersBound, Present
<1>10. Pending' = Pending \ {key}
  BY <1>1, <1>2 DEF Pending
<1>11. \A f \in Element : entry'[f] # Free => Counted(f)'
  <2> SUFFICES ASSUME NEW f \in Element, entry'[f] # Free
               PROVE  \E d \in CPU : count'[f][d] > 0
    BY DEF Counted
  <2>1. f # e
    BY <1>1, <1>3, <1>4
  <2>2. entry[f] # Free /\ count'[f] = count[f]
    BY <1>1, <1>3, <1>4, <2>1
  <2> QED
    BY <2>2 DEF IInv, DrainProgress, Counted
<1>12. DrainProgress'
  <2>1. key' \notin keys'
    BY <1>1, SamplerAssumption DEF IInv, DrainType
  <2>2. Pending' \subseteq Present' /\ Present' \subseteq Pending' \cup inserted'
    BY <1>1, <1>6, <1>10 DEF IInv, DrainProgress
  <2> QED
    BY <1>1, <1>2, <1>11, <2>1, <2>2 DEF IInv, DrainProgress
<1> QED
  BY <1>5, <1>7, <1>9, <1>12 DEF IInv

-----------------------------------------------------------------------------
(* Counting the samples *)

\* A page has one element, so that finding it is finding that element.
LEMMA ElementOfUnique ==
    ASSUME MapType, NEW e \in Element, entry[e] # Free
    PROVE  ElementOf(entry[e]) = e
<1>1. ElementOf(entry[e]) \in Element /\ entry[ElementOf(entry[e])] = entry[e]
  BY DEF ElementOf
<1> QED
  BY <1>1 DEF MapType

\* The samples in an element, and in the map, are natural numbers.
LEMMA TotalsNat ==
    ASSUME MapType
    PROVE  /\ \A e \in Element : Total(e) \in Nat
           /\ IsFiniteSet(Held) /\ Held \subseteq Element
           /\ InMap \in Nat
           /\ \A e \in Held : Total(e) <= InMap
<1>1. \A e \in Element : Total(e) \in Nat
  BY SumNat, SamplerAssumption DEF MapType, Total
<1>2. IsFiniteSet(Held) /\ Held \subseteq Element
  BY FS_Subset, SamplerAssumption DEF Held
<1> DEFINE t == [e \in Element |-> Total(e)]
<1>3. \A e \in Held : t[e] \in Nat /\ t[e] = Total(e)
  BY <1>1, <1>2
<1> HIDE DEF t
<1>4. SumFunctionOnSet(t, Held) \in Nat /\ \A e \in Held : t[e] <= SumFunctionOnSet(t, Held)
  BY <1>2, <1>3, SumNat
<1> QED
  BY <1>1, <1>2, <1>3, <1>4 DEF InMap, t

\* The handlers in the middle of a sample can be counted; one that ends is one
\* less, one that begins is one more.
LEMMA BusySteps ==
    ASSUME HandlerType, NEW c \in CPU
    PROVE  /\ Cardinality(Busy) \in Nat
           /\ handler[c] # Idle /\ handler' = [handler EXCEPT ![c] = Idle]
                 => Cardinality(Busy)' = Cardinality(Busy) - 1
           /\ \A h : handler[c] = Idle /\ handler' = [handler EXCEPT ![c] = h] /\ h # Idle
                 => Cardinality(Busy)' = Cardinality(Busy) + 1
<1>1. IsFiniteSet(Busy) /\ Cardinality(Busy) \in Nat
  BY FS_Subset, FS_CardinalityType, SamplerAssumption DEF Busy
<1>2. ASSUME handler[c] # Idle, handler' = [handler EXCEPT ![c] = Idle]
      PROVE  Cardinality(Busy)' = Cardinality(Busy) - 1
  <2>1. Busy' = Busy \ {c} /\ c \in Busy
    BY <1>2 DEF HandlerType, Busy
  <2> QED
    BY <1>1, <2>1, FS_RemoveElement
<1>3. ASSUME NEW h, handler[c] = Idle, handler' = [handler EXCEPT ![c] = h], h # Idle
      PROVE  Cardinality(Busy)' = Cardinality(Busy) + 1
  <2>1. Busy' = Busy \cup {c} /\ c \notin Busy
    BY <1>3 DEF HandlerType, Busy
  <2> QED
    BY <1>1, <2>1, FS_AddElement
<1> QED
  BY <1>1, <1>2, <1>3

\* A sample added to an entry adds one to the sum over the map.
LEMMA AddCounts ==
    ASSUME MapType, NEW e \in Element, NEW c \in CPU, entry[e] # Free,
           count' = [count EXCEPT ![e][c] = @ + 1], UNCHANGED entry
    PROVE  /\ InMap' = InMap + 1
           /\ \A f \in Element : Total(f)' \in Nat /\ Total(f) <= Total(f)'
<1>1. \A f \in Element : Total(f) \in Nat
  BY TotalsNat
<1>2. \A f \in Element : f # e => Total(f)' = Total(f)
  BY DEF MapType, Total
<1>3. Total(e)' = Total(e) + 1
  <2> DEFINE f == count[e]
             g == count'[e]
  <2>1. \A d \in CPU : f[d] \in Int /\ g[d] \in Int
    BY DEF MapType
  <2>2. \A d \in CPU \ {c} : g[d] = f[d]
    BY DEF MapType
  <2>3. g[c] = f[c] + 1
    BY DEF MapType
  <2>4. Total(e)' = SumFunctionOnSet(g, CPU) /\ Total(e) = SumFunctionOnSet(f, CPU)
    BY DEF Total
  <2> HIDE DEF f, g
  <2>5. SumFunctionOnSet(g, CPU) = SumFunctionOnSet(f, CPU) - f[c] + g[c]
    <3>1. IsFiniteSet(CPU)
      BY SamplerAssumption
    <3> QED
      BY <2>1, <2>2, <3>1, SumChange
  <2> QED
    BY <1>1, <2>1, <2>3, <2>4, <2>5
<1>4. InMap' = InMap + 1
  <2> DEFINE f == [x \in Element |-> Total(x)]
             g == [x \in Element |-> Total(x)']
  <2>1. /\ InMap = SumFunctionOnSet(f, Held)
        /\ InMap' = SumFunctionOnSet(g, Held)
    BY DEF InMap, Held
  <2>2. e \in Held /\ IsFiniteSet(Held) /\ Held \subseteq Element /\ InMap \in Nat
    BY TotalsNat DEF Held
  <2>3. \A x \in Held : f[x] \in Int /\ g[x] \in Int
    BY <1>1, <1>2, <1>3, <2>2
  <2>4. \A x \in Held \ {e} : g[x] = f[x]
    BY <1>2, <2>2
  <2>5. g[e] = f[e] + 1
    BY <1>3
  <2> HIDE DEF f, g
  <2>6. SumFunctionOnSet(g, Held) = SumFunctionOnSet(f, Held) - f[e] + g[e]
    BY <2>2, <2>3, <2>4, SumChange
  <2> QED
    BY <2>1, <2>2, <2>3, <2>5, <2>6
<1> QED
  BY <1>1, <1>2, <1>3, <1>4

\* A new entry holds the sample that made it.
LEMMA InsertCounts ==
    ASSUME MapType, NEW e \in Element, NEW c \in CPU, NEW p \in Page, entry[e] = Free,
           entry' = [entry EXCEPT ![e] = p],
           count' = [count EXCEPT ![e] = [d \in CPU |-> IF d = c THEN 1 ELSE 0]]
    PROVE  /\ InMap' = InMap + 1
           /\ \A f \in Element \ {e} : Total(f)' = Total(f)
<1>1. \A f \in Element : Total(f) \in Nat
  BY TotalsNat
<1>2. \A f \in Element \ {e} : Total(f)' = Total(f)
  BY DEF MapType, Total
<1>3. Total(e)' = 1
  <2> DEFINE g == [d \in CPU |-> IF d = c THEN 1 ELSE 0]
  <2>1. Total(e)' = SumFunctionOnSet(g, CPU)
    BY DEF MapType, Total
  <2>2. (\A d \in CPU : g[d] \in Int) /\ (\A d \in CPU \ {c} : g[d] = 0) /\ g[c] = 1
    OBVIOUS
  <2> HIDE DEF g
  <2>3. SumFunctionOnSet(g, CPU) = g[c] + SumFunctionOnSet(g, CPU \ {c})
    BY <2>2, SumSplit, SamplerAssumption
  <2>4. IsFiniteSet(CPU \ {c})
    BY FS_RemoveElement, SamplerAssumption
  <2>5. SumFunctionOnSet(g, CPU \ {c}) = 0
    BY <2>2, <2>4, SumZero
  <2> QED
    BY <2>1, <2>2, <2>3, <2>5
<1>4. InMap' = InMap + 1
  <2> DEFINE f == [x \in Element |-> Total(x)]
             g == [x \in Element |-> Total(x)']
  <2>1. IsFiniteSet(Held) /\ Held \subseteq Element /\ InMap \in Nat
    BY TotalsNat
  <2>2. Held' = Held \cup {e} /\ e \notin Held
    BY SamplerAssumption DEF MapType, Held
  <2>3. /\ InMap = SumFunctionOnSet(f, Held)
        /\ InMap' = SumFunctionOnSet(g, Held \cup {e})
    BY <2>2 DEF InMap
  <2>4. \A x \in Held : f[x] \in Int /\ g[x] = f[x]
    BY <1>1, <1>2, <2>1, <2>2
  <2>5. \A x \in Held \cup {e} : g[x] \in Int
    BY <1>1, <1>2, <1>3, <2>1, <2>2
  <2>6. g[e] = 1
    BY <1>3
  <2> HIDE DEF f, g
  <2>7. IsFiniteSet(Held \cup {e}) /\ (Held \cup {e}) \ {e} = Held
    BY <2>1, <2>2, FS_AddElement
  <2>8. SumFunctionOnSet(g, Held \cup {e}) = g[e] + SumFunctionOnSet(g, Held)
    <3>1. \A x \in Held \cup {e} : SumFunctionOnSet(g, Held \cup {e})
                                      = g[x] + SumFunctionOnSet(g, (Held \cup {e}) \ {x})
      BY <2>5, <2>7, SumSplit
    <3> QED
      BY <2>7, <3>1
  <2>9. SumFunctionOnSet(g, Held) = SumFunctionOnSet(f, Held)
    BY <2>1, <2>4, SumSame
  <2> QED
    BY <2>1, <2>3, <2>6, <2>7, <2>8, <2>9
<1> QED
  BY <1>2, <1>4

\* An entry that is deleted takes its samples out of the map.
LEMMA DeleteCounts ==
    ASSUME MapType, NEW e \in Element, entry[e] # Free,
           entry' = [entry EXCEPT ![e] = Free],
           count' = [count EXCEPT ![e] = [d \in CPU |-> 0]]
    PROVE  InMap' = InMap - Total(e)
<1> DEFINE f == [x \in Element |-> Total(x)]
           g == [x \in Element |-> Total(x)']
<1>1. \A x \in Element : Total(x) \in Nat
  BY TotalsNat
<1>2. \A x \in Element \ {e} : Total(x)' = Total(x)
  BY DEF MapType, Total
<1>3. IsFiniteSet(Held) /\ Held \subseteq Element /\ e \in Held
  BY TotalsNat DEF Held
<1>4. Held' = Held \ {e}
  BY SamplerAssumption DEF MapType, Held
<1>5. InMap = SumFunctionOnSet(f, Held) /\ InMap' = SumFunctionOnSet(g, Held \ {e})
  BY <1>4 DEF InMap
<1>6. \A x \in Held : f[x] \in Int
  BY <1>1, <1>3
<1>7. \A x \in Held \ {e} : f[x] \in Int /\ g[x] = f[x]
  BY <1>1, <1>2, <1>3
<1>8. f[e] = Total(e)
  OBVIOUS
<1> HIDE DEF f, g
<1>9. SumFunctionOnSet(f, Held) = f[e] + SumFunctionOnSet(f, Held \ {e})
  BY <1>3, <1>6, SumSplit
<1>10. IsFiniteSet(Held \ {e})
  BY <1>3, FS_RemoveElement
<1>11. SumFunctionOnSet(g, Held \ {e}) = SumFunctionOnSet(f, Held \ {e})
  BY <1>7, <1>10, SumSame
<1>12. SumFunctionOnSet(f, Held \ {e}) \in Int
  BY <1>7, <1>10, SumSplit
<1> QED
  BY <1>1, <1>5, <1>8, <1>9, <1>11, <1>12

-----------------------------------------------------------------------------
(* No sample is counted twice *)

\* Nothing has been sampled at first.
LEMMA CountInit == Init => CountInv
<1> SUFFICES ASSUME Init PROVE CountInv
  OBVIOUS
<1>1. Held = {} /\ Busy = {}
  BY DEF Init, Held, Busy
<1>2. InMap = 0
  BY <1>1, SumEmpty DEF InMap
<1>3. Cardinality(Busy) = 0
  BY <1>1, FS_EmptySet
<1>4. outstanding = 0 /\ read = 0 /\ pc = "idle"
  BY DEF Init
<1> QED
  BY <1>2, <1>3, <1>4 DEF CountInv, EachSampleOnce, ReadBound

\* A lookup begins a sample.
LEMMA LookupCount ==
    ASSUME IInv, CountInv, NEW c \in CPU, NEW p \in Page, Lookup(c, p)
    PROVE  CountInv'
<1>1. /\ handler[c] = Idle
      /\ \E h : h # Idle /\ handler' = [handler EXCEPT ![c] = h]
      /\ outstanding' = outstanding + 1
      /\ UNCHANGED <<entry, count, pc, key, read>>
  BY DEF Lookup, Idle, mapVars, drainVars
<1>2. Cardinality(Busy) \in Nat /\ Cardinality(Busy)' = Cardinality(Busy) + 1
  BY <1>1, BusySteps DEF IInv
<1>3. InMap' = InMap /\ InMap \in Nat
  BY <1>1, TotalsNat DEF IInv, InMap, Held, Total
<1>4. ReadBound'
  BY <1>1 DEF CountInv, ReadBound, ElementOf, Total
<1>5. outstanding = InMap - read + Cardinality(Busy) /\ read \in Nat
  BY DEF CountInv, EachSampleOnce, ReadBound
<1>6. outstanding' = InMap' - read' + Cardinality(Busy)'
  BY <1>1, <1>2, <1>3, <1>5
<1> QED
  BY <1>4, <1>6 DEF CountInv, EachSampleOnce

\* The sample in the handler's hands goes to the map, or is lost.
LEMMA AddCount ==
    ASSUME IInv, CountInv, NEW c \in CPU, Add(c)
    PROVE  CountInv'
<1>1. PICK e \in Element :
         \/ UNCHANGED count /\ outstanding' = outstanding - 1
         \/ /\ entry[e] # Free
            /\ count' = [count EXCEPT ![e][c] = @ + 1] /\ UNCHANGED outstanding
  BY DEF IInv, HandlerType, Add
<1>2. /\ handler[c] # Idle /\ handler' = [handler EXCEPT ![c] = Idle]
      /\ UNCHANGED <<entry, pc, key, read>>
  BY DEF Add, Idle, drainVars
<1>3. Cardinality(Busy) \in Nat /\ Cardinality(Busy)' = Cardinality(Busy) - 1
  BY <1>2, BusySteps DEF IInv
<1>4. InMap \in Nat /\ \A f \in Element : Total(f) \in Nat
  BY TotalsNat DEF IInv
<1>5. outstanding = InMap - read + Cardinality(Busy) /\ read \in Nat
  BY DEF CountInv, EachSampleOnce, ReadBound
<1>6. CASE UNCHANGED count /\ outstanding' = outstanding - 1
  <2>1. InMap' = InMap
    BY <1>2, <1>6 DEF InMap, Held, Total
  <2>2. outstanding' = InMap' - read' + Cardinality(Busy)'
    BY <1>2, <1>3, <1>4, <1>5, <1>6, <2>1
  <2>3. ReadBound'
    BY <1>2, <1>6 DEF CountInv, ReadBound, ElementOf, Total
  <2> QED
    BY <2>2, <2>3 DEF CountInv, EachSampleOnce
<1>7. CASE /\ entry[e] # Free
           /\ count' = [count EXCEPT ![e][c] = @ + 1] /\ UNCHANGED outstanding
  <2>1. InMap' = InMap + 1 /\ \A f \in Element : Total(f)' \in Nat /\ Total(f) <= Total(f)'
    BY <1>2, <1>7, AddCounts DEF IInv
  <2>2. outstanding' = InMap' - read' + Cardinality(Busy)'
    BY <1>2, <1>3, <1>4, <1>5, <1>7, <2>1
  <2>3. ReadBound'
    <3>1. CASE pc = "delete"
      <4>1. key \in Present
        BY <3>1 DEF IInv, DrainProgress, Pending
      <4>2. ElementOf(key) \in Element /\ ElementOf(key)' = ElementOf(key)
        BY <1>2, <4>1, ElementOfPresent DEF ElementOf
      <4>3. /\ Total(ElementOf(key))' \in Nat
            /\ read <= Total(ElementOf(key))
            /\ Total(ElementOf(key)) <= Total(ElementOf(key))'
        BY <1>2, <1>4, <2>1, <3>1, <4>2 DEF CountInv, ReadBound
      <4>4. Total(ElementOf(key)) \in Nat
        BY <1>4, <4>2
      <4> QED
        BY <1>2, <1>4, <1>5, <3>1, <4>2, <4>3, <4>4 DEF ReadBound
    <3>2. CASE pc # "delete"
      BY <1>2, <1>5, <3>2 DEF CountInv, ReadBound
    <3> QED
      BY <3>1, <3>2
  <2> QED
    BY <2>2, <2>3 DEF CountInv, EachSampleOnce
<1> QED
  BY <1>1, <1>6, <1>7

\* The handler's sample becomes an entry, or is lost; the entry pass 2 is at
\* stays where it is.
LEMMA InsertCount ==
    ASSUME IInv, CountInv, NEW c \in CPU, Insert(c)
    PROVE  CountInv'
<1>1. /\ handler[c] # Idle /\ handler' = [handler EXCEPT ![c] = Idle]
      /\ UNCHANGED <<pc, key, read>>
  BY DEF Insert, Idle
<1>2. Cardinality(Busy) \in Nat /\ Cardinality(Busy)' = Cardinality(Busy) - 1
  BY <1>1, BusySteps DEF IInv
<1>3. InMap \in Nat /\ \A f \in Element : Total(f) \in Nat
  BY TotalsNat DEF IInv
<1>4. outstanding = InMap - read + Cardinality(Busy) /\ read \in Nat
  BY DEF CountInv, EachSampleOnce, ReadBound
<1>5. CASE UNCHANGED <<entry, count>> /\ outstanding' = outstanding - 1
  <2>1. InMap' = InMap
    BY <1>5 DEF InMap, Held, Total
  <2>2. outstanding' = InMap' - read' + Cardinality(Busy)'
    BY <1>1, <1>2, <1>3, <1>4, <1>5, <2>1
  <2>3. ReadBound'
    BY <1>1, <1>5 DEF CountInv, ReadBound, ElementOf, Total
  <2> QED
    BY <2>2, <2>3 DEF CountInv, EachSampleOnce
<1>6. CASE UNCHANGED outstanding
  <2>1. PICK e \in Element :
           /\ handler[c].page \notin Present
           /\ entry[e] = Free
           /\ entry' = [entry EXCEPT ![e] = handler[c].page]
           /\ count' = [count EXCEPT ![e] = [d \in CPU |-> IF d = c THEN 1 ELSE 0]]
    <3>1. outstanding - 1 # outstanding
      BY <1>2, <1>3, <1>4
    <3> QED
      BY <1>6, <3>1 DEF Insert
  <2>2. handler[c].page \in Page
    BY DEF IInv, HandlerType, Insert
  <2>3. InMap' = InMap + 1 /\ \A f \in Element \ {e} : Total(f)' = Total(f)
    BY <2>1, <2>2, InsertCounts DEF IInv
  <2>4. outstanding' = InMap' - read' + Cardinality(Busy)'
    BY <1>1, <1>2, <1>3, <1>4, <1>6, <2>3
  <2>5. ReadBound'
    <3>1. CASE pc = "delete"
      <4>1. key \in Present
        BY <3>1 DEF IInv, DrainProgress, Pending
      <4>2. PICK f \in Element : f = ElementOf(key) /\ entry[f] = key /\ f # e
        BY <2>1, <4>1, ElementOfPresent, SamplerAssumption DEF Present
      <4>3. ElementOf(key)' = f
        <5>1. entry'[f] = key
          BY <2>1, <4>2 DEF IInv, MapType
        <5>2. \A g \in Element : entry'[g] = key => g = f
          BY <2>1, <4>1, <4>2, SamplerAssumption DEF IInv, MapType, Present
        <5> QED
          BY <1>1, <5>1, <5>2 DEF ElementOf
      <4>4. read <= Total(f) /\ Total(f)' = Total(f)
        BY <2>3, <3>1, <4>2 DEF CountInv, ReadBound
      <4>5. Total(ElementOf(key))' = Total(f)'
        BY <4>3 DEF Total
      <4> QED
        BY <1>1, <1>4, <3>1, <4>4, <4>5 DEF ReadBound
    <3>2. CASE pc # "delete"
      BY <1>1, <1>4, <3>2 DEF CountInv, ReadBound
    <3> QED
      BY <3>1, <3>2
  <2> QED
    BY <2>4, <2>5 DEF CountInv, EachSampleOnce
<1> QED
  BY <1>5, <1>6 DEF Insert, mapVars

\* Pass 1, and the ends of the passes, touch no count.
LEMMA PassCount ==
    ASSUME IInv, CountInv, StartDrain \/ CollectKey \/ EndCollect \/ EndDrain
    PROVE  CountInv'
<1>1. /\ UNCHANGED <<entry, count, handler, key, read, outstanding>>
      /\ pc # "delete" /\ pc' # "delete"
  BY DEF StartDrain, CollectKey, EndCollect, EndDrain, mapVars
<1>2. InMap' = InMap /\ Busy' = Busy
  BY <1>1 DEF InMap, Held, Total, Busy
<1> QED
  BY <1>1, <1>2 DEF CountInv, EachSampleOnce, ReadBound

\* The samples that are read are outstanding no more, although the entry still
\* counts them.
LEMMA ReadKeyCount ==
    ASSUME IInv, CountInv, ReadKey
    PROVE  CountInv'
<1>1. PICK k \in keys : key' = k /\ read' = Total(ElementOf(k))
  BY DEF ReadKey
<1>2. /\ pc = "read" /\ pc' = "delete" /\ outstanding' = outstanding - read'
      /\ UNCHANGED <<entry, count, handler>>
  BY DEF ReadKey, mapVars
<1>3. k \in Present
  BY DEF IInv, DrainProgress, Pending
<1>4. Total(ElementOf(k)) \in Nat
  BY <1>3, ElementOfPresent, TotalsNat DEF IInv
<1>5. InMap' = InMap /\ InMap \in Nat /\ Busy' = Busy /\ Cardinality(Busy) \in Nat
  <2>1. InMap' = InMap /\ Busy' = Busy
    BY <1>2 DEF InMap, Held, Total, Busy
  <2>2. InMap \in Nat
    BY TotalsNat DEF IInv
  <2>3. Cardinality(Busy) \in Nat
    BY FS_Subset, FS_CardinalityType, SamplerAssumption DEF Busy
  <2> QED
    BY <2>1, <2>2, <2>3
<1>6. Total(ElementOf(key))' = read'
  BY <1>1, <1>2 DEF Total, ElementOf
<1>7. ReadBound'
  BY <1>1, <1>2, <1>4, <1>6 DEF ReadBound
<1>8. outstanding = InMap - 0 + Cardinality(Busy)
  BY <1>2 DEF CountInv, EachSampleOnce, ReadBound
<1>9. outstanding' = InMap' - read' + Cardinality(Busy)'
  BY <1>1, <1>2, <1>4, <1>5, <1>8
<1> QED
  BY <1>7, <1>9 DEF CountInv, EachSampleOnce

\* What was counted since the read is lost with the entry.
LEMMA DeleteKeyCount ==
    ASSUME IInv, CountInv, DeleteKey
    PROVE  CountInv'
<1>1. /\ pc = "delete" /\ pc' = "read" /\ read' = 0
      /\ entry' = [entry EXCEPT ![ElementOf(key)] = Free]
      /\ count' = [count EXCEPT ![ElementOf(key)] = [c \in CPU |-> 0]]
      /\ outstanding' = outstanding - (Total(ElementOf(key)) - read)
      /\ UNCHANGED handler
  BY DEF DeleteKey
<1>2. key \in Present
  BY <1>1 DEF IInv, DrainProgress, Pending
<1>3. PICK e \in Element : e = ElementOf(key) /\ entry[e] # Free
  BY <1>2, ElementOfPresent, SamplerAssumption DEF Present
<1>4. InMap' = InMap - Total(e)
  BY <1>1, <1>3, DeleteCounts DEF IInv
<1>5. InMap \in Nat /\ Total(e) \in Nat
  BY TotalsNat DEF IInv
<1>6. Busy' = Busy /\ Cardinality(Busy) \in Nat
  BY <1>1, FS_Subset, FS_CardinalityType, SamplerAssumption DEF Busy
<1>7. outstanding = InMap - read + Cardinality(Busy) /\ read \in Nat
  BY DEF CountInv, EachSampleOnce, ReadBound
<1>8. outstanding' = outstanding - (Total(e) - read)
  BY <1>1, <1>3
<1>9. outstanding' = InMap' - read' + Cardinality(Busy)'
  BY <1>1, <1>4, <1>5, <1>6, <1>7, <1>8
<1>10. ReadBound'
  BY <1>1 DEF ReadBound
<1> QED
  BY <1>9, <1>10 DEF CountInv, EachSampleOnce

\* Every step keeps the count of the samples.
LEMMA CountStep == IInv /\ CountInv /\ [Next]_vars => CountInv'
<1> SUFFICES ASSUME IInv, CountInv, [Next]_vars PROVE CountInv'
  OBVIOUS
<1>1. CASE sample_epoch
  BY <1>1, PassCount, ReadKeyCount, DeleteKeyCount DEF sample_epoch
<1>2. CASE \E c \in CPU : sample_mem(c)
  BY <1>2, LookupCount, AddCount, InsertCount DEF sample_mem
<1>3. CASE UNCHANGED vars
  <2>1. UNCHANGED <<entry, count, handler, pc, key, read, outstanding>>
    BY <1>3 DEF vars
  <2>2. InMap' = InMap /\ Busy' = Busy
    BY <2>1 DEF InMap, Held, Total, Busy
  <2>3. ReadBound'
    BY <2>1 DEF CountInv, ReadBound, ElementOf, Total
  <2> QED
    BY <2>1, <2>2, <2>3 DEF CountInv, EachSampleOnce
<1> QED
  BY <1>1, <1>2, <1>3 DEF Next

-----------------------------------------------------------------------------
(* The theorems *)

\* Every step of a handler or of the drain keeps the invariant.
LEMMA InvStep == IInv /\ [Next]_vars => IInv'
<1> SUFFICES ASSUME IInv, [Next]_vars PROVE IInv'
  OBVIOUS
<1>1. CASE sample_epoch
  BY <1>1, StartDrainStep, CollectKeyStep, EndStep, ReadKeyStep, DeleteKeyStep
     DEF sample_epoch
<1>2. CASE \E c \in CPU : sample_mem(c)
  BY <1>2, LookupStep, AddStep, InsertStep DEF sample_mem
<1>3. CASE UNCHANGED vars
  <2>1. UNCHANGED <<entry, count, handler, losers>> /\ UNCHANGED <<drainVars, inserted>>
    BY <1>3 DEF vars, drainVars
  <2>2. /\ MapType' /\ HandlerType' /\ RaceLossBound' /\ RacersBound'
        /\ Present' = Present
        /\ \A e \in Element : entry'[e] # Free => Counted(e)'
    BY <2>1, MapUnchanged
  <2>3. DrainType' /\ Pending' = Pending
    BY <2>1, DrainUnchanged
  <2>4. DrainProgress'
    BY <2>1, <2>2, <2>3 DEF IInv, DrainProgress, drainVars
  <2> QED
    BY <2>2, <2>3, <2>4 DEF IInv
<1> QED
  BY <1>1, <1>2, <1>3 DEF Next

\* The inductive invariant holds in every reachable state.
THEOREM Invariance == Spec => []IInv
BY InvInit, InvStep, PTL DEF Spec

\* A drain leaves behind only what was inserted while it ran: with any number
\* of CPUs, sampling at any rate, sample_epoch deletes every entry that was in
\* the map when it was called.
THEOREM NothingGrowsOld == Spec => []LeftoverIsNew
<1>1. IInv => LeftoverIsNew
  BY DEF IInv, DrainProgress, Pending, LeftoverIsNew
<1> QED
  BY <1>1, Invariance, PTL

\* A drain reports every workload page that was in the map when it began.
THEOREM NoPageOverlooked == Spec => []ReportComplete
<1>1. IInv => ReportComplete
  BY DEF IInv, DrainProgress, ReportComplete
<1> QED
  BY <1>1, Invariance, PTL

\* One insertion costs at most one sample of each other CPU.
THEOREM RaceLossBounded == Spec => []RaceLossBound
<1>1. IInv => RaceLossBound
  BY DEF IInv
<1> QED
  BY <1>1, Invariance, PTL

\* The counts stay what IInv needs them to be, together with it.
LEMMA CountInvariance == Spec => [](IInv /\ CountInv)
<1>1. Init => IInv /\ CountInv
  BY InvInit, CountInit
<1>2. IInv /\ CountInv /\ [Next]_vars => (IInv /\ CountInv)'
  BY InvStep, CountStep
<1> QED
  BY <1>1, <1>2, PTL DEF Spec

\* No sample is reported twice or kept for a second report: at every moment
\* the samples that are neither read nor lost are those that handlers hold or
\* that the map counts and the drain has not read, on any number of CPUs.
THEOREM NoSampleTwice == Spec => []EachSampleOnce
<1>1. IInv /\ CountInv => EachSampleOnce
  BY DEF CountInv
<1> QED
  BY <1>1, CountInvariance, PTL

\* The variables keep their types; above all the count of outstanding samples
\* never falls below zero: pass 2 never takes off more than was counted.
THEOREM TypeCorrect == Spec => []TypeOK
<1>1. ASSUME IInv, CountInv PROVE TypeOK
  <2>1. read \in Nat /\ read <= InMap
    <3>1. CASE pc = "delete"
      <4>1. key \in Present
        BY <1>1, <3>1 DEF IInv, DrainProgress, Pending
      <4>2. ElementOf(key) \in Held
        BY <4>1, ElementOfPresent, SamplerAssumption DEF Held, Present
      <4>3. Total(ElementOf(key)) <= InMap /\ Total(ElementOf(key)) \in Nat /\ InMap \in Nat
        BY <1>1, <4>2, TotalsNat DEF IInv
      <4> QED
        BY <1>1, <3>1, <4>3 DEF CountInv, ReadBound
    <3>2. CASE pc # "delete"
      <4>1. InMap \in Nat
        BY <1>1, TotalsNat DEF IInv
      <4> QED
        BY <1>1, <3>2, <4>1 DEF CountInv, ReadBound
    <3> QED
      BY <3>1, <3>2
  <2>2. InMap \in Nat
    BY <1>1, TotalsNat DEF IInv
  <2>3. Cardinality(Busy) \in Nat
    BY FS_Subset, FS_CardinalityType, SamplerAssumption DEF Busy
  <2>4. outstanding \in Nat
    BY <1>1, <2>1, <2>2, <2>3 DEF CountInv, EachSampleOnce
  <2> QED
    BY <1>1, <2>1, <2>4 DEF TypeOK, IInv
<1> QED
  BY <1>1, CountInvariance, PTL
=============================================================================
