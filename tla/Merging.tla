------------------------------ MODULE Merging -------------------------------
(***************************************************************************)
(* What a connected-components kernel promises, whatever its threads do:   *)
(* it starts with every vertex on its own, one step puts two classes       *)
(* together that an edge joins, none is ever taken apart, and it returns   *)
(* only when no edge joins two classes any more.                           *)
(***************************************************************************)
EXTENDS Naturals

CONSTANT Vertices

VARIABLES adjacent,  \* the edges, as pairs of vertices; they do not change
          classes,   \* a partition of the vertices
          done

mergingVars == <<adjacent, classes, done>>

Joined(A, B) == \E a \in A, b \in B : <<a, b>> \in adjacent \/ <<b, a>> \in adjacent

Init ==
  /\ adjacent \subseteq Vertices \X Vertices
  /\ classes = {{n} : n \in Vertices}
  /\ done = FALSE

Merge ==
  /\ ~done
  /\ \E A, B \in classes : /\ A # B /\ Joined(A, B)
                           /\ classes' = (classes \ {A, B}) \cup {A \cup B}
  /\ UNCHANGED <<adjacent, done>>

Finish ==
  /\ ~done
  /\ \A A, B \in classes : Joined(A, B) => A = B
  /\ done' = TRUE
  /\ UNCHANGED <<adjacent, classes>>

Next == Merge \/ Finish

Spec == Init /\ [][Next]_mergingVars
=============================================================================
