----------------------------- MODULE MCBuilder ------------------------------
(* Edge lists for the checks of GraphBuilder.                              *)
EXTENDS GraphBuilder, SequencesExt

E(u, v, w) == [u |-> u, v |-> v, w |-> w]
Unit(n) == {E(u, v, 1) : u, v \in 0 .. n - 1}
Input(el, s, m) == [el |-> el, symmetrize |-> s, inPlace |-> m]

(* All lists of one or two edges between three vertices, a triangle and a  *)
(* list that names an edge three times, in both directions.                *)
Lists == UNION {[1 .. k -> Unit(3)] : k \in 1 .. 2}
           \cup {<<E(0, 1, 1), E(1, 2, 1), E(2, 0, 1)>>, <<E(0, 1, 1), E(1, 0, 1), E(0, 1, 1)>>}

(* Parallel edges and a self loop with different weights.                  *)
Weighted == {<<E(0, 1, 3), E(1, 0, 2), E(0, 1, 2)>>, <<E(1, 0, 1), E(1, 1, 2), E(1, 0, 2)>>}

(* Every set of four and of five edges between four vertices.              *)
Sets == UNION {{SetToSeq(S) : S \in kSubset(k, {e \in Unit(4) : e.u # e.v})} : k \in 4 .. 5}

MCInputs == {Input(l, s, FALSE) : l \in Lists \cup Weighted, s \in BOOLEAN}
              \cup {Input(l, s, TRUE) : l \in Lists \cup Sets, s \in BOOLEAN}
=============================================================================
