----------------------------- MODULE MCSampler ------------------------------
(***************************************************************************)
(* A small instance of Sampler for TLC: two pages of the workload and one  *)
(* outside its regions share a map too small for the three of them.        *)
(* Symmetry is left out: the run checks liveness too.                     *)
(***************************************************************************)
EXTENDS Sampler

CONSTANTS w1, w2, x1, e1, e2

MCWorkloadPages == {w1, w2}

MCPages == MCWorkloadPages \cup {x1}

MCElements == {e1, e2}
=============================================================================
