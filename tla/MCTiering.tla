----------------------------- MODULE MCTiering -----------------------------
(***************************************************************************)
(* Small instances of Tiering for TLC.                                     *)
(***************************************************************************)
EXTENDS Tiering, TLC

\* Pages are interchangeable: no definition tells one from another.
PageSymmetry == Permutations(Page)

\* CUSUM's answers while it reacts and once it is stable.
MCMargins == {[promote |-> 0, demote |-> 0, abs |-> 1],
              [promote |-> 1, demote |-> 1, abs |-> 2]}
=============================================================================
