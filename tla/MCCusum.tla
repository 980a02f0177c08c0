------------------------------ MODULE MCCusum -------------------------------
(***************************************************************************)
(* The constants of cusum.h, with the default stable margins and with the  *)
(* tuned ones of the README (ABS_THRESHOLD=0.30, DEMOTE_MARGIN=0.40).      *)
(***************************************************************************)
EXTENDS Cusum

MCReactMargins == [promote |-> 50, demote |-> 100, abs |-> 587]

Default == [promote |-> 200, demote |-> 400, abs |-> 921]

Tuned == [promote |-> 200, demote |-> 400, abs |-> 300]

MCStableChoices == {Default, Tuned}

\* Up to ten sigma for the larger half-sigma, 2, and twenty for the smaller.
MCDeviations == {-20, -9, -4, -1, 0, 1, 4, 9, 20}
=============================================================================
