----------------------------- MODULE MCSession ------------------------------
(* Plans for the checks of Session.                                        *)
EXTENDS Session

(* Runs of the daemon after, before and between the two kinds without it   *)
(* or with another way of writing the file.                                *)
MixedPlan == <<"synthetic", "gapbs", "synthetic", "autonuma", "synthetic">>

=============================================================================
