---------------------------- MODULE MCSimulator -----------------------------
(***************************************************************************)
(* A small instance of Simulator for TLC.                                  *)
(***************************************************************************)
EXTENDS Simulator

\* run_gauntlet.py: the standard policies, and then what Coeus and Kleio run
\* (run_same_rnn_number).
MCGauntlet ==
    <<"history", "oracle", "lru", "lfu", "decaying_lfu", "ml",
      "history", "hybrid", "history", "hybrid">>
=============================================================================
