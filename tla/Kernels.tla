------------------------------- MODULE Kernels ------------------------------
(***************************************************************************)
(* All graph kernels together: which binary is started is the first        *)
(* choice, and only its variables are used from then on.                   *)
(***************************************************************************)
EXTENDS Components, Bfs, Brandes, DeltaStep, PageRank

ccOwn == <<comp, round, skipped, change>>
bfsOwn == <<source, alpha, parent, front, curr, scout, edges, awake, oldAwake>>
bcOwn == <<pathVars, scoreVars>>
ssspOwn == <<origin, delta, dist, frontier, tails, indexes, iter, bins>>
prOwn == <<ranks, contrib, error, turn>>

NoQueue == queue = 0 /\ buffer = 0
NoCc == comp = 0 /\ round = 0 /\ skipped = 0 /\ change = 0
NoBfs == /\ source = 0 /\ alpha = 0 /\ parent = 0 /\ front = 0 /\ curr = 0
         /\ scout = 0 /\ edges = 0 /\ awake = 0 /\ oldAwake = 0
NoBc == /\ sources = 0 /\ depths = 0 /\ level = 0 /\ pathCounts = 0 /\ succ = 0
        /\ depthIndex = 0 /\ back = 0 /\ deltas = 0 /\ scores = 0
NoSssp == /\ origin = 0 /\ delta = 0 /\ dist = 0 /\ frontier = 0 /\ tails = 0
          /\ indexes = 0 /\ iter = 0 /\ bins = 0
NoPr == ranks = 0 /\ contrib = 0 /\ error = 0 /\ turn = 0

Init ==
  \/ CcInit /\ NoQueue /\ NoBfs /\ NoBc /\ NoSssp /\ NoPr
  \/ BfsInit /\ NoCc /\ NoBc /\ NoSssp /\ NoPr
  \/ BcInit /\ NoCc /\ NoBfs /\ NoSssp /\ NoPr
  \/ SsspInit /\ NoQueue /\ NoCc /\ NoBfs /\ NoBc /\ NoPr
  \/ PrInit /\ NoQueue /\ NoCc /\ NoBfs /\ NoBc /\ NoSssp

Next ==
  \/ CcNext /\ UNCHANGED <<queueVars, bfsOwn, bcOwn, ssspOwn, prOwn>>
  \/ BfsNext /\ UNCHANGED <<ccOwn, bcOwn, ssspOwn, prOwn>>
  \/ BcNext /\ UNCHANGED <<ccOwn, bfsOwn, ssspOwn, prOwn>>
  \/ SsspNext /\ UNCHANGED <<queueVars, ccOwn, bfsOwn, bcOwn, prOwn>>
  \/ PrNext /\ UNCHANGED <<queueVars, ccOwn, bfsOwn, bcOwn, ssspOwn>>

vars == <<teamVars, queueVars, ccOwn, bfsOwn, bcOwn, ssspOwn, prOwn>>

Spec == Init /\ [][Next]_vars

(* A thread that is not stopped gets on.                                   *)
FairSpec == Spec /\ WF_vars(Next)

-----------------------------------------------------------------------------
(* Types of the variables of whichever kernel runs.                        *)
TypeOK == CcTypeOK /\ BfsTypeOK /\ BcTypeOK /\ SsspTypeOK /\ PrTypeOK

(* What BenchmarkKernel checks when it is asked to verify (benchmark.h:    *)
(* 114-120), here for every schedule of the team. Scores of PageRank are   *)
(* held to their verifier where they are returned for their small change,  *)
(* and distances where the copies fitted into the frontier. The parts and  *)
(* their hazards are described where they are defined; ScoresExact, for    *)
(* BCVerifier, stands for itself.                                          *)
AnswersVerify ==
  /\ LabelsComponents   \* CCVerifier
  /\ BfsReachesAll      \* BFSVerifier
  /\ DistancesExact     \* SSSPVerifier
  /\ ToleranceVerifies  \* PRVerifier

(* Every kernel returns: no retry, level, bin or iteration goes on for     *)
(* ever, and no thread waits at a barrier for one that has passed it.      *)
KernelsEnd == /\ CcTerminates /\ BfsTerminates /\ BcTerminates
              /\ SsspTerminates /\ PrTerminates
=============================================================================
