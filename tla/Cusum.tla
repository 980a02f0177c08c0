------------------------------- MODULE Cusum --------------------------------
(***************************************************************************)
(* The CUSUM change-point detector (daemon/cusum.h, daemon/cusum.cpp) as   *)
(* the ML policy uses it: each MLPolicy::execute reads the three margins   *)
(* and, after it has migrated, updates the detector with the number of     *)
(* planned moves.                                                          *)
(*                                                                         *)
(* The running mean and the variance (Welford's algorithm) are abstracted  *)
(* to what the sums see of them: any deviation of the observation from the *)
(* mean and any half-sigma, or none at all (sigma below 1e-10).  Margins   *)
(* are integers in units of 1 / (1000 * TRANSITION_LENGTH), which makes    *)
(* the linear interpolation exact.                                         *)
(***************************************************************************)
EXTENDS Integers

CONSTANTS
    REACT_EPOCHS,        \* cusum.h:17
    TRANSITION_EPOCHS,   \* cusum.h:18
    WARM_UP,             \* cusum.cpp:15 (10 in the code)
    ReactMargins,        \* cusum.h:21,22,26, in thousandths
    StableChoices,       \* cusum.h:23,24,27 and what set_margins makes of them
    Deviations,          \* values of observation - running_mean
    HalfSigmas           \* values of k = 0.5 * sigma; 0 stands for sigma < 1e-10

Margin == [promote : Nat, demote : Nat, abs : Nat]

Never == 999

ASSUME CusumAssumption ==
    /\ REACT_EPOCHS \in Nat
    /\ TRANSITION_EPOCHS \in Nat /\ REACT_EPOCHS < TRANSITION_EPOCHS
    /\ TRANSITION_EPOCHS < Never
    /\ WARM_UP \in Nat \ {0}
    /\ ReactMargins \in Margin
    /\ StableChoices \subseteq Margin
    /\ Deviations \subseteq Int
    /\ HalfSigmas \subseteq Nat

VARIABLES
    observations,   \* n_observations, counted up to WARM_UP
    S_high,         \* evidence for more moves than usual
    S_low,          \* evidence for fewer
    sinceDetection, \* epochs_since_detection
    margins,        \* the margins the last execute swapped by
    detected,       \* result of the last update
    stable,         \* stable_promote, stable_demote and stable_abs_threshold
    outlier         \* history: the last update's observation alone passes the test

cusumVars == <<observations, S_high, S_low, sinceDetection, margins, detected,
               stable, outlier>>

-----------------------------------------------------------------------------
TRANSITION_LENGTH == TRANSITION_EPOCHS - REACT_EPOCHS

\* Bound of the model: once past the transition, ages are not told apart.
Older(age) == IF age > TRANSITION_EPOCHS THEN age ELSE age + 1

Phase(age) ==
    CASE age <= REACT_EPOCHS -> "react"
      [] age > REACT_EPOCHS /\ age <= TRANSITION_EPOCHS -> "transition"
      [] age > TRANSITION_EPOCHS -> "stable"

\* Mutated form: the transition is measured from the detection.
InterpolatedFromDetection(from, to, age) ==
    CASE Phase(age) = "react" -> from * TRANSITION_LENGTH
      [] Phase(age) = "transition" -> from * TRANSITION_LENGTH + age * (to - from)
      [] Phase(age) = "stable" -> to * TRANSITION_LENGTH

\* One getter for each field of a margin; they differ in the bounds only.
Interpolated(from, to, age) ==
    CASE Phase(age) = "react" -> from * TRANSITION_LENGTH
      [] Phase(age) = "transition" ->
            from * TRANSITION_LENGTH + (age - REACT_EPOCHS) * (to - from)
      [] Phase(age) = "stable" -> to * TRANSITION_LENGTH

MarginsAt(age) ==
    [promote |-> Interpolated(ReactMargins.promote, stable.promote, age),
     demote  |-> Interpolated(ReactMargins.demote, stable.demote, age),
     abs     |-> Interpolated(ReactMargins.abs, stable.abs, age)]

\* set_margins is called before the first epoch, if at all (daemon.cpp:103).
CusumInit ==
    /\ stable \in StableChoices
    /\ observations = 0
    /\ S_high = 0 /\ S_low = 0
    /\ sinceDetection = Never
    /\ margins = MarginsAt(Never)
    /\ detected = FALSE
    /\ outlier = FALSE

\* CUSUMDetector::update.  It returns early, without looking at the sums,
\* during the warm-up and while there is no variance.  The slack is half a
\* sigma and the decision threshold four, that is eight half-sigmas.
Positive(x) == IF x > 0 THEN x ELSE 0

Smallest(a, b) == IF a <= b THEN a ELSE b

\* Mutated form: a detection keeps the evidence.
AccumulateKeeps(dev, k) ==
    /\ S_high' = Smallest(Positive(S_high + dev - k), 100)
    /\ S_low' = Smallest(Positive(S_low - dev - k), 100)
    /\ detected' = (S_high' > 8 * k \/ S_low' > 8 * k)

Accumulate(dev, k) ==
    LET high == Positive(S_high + dev - k)
        low  == Positive(S_low - dev - k)
    IN  /\ detected' = (high > 8 * k \/ low > 8 * k)
        /\ S_high' = IF detected' THEN 0 ELSE high
        /\ S_low' = IF detected' THEN 0 ELSE low

Update ==
    /\ observations' = IF observations < WARM_UP THEN observations + 1 ELSE observations
    /\ \E dev \in Deviations, k \in HalfSigmas :
           IF observations' < WARM_UP \/ k = 0
           THEN detected' = FALSE /\ outlier' = FALSE /\ UNCHANGED <<S_high, S_low>>
           ELSE Accumulate(dev, k) /\ outlier' = (dev > 9 * k \/ -dev > 9 * k)
    /\ sinceDetection' = IF detected' THEN 0 ELSE Older(sinceDetection)

\* MLPolicy::execute: the margins in force are those before this epoch's
\* update.
Execute ==
    /\ margins' = MarginsAt(sinceDetection)
    /\ Update
    /\ UNCHANGED stable

CusumSpec == CusumInit /\ [][Execute]_cusumVars

-----------------------------------------------------------------------------
Approaches(old, new, goal) ==
    \/ old <= new /\ new <= goal
    \/ goal <= new /\ new <= old

\* A change point, and nothing else, brings the reactive margins into force, and
\* at the very next epoch (they are read before the update that reports it). From
\* one change point to the next each margin only moves towards its stable value
\* and never beyond it, so that a page swapped out is not swapped back because
\* the margins swing: the interpolation is monotone and joins both of its ends,
\* whichever end is the looser.
MarginsFollowDetections ==
    [][IF detected THEN margins' = MarginsAt(0)
       ELSE LET end == MarginsAt(Never)
            IN  /\ Approaches(margins.promote, margins'.promote, end.promote)
                /\ Approaches(margins.demote, margins'.demote, end.demote)
                /\ Approaches(margins.abs, margins'.abs, end.abs)]_cusumVars

\* Evidence counts for one report: both sums start again from nothing, so that
\* two epochs in a row report a change point only if the second one's
\* observation passes threshold and slack together (4.5 sigma) on its own.
ReportedOnce == [][detected /\ detected' => outlier']_cusumVars

\* "React phase (5 epochs): thresholds are loosened" taken at its word: in the
\* five epochs after a change point no margin is stricter than the stable one,
\* and in the sixth they are reactive no more.
ReactsAsDocumented ==
    [][/\ sinceDetection < REACT_EPOCHS =>
              LET usual == MarginsAt(Never)
              IN  /\ margins'.promote <= usual.promote
                  /\ margins'.demote <= usual.demote
                  /\ margins'.abs <= usual.abs
       /\ sinceDetection >= REACT_EPOCHS => margins' # MarginsAt(0)]_cusumVars
=============================================================================
