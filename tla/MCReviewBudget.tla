--------------------------- MODULE MCReviewBudget ---------------------------
(* Values of the tier limits for the runs of ReviewBudget, and two reviews  *)
(* in one run: the first state chooses between two workers with one model   *)
(* that always disagrees, and one worker on the whole path of a proposal.   *)
EXTENDS ReviewBudget, TLC

CONSTANTS Racing      \* the workers of the first one; the others work alone

VARIABLE review

OneReviewPerTier == [sol |-> 1, astra |-> 1]
TwoReviewsPerTier == [sol |-> 2, astra |-> 2]
NineReviewsPerTier == [sol |-> 9, astra |-> 9]
ManyTokens == [sol |-> 99, astra |-> 99]

Race == INSTANCE ReviewBudget WITH
  Contents <- Contents \ Revised, Revised <- {}, Oversized <- {}, Verdicts <- {"needs_review"},
  BaselineUsages <- {}, TotalCalls <- 2, TotalTokens <- 9, TierCalls <- TwoReviewsPerTier, AstraEnabled <- FALSE, MaxSubmissions <- 2

ReviewInit == Init /\ review \in {"race", "path"}

Racers == review = "race" /\ UNCHANGED review
Disagrees(w) == workers'[w].at = "triage" => workers'[w].verdict = "needs_review"
Alone == review = "path" /\ UNCHANGED review

ReviewNext ==
    \/ Racers /\ \E w \in Racing, e \in Evidence, c \in Contents \ Revised : Race!Begin(w, e, c)
    \/ Racers /\ \E w \in Racing : Race!EndBaseline(w) /\ Disagrees(w)
    \/ Racers /\ \E w \in Racing : Race!Triage(w)
    \/ Racers /\ \E w \in Racing : Race!Call(w)
    \/ Racers /\ \E w \in Racing : Race!Crash(w)
    \/ Racers /\ \E id \in DOMAIN remote : Race!Finish(id)
    \/ Racers /\ Race!Tick
    \/ Alone /\ \E w \in Workers \ Racing, e \in Evidence, c \in Contents : (e \in Oversized => c \notin Revised) /\ Begin(w, e, c)
    \/ Alone /\ \E w \in Workers \ Racing : EndBaseline(w)
    \/ Alone /\ \E w \in Workers \ Racing : Triage(w)
    \/ Alone /\ \E w \in Workers \ Racing : Call(w)
    \/ Alone /\ \E w \in Workers \ Racing : Crash(w)
    \/ Alone /\ \E id \in DOMAIN remote : Finish(id)
    \/ Alone /\ Tick

ReviewSpec == ReviewInit /\ [][ReviewNext]_<<vars, review>>

\* What the user pays: over any window never more calls and tokens than the
\* total budget, and on the path, with its lower limits, calls whose usage is
\* not settled keep counting against their tier after the window (tier_status).
BudgetsHold == PaidCallsBounded /\ TokensWithinBudget /\ (review = "path" => TierKeepsUnsettled)

WorkerSymmetry == Permutations(Racing)
=============================================================================
