------------------------ MODULE MCReconciliationScreen ------------------------
EXTENDS ReconciliationScreen, TLC

\* Two statements that compete for two accounting transactions.
TwoStatements == (1 :> "march") @@ (2 :> "march") @@ (3 :> "april")

\* The scores are sums that scorePair can return; the only green one is 100.  A
\* line of April supersedes a claim of March that is exactly 20 points weaker, or
\* is blocked by one (85 against 75).
Scores == (1 :> (1 :> 80 @@ 2 :> 75)) @@ (2 :> (1 :> 100 @@ 2 :> 65))
          @@ (3 :> (1 :> 100 @@ 2 :> 85))

Symmetric == Permutations(Calls)
=============================================================================
