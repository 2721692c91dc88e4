---------------------------- MODULE MCMatchClaims ----------------------------
EXTENDS MatchClaims, TLC

\* One line of each of two statements, and what they compete for.  The scores
\* are sums that scorePair can return.
FirstOfEach == (1 :> "march") @@ (3 :> "april")
FirstScores == (1 :> (1 :> 75)) @@ (3 :> (1 :> 100))
=============================================================================
