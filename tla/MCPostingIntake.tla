--------------------------- MODULE MCPostingIntake ---------------------------
(***************************************************************************)
(* A small instance of PostingIntake for TLC: an intent, and a changed one *)
(* for the same claim under another key.                                   *)
(***************************************************************************)
EXTENDS PostingIntake, TLC

CONSTANTS k1, k2, c1, f1, f2, a1, a2

Original == [key |-> k1, claim |-> c1, content |-> f1]
Rekeyed  == [key |-> k2, claim |-> c1, content |-> f2]
Rivals   == {Original, Rekeyed}

\* a1 approves the first content, and a2 is the id of its refresh.
ApprovesFirst == a1 :> f1 @@ a2 :> f1
=============================================================================
