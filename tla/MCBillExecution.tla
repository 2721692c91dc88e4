--------------------------- MODULE MCBillExecution ---------------------------
(***************************************************************************)
(* A small instance of BillExecution for TLC; without symmetry, because it *)
(* checks liveness.                                                        *)
(***************************************************************************)
EXTENDS BillExecution, TLC
=============================================================================
