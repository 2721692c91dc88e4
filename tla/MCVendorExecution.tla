-------------------------- MODULE MCVendorExecution --------------------------
(***************************************************************************)
(* Small instances of VendorExecution for TLC.  Workers, operations and    *)
(* Vendor identifiers are interchangeable; only safety is checked.         *)
(***************************************************************************)
EXTENDS VendorExecution, TLC

Symmetric == Permutations(Workers) \cup Permutations(Vendors) \cup Permutations(Ops)
=============================================================================
