--------------------------- MODULE MCSandboxPilot ---------------------------
(***************************************************************************)
(* A small instance of SandboxPilot for TLC.                               *)
(***************************************************************************)
EXTENDS SandboxPilot, TLC

Symmetric == Permutations(Pilots) \cup Permutations(Vendors)
=============================================================================
