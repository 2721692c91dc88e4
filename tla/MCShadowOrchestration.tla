------------------------ MODULE MCShadowOrchestration ------------------------
(***************************************************************************)
(* Small instances of ShadowOrchestration for TLC; without symmetry,       *)
(* because they check liveness.                                            *)
(***************************************************************************)
EXTENDS ShadowOrchestration, TLC
=============================================================================
