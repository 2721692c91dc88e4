---------------------------- MODULE PostingStates ----------------------------
(***************************************************************************)
(* The durable posting states and the transitions that                     *)
(* transition_posting_operation_v1 permits.  Every component that moves a  *)
(* posting operation extends this module.                                  *)
(***************************************************************************)

\* CHECK (current_state IN (...)) of the table posting_operations.
States == {"PROPOSED", "REVIEW", "VALIDATED", "AUTHORIZED", "SUBMITTING",
           "VERIFYING", "FAILED_SAFE", "UNCERTAIN", "DENIED", "SUCCEEDED"}

\* The states in which submit() returns without touching the operation.
PassiveRetryStates == {"AUTHORIZED", "SUBMITTING", "VERIFYING", "UNCERTAIN",
                       "SUCCEEDED", "DENIED", "FAILED_SAFE"}

\* The states of an operation whose provider mutation may have been attempted
\* and is not yet settled: execution answers RECOVERY_REQUIRED in them.
InFlightStates == {"SUBMITTING", "VERIFYING", "UNCERTAIN"}

\* The transition table of transition_posting_operation_v1.
Permitted ==
  [s \in States |->
     CASE s = "PROPOSED"    -> {"VALIDATED", "REVIEW", "DENIED"}
       [] s = "REVIEW"      -> {"VALIDATED", "DENIED"}
       [] s = "VALIDATED"   -> {"AUTHORIZED", "REVIEW", "DENIED"}
       [] s = "AUTHORIZED"  -> {"SUBMITTING", "REVIEW", "DENIED"}
       [] s = "SUBMITTING"  -> {"VERIFYING", "FAILED_SAFE", "UNCERTAIN"}
       [] s = "VERIFYING"   -> {"SUCCEEDED", "FAILED_SAFE", "UNCERTAIN"}
       [] s = "UNCERTAIN"   -> {"VERIFYING"}
       [] s = "FAILED_SAFE" -> {"VALIDATED"}
       [] OTHER             -> {}]

\* The targets submit() asks transition_posting_operation_v1 for.
IntakeTargets == {"VALIDATED", "REVIEW", "AUTHORIZED", "DENIED"}
=============================================================================
