\* One operation, two concurrent calls, a provider and a world that drift: one
\* check that denies the dispatch, evidence that holds it back; fair calls.
SPECIFICATION FairSpec
CONSTANTS
  NoOp = NoOp
  NoBill = NoBill
  Ops = {o1}
  Workers = {w1, w2}
  BillIds = {b1, b2}
  DriftingChecks = {"DISPATCH_APPROVAL_STALE"}
  EvidenceDrift = {"OK", "DISPATCH_EVIDENCE_STALE"}
  ProviderDrift = TRUE
  MaxSubmits = 2
CHECK_DEADLOCK FALSE
INVARIANTS NoDuplicateBill FailedSafeIsProof SucceededIsBound UnsentUntilDispatched
PROPERTIES KeepsContract CreatedIsRecognised
