SPECIFICATION Spec
CONSTANTS
  Blank = Blank
  Untouched = Untouched
  None = None
  Supported = {"GBP"}
  Docs = {d1, d2}
  Samples <- Readings
  Typed <- Retyped
  Fixes <- Corrected
  Calls = {c1}
  MaxInputs = 1
  MaxRuns = 2
  MaxCalls = 1
CHECK_DEADLOCK FALSE
SYMMETRY Symmetric
INVARIANTS ResultsAreVerified ReportedIsDone ReadyIsApprovable
