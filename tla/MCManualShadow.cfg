\* Three calls for one run by two workers, two attempts of each stage, and one
\* crash, failure, overrun lease or change by somebody else; a call overlaps
\* another only once that happened.
SPECIFICATION ManualSpec
CONSTANTS
  NoRun = NoRun
  NoOutput = NoOutput
  NoWorker = NoWorker
  None = None
  Runs = {r1}
  Workers = {w1, w2}
  N = 8
  Outputs = {}
  Outcomes = {}
  MaxFaults = 1
  MaxAttempts = 2
  MaxCalls = 3
  MaxMinor = 1000
  PeriodStart = 1
  PeriodEnd = 2
  Plans <- MCPlans
  LateRows <- MCLateRows
  Pairs <- MCPairs
  Postings <- MCPostings
SYMMETRY Symmetry
CHECK_DEADLOCK FALSE
INVARIANTS FrozenFrontier AuditNamesArtifacts ReconciledIsProven
PROPERTY AllowNeedsEveryFact
