\* Two workers, one run of three stages in a scope an earlier run may just have
\* left; one crash, failure or overrun lease.
SPECIFICATION FairSpec
CONSTANTS
  NoRun = NoRun
  NoOutput = NoOutput
  NoWorker = NoWorker
  Runs = {r1}
  Workers = {w1, w2}
  N = 3
  Outputs = {x, y}
  Outcomes = {"SUCCEEDED", "REVIEW_REQUIRED", "BLOCKED"}
  MaxFaults = 1
CHECK_DEADLOCK FALSE
INVARIANTS FenceDecides InputsAreCommitted NothingIsMasked
PROPERTY RunSucceeds
