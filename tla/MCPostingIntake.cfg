\* Two calls race to claim rival intents, one of them approved, while the world
\* drifts once and the approval of an authorized operation is refreshed.
SPECIFICATION FairSpec
CONSTANTS
  k1 = k1  k2 = k2  c1 = c1  f1 = f1  f2 = f2  a1 = a1  a2 = a2
  NoIntent = NoIntent
  NoApproval = NoApproval
  Keys = {k1, k2}
  Claims = {c1}
  Contents = {f1, f2}
  Intents <- Rivals
  Approvals = {a1, a2}
  Approves <- ApprovesFirst
  Presented = {a1}
  Callers = {n1, n2}
  MaxDrifts = 1
\* Everything may be settled, and every claim refused.
CHECK_DEADLOCK FALSE
INVARIANTS OneOperationPerClaim DecisionsExplain
PROPERTIES PassiveIsLeftAlone ApprovedIsAuthorized
