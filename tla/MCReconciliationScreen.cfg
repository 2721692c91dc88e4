\* Two statements, three bank lines, two accounting transactions, two calls.
SPECIFICATION ScreenSpec
CONSTANTS
  Banks = {1, 2, 3}
  Qbs = {1, 2}
  Statements = {"march", "april"}
  StatementOf <- TwoStatements
  Score <- Scores
  Calls = {c1, c2}
  NoMatch = NoMatch
  NoBank = NoBank
  NoStatement = NoStatement
  PageStatement = "march"
  MaxClicks = 3
  MaxOthers = 2
CHECK_DEADLOCK FALSE
SYMMETRY Symmetric
INVARIANTS ClaimsExclusive ReplacementIsKept ReconciledWasApproved
PROPERTIES SupersessionJustified EvidenceIsKept
