\* Two bank lines of two statements, one accounting transaction, one call.
SPECIFICATION Spec
CONSTANTS
  Banks = {1, 3}
  Qbs = {1}
  Statements = {"march", "april"}
  StatementOf <- FirstOfEach
  Score <- FirstScores
  Calls = {c1}
  NoMatch = NoMatch
  NoBank = NoBank
  NoStatement = NoStatement
PROPERTY RefusalIsExplained
