\* Two approvals of one upload; one reading has no number to match.
SPECIFICATION Spec
CONSTANTS
  f1 = f1  f2 = f2  f3 = f3  Acme = Acme
  NoIdentity = NoIdentity
  NoRow = NoRow
  NoFacts = NoFacts
  NoLink = NoLink
  Pendings = {p1, p2}
  Contents = {c1}
  Facts = {f1, f3}
  Identity <- Mixed
  Clerks = {k1, k2}
  MaxInvoices = 1
  MaxCalls = 2
CHECK_DEADLOCK FALSE
PROPERTY ResolvedStays
