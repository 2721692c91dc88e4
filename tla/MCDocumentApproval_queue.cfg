\* Two uploads, of the same bytes or not, read as two versions of one invoice;
\* three approvals, two at a time.
SPECIFICATION Spec
CONSTANTS
  f1 = f1  f2 = f2  f3 = f3  Acme = Acme
  NoIdentity = NoIdentity
  NoRow = NoRow
  NoFacts = NoFacts
  NoLink = NoLink
  Pendings = {p1, p2}
  Contents = {c1, c2}
  Facts = {f1, f2}
  Identity <- Both
  Clerks = {k1, k2}
  MaxInvoices = 2
  MaxCalls = 3
CHECK_DEADLOCK FALSE
SYMMETRY Symmetric
INVARIANTS EvidenceStands InvoiceIsConfirmed SecondDocumentOverlaps DuplicatesOverlap
