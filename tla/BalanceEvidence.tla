--------------------------- MODULE BalanceEvidence ---------------------------
(***************************************************************************)
(* The balance proof: what PairedOfxBalanceEvidenceReader reads out of two *)
(* retained OFX statements, what QuickBooksGeneralLedgerBalanceReader      *)
(* reads out of QuickBooks reports, how migration 029 validates such a     *)
(* side, and how migration 030 decides the two.                            *)
(*                                                                         *)
(* A day is a number.  A money text is Text(n) when it reads as n minor    *)
(* units, Unreadable when exactDecimalToMinor throws (no number, or digits *)
(* below the minor unit), NoText when it is missing.                       *)
(***************************************************************************)
EXTENDS Integers, Sequences, FiniteSets, Folds

CONSTANTS PeriodStart, PeriodEnd   \* the first and last day of the period

NoText == [kind |-> "none", minor |-> 0]
Unreadable == [kind |-> "unreadable", minor |-> 0]
Text(n) == [kind |-> "decimal", minor |-> n]
Readable(text) == text.kind = "decimal"
InPeriod(day) == day \in PeriodStart..PeriodEnd

Money == [kind : {"none", "unreadable", "decimal"}, minor : Int]
OfxRow == [fitId : STRING, day : Int, amount : Money]

\* The sum of the amounts of the elements of rows at the indices of ks.
SumAt(rows, ks) == MapThenFoldSet(+, 0, LAMBDA k : rows[k].amount.minor,
                                  LAMBDA S : CHOOSE k \in S : TRUE, ks)

----------------------------------------------------------------------------
(***************************************************************************)
(* The source side.  A statement has account, currency, start, end, asOf,  *)
(* balance and rows of [fitId, day, amount].                               *)
(***************************************************************************)
\* The errors of the reader: another account or currency, or a balance that
\* does not read.
OfxRefused(prior, current, scope) ==
  \/ scope.sourceAccount \notin {prior.account} \cap {current.account}
  \/ scope.currency \notin {prior.currency} \cap {current.currency}
  \/ ~Readable(prior.balance) \/ ~Readable(current.balance)

OfxRejected(rows) ==
  {k \in DOMAIN rows : rows[k].fitId = "" \/ rows[k].amount = NoText \/ ~InPeriod(rows[k].day)}

\* Rows whose FITID an earlier row has; an unreadable row keeps its FITID.
OfxRepeated(rows) ==
  {k \in DOMAIN rows \ OfxRejected(rows) :
     \E j \in 1..(k - 1) : j \notin OfxRejected(rows) /\ rows[j].fitId = rows[k].fitId}

OfxMembers(rows) ==
  {k \in DOMAIN rows \ (OfxRejected(rows) \cup OfxRepeated(rows)) : Readable(rows[k].amount)}

OfxCutoffUnproven(prior, current) ==
  \/ {prior.end, prior.asOf} # {PeriodStart - 1}
  \/ current.start # PeriodStart
  \/ {current.end, current.asOf} # {PeriodEnd}

\* Bug: a repeated FITID is skipped but not counted.
Bug_SkipRepeated(prior, current, scope) ==
  LET rows == current.rows
      members == OfxMembers(rows)
      rejected == Cardinality((DOMAIN rows \ members) \ OfxRepeated(rows))
      opening == scope.sourceSign * prior.balance.minor
      closing == scope.sourceSign * current.balance.minor
      movement == scope.sourceSign * SumAt(rows, members)
      broken == opening + movement # closing
      cutoff == OfxCutoffUnproven(prior, current) IN
  [opening |-> opening, closing |-> closing, movement |-> movement,
   returned |-> Cardinality(members) + rejected, accepted |-> Cardinality(members),
   rejected |-> rejected, duplicates |-> 0,
   boundarySeen |-> ~cutoff,
   covered |-> (~cutoff /\ rejected = 0) \/ (broken /\ rejected = 0)]

\* Complete, or conflicted: every row was read, and they do not add up.
OfxEvidence(prior, current, scope) ==
  LET rows == current.rows
      members == OfxMembers(rows)
      repeated == Cardinality(OfxRepeated(rows))
      rejected == Cardinality(DOMAIN rows) - Cardinality(members) - repeated
      opening == scope.sourceSign * prior.balance.minor
      closing == scope.sourceSign * current.balance.minor
      movement == scope.sourceSign * SumAt(rows, members)
      broken == opening + movement # closing
      cutoff == OfxCutoffUnproven(prior, current) IN
  [opening |-> opening, closing |-> closing, movement |-> movement,
   returned |-> Len(rows), accepted |-> Cardinality(members), rejected |-> rejected,
   duplicates |-> repeated,
   boundarySeen |-> ~cutoff,
   covered |-> rejected = 0 /\ repeated = 0 /\ (broken \/ ~cutoff)]

----------------------------------------------------------------------------
(***************************************************************************)
(* The ledger side.  The general ledger report has header and columns      *)
(* (proven or not), sections (how many carry the account) and rows; a      *)
(* trial balance has header, matches (how many rows carry the account),    *)
(* debit and credit.                                                       *)
(***************************************************************************)
\* trialBalanceAmount throws.
TrialBalanceRefused(tb) ==
  \/ ~tb.header \/ tb.matches # 1
  \/ tb.debit # NoText /\ tb.credit # NoText
  \/ Unreadable \in {tb.debit, tb.credit}

\* A missing amount is zero.
TrialBalanceMinor(tb) == IF tb.credit # NoText THEN -tb.credit.minor ELSE tb.debit.minor

\* Rows without any cell value, as the header of a nested section is, are
\* passed over; so is the beginning balance.
Considered(gl) == {k \in DOMAIN gl.rows : gl.rows[k].cells}

LedgerMembers(gl) ==
  {k \in Considered(gl) : /\ gl.columns
                          /\ InPeriod(gl.rows[k].day)
                          /\ Readable(gl.rows[k].amount)}

\* Complete, or conflicted where every row was read.
LedgerEvidence(gl, openingTB, closingTB, scope) ==
  LET members == LedgerMembers(gl)
      rejected == Cardinality(Considered(gl)) - Cardinality(members)
      opening == scope.ledgerSign * TrialBalanceMinor(openingTB)
      closing == scope.ledgerSign * TrialBalanceMinor(closingTB)
      movement == scope.ledgerSign * SumAt(gl.rows, members)
      unproven == ~gl.header \/ ~gl.columns \/ gl.sections # 1 IN
  [opening |-> opening, closing |-> closing, movement |-> movement,
   returned |-> Cardinality(Considered(gl)), accepted |-> Cardinality(members),
   rejected |-> rejected, duplicates |-> 0,
   boundarySeen |-> gl.header,
   covered |-> ~unproven /\ rejected = 0]

----------------------------------------------------------------------------
(***************************************************************************)
(* balance_movement_set_validation_v1, and the decision of                 *)
(* balance_reconciliation_revision_validate_v1 for the empty selections of *)
(* outstanding items a shadow run makes.                                   *)
(***************************************************************************)
SideValidation(e) ==
  IF ~e.covered THEN "COVERAGE_INCOMPLETE"
  ELSE IF ~e.boundarySeen THEN "TERMINAL_BOUNDARY_NOT_SEEN"
  ELSE IF e.rejected # 0 THEN "RETRIEVAL_ERRORS"
  ELSE IF e.duplicates # 0 THEN "DUPLICATE_IDENTITIES_REPORTED"
  ELSE IF e.returned # e.accepted + e.rejected + e.duplicates THEN "RETURNED_COUNT_MISMATCH"
  ELSE IF e.opening + e.movement # e.closing THEN "BALANCE_ROLLFORWARD_BROKEN"
  ELSE "OK"

Incomplete == {"COVERAGE_INCOMPLETE", "TERMINAL_BOUNDARY_NOT_SEEN", "RETRIEVAL_ERRORS"}

BalanceVerdict(source, ledger) ==
  LET codes == {SideValidation(source), SideValidation(ledger)} IN
  IF ~(codes \subseteq Incomplete \cup {"OK"}) THEN "FAILED"
  ELSE IF \/ codes # {"OK"}
          \/ source.opening # ledger.opening \/ source.closing # ledger.closing
       THEN "REVIEW" ELSE "RECONCILED"
=============================================================================
