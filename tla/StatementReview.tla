--------------------------- MODULE StatementReview ---------------------------
(***************************************************************************)
(* The pages about a bank statement: the review board, with what was       *)
(* learned about merchants, and the comparison of two files.               *)
(*                                                                         *)
(*   shown  what the last request showed: the rows of a board, or the      *)
(*          result of a comparison, with the files it was made from        *)
(*                                                                         *)
(* A case is a statement and a ledger.  Both requests read their files at  *)
(* once and write nothing.                                                 *)
(***************************************************************************)
EXTENDS StatementRows, LedgerComparison, MerchantPreferences

CONSTANTS
  Cases,       \* [lines, ledger]
  LearnedCases,  \* those looked at when something was learned
  Merchant,    \* the name whose preference is modelled
  Classified,  \* [Names -> categories]: what the model says of a name
  Filters,     \* [days, amounts]
  NothingShown

\* What the two files are parsed into.
LineOK(x) == {x.day, x.amount} \subseteq Int /\ x.name \in Names \cup {<<>>}
EntryOK(q) == {q.posted, q.amount} \subseteq Int /\ q.name \in Seq(Seq(STRING))

ASSUME StatementAssumption ==
  /\ Names \subseteq Seq(Seq(STRING)) \ {<<>>} /\ Merchant \in Names
  /\ NoCategory = NoAccount
  /\ LearnedCases \subseteq Cases
  /\ \A c \in Cases :
       /\ c.lines \in Seq(ToSet(c.lines)) /\ \A x \in ToSet(c.lines) : LineOK(x)
       /\ c.ledger \in Seq(ToSet(c.ledger)) /\ \A q \in ToSet(c.ledger) : EntryOK(q)

VARIABLE shown

reviewVars == <<preferenceVars, shown>>

Board(c, rows) == [kind |-> "board", files |-> c, rows |-> rows]
Comparison(c, filter, first, result) ==
  [kind |-> "comparison", files |-> c, filter |-> filter, first |-> first, result |-> result]

ReviewInit == PreferenceInit /\ shown = NothingShown

\* A bound: what was learned changes nothing about a board but the category of
\* Merchant, so once anything is decided only LearnedCases are looked at, and
\* only when something was learned.
NothingDecided ==
  /\ preference = NoPreference /\ \A c \in Categories : decided[c] = 0
  /\ \A p \in Learners : IsAt(p, "idle")
LookedAt ==
  IF NothingDecided THEN Cases ELSE IF Learned # NoCategory THEN LearnedCases ELSE {}

ShowBoard(c) ==
  /\ shown = NothingShown
  /\ shown' = Board(c, BuildReviewRows(c.lines, c.ledger, Matches(c.lines, c.ledger),
                        [n \in Names |-> IF n = Merchant THEN Learned ELSE NoAccount],
                        Classified))
  /\ UNCHANGED preferenceVars

Compare(c, filter) ==
  /\ shown = NothingShown
  /\ LET first == CompareBankToQb(c.lines, c.ledger, filter) IN
       \E answer \in Answers(first) :
         shown' = Comparison(c, filter, first, CompareBankToQbWithAI(first, answer))
  /\ UNCHANGED preferenceVars

Leave == shown # NothingShown /\ shown' = NothingShown /\ UNCHANGED preferenceVars

ReviewNext ==
  \/ PreferenceNext /\ shown' = NothingShown
  \/ \E c \in LookedAt : ShowBoard(c)
  \/ \E c \in LookedAt, filter \in Filters : NothingDecided /\ Compare(c, filter)
  \/ Leave

ReviewSpec == ReviewInit /\ [][ReviewNext]_reviewVars

----------------------------------------------------------------------------
(***************************************************************************)
(* Properties.                                                             *)
(***************************************************************************)
IsBoard == shown # NothingShown /\ shown.kind = "board"
IsComparison == shown # NothingShown /\ shown.kind = "comparison"

\* A reversal or a refund is shown to both of its lines, as the same finding and
\* each naming the other: no line is explained by two events, whatever other
\* lines of that amount the statement has.
PatternsExplainOnce ==
  IsBoard => \A i \in DOMAIN shown.rows :
    LET found == shown.rows[i].finding IN
      found # NoFinding /\ found.kind \in {"reversal", "refund"} =>
        \E j \in found.related :
          /\ found.related = {j}
          /\ shown.files.lines[i].amount + shown.files.lines[j].amount = 0
          /\ shown.rows[j].finding # NoFinding
          /\ shown.rows[j].finding.kind = found.kind
          /\ shown.rows[j].finding.related = {i}

\* The factors that the panel shows for an automatic match add up to the
\* confidence the matcher gave it, partial credits included.
PanelAddsUp ==
  IsBoard => \A i \in DOMAIN shown.rows :
    LET match == shown.rows[i].match IN
      match # NoPair => FoldLeft(+, 0, FactorBreakdown(match)) = match.confidence

\* The short cuts of the comparison of names change no outcome: for the floors
\* the detectors use, a result below the floor is only ever given to names that
\* are below it, and any other result is exact.
EarlyExitIsExact ==
  IsBoard => \A i, j \in DOMAIN shown.files.lines : \A floor \in {270, MerchantLinkThreshold} :
    LET p == MerchantProfile(shown.files.lines[i].name)
        r == MerchantProfile(shown.files.lines[j].name)
        quick == Resemblance(shown.files.lines[i], shown.files.lines[j], floor)
    IN IF ExactSimilarity(p, r) >= floor THEN quick = ExactSimilarity(p, r) ELSE quick < floor

\* A comparison loses nothing and counts nothing twice: each line of the range
\* is in exactly one of its lists, each entry is either taken or missing, and a
\* line that is listed as unmatched has the amount of no entry at all, because
\* one that had would have taken it or been listed as a duplicate of its taker.
ComparisonIsComplete ==
  IsComparison =>
    LET lines == KeptLines(shown.files.lines, shown.filter)
        entries == KeptEntries(shown.files.ledger, shown.filter)
        Places(r, i) == Cardinality({p \in r.matches \cup r.mismatches : p[1] = i})
                        + Cardinality({g \in r.duplicates : i \in g.lines})
                        + (IF i \in r.unmatched THEN 1 ELSE 0)
        Takers(r, q) == Cardinality({p \in r.matches \cup r.mismatches : p[2] = q})
    IN /\ \A i \in lines : Places(shown.first, i) = 1 /\ Places(shown.result, i) = 1
       /\ \A q \in entries :
            /\ Takers(shown.first, q) = (IF q \in shown.first.missing THEN 0 ELSE 1)
            /\ (Takers(shown.result, q) = 0) = (q \in shown.result.missing)
       /\ \A i \in shown.first.unmatched, q \in entries :
            ~SameAmount(shown.files.lines[i], shown.files.ledger[q])

\* A merchant's count never exceeds the decisions for its category, and what the
\* board calls learned was decided three times or set as default, also when
\* several requests read the preference before either writes it.
LearnedIsEarned ==
  /\ preference # NoPreference => preference.count <= Earned(preference.category)
  /\ IsBoard => \A i \in DOMAIN shown.rows :
       shown.rows[i].category.tier = "learned" =>
         Earned(shown.rows[i].category.category) >= LearnedCount
=============================================================================
