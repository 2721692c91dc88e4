---------------------------- MODULE StatementRows ----------------------------
(***************************************************************************)
(* Rows of the review board: the scores of lib/reconciliation-matching.ts  *)
(* and buildReviewRows of lib/reconciliation-insights.ts, which puts each  *)
(* line of a statement, its match and the findings about it into one row.  *)
(*                                                                         *)
(* A ledger is a sequence of entries: the day it was posted, an amount, a  *)
(* name, the account and the currency.  Wording, colours and the evidence  *)
(* in words are left out.                                                  *)
(***************************************************************************)
EXTENDS StatementFindings

CONSTANTS
  NoPair, NoAccount, NoCurrency,
  MerchantTable   \* the accounts of the merchants known in advance: [names -> accounts]

AmountScore == 40
DateCloseScore == 35
DatePendingScore == 15
MerchantHighScore == 25
MerchantMediumScore == 10

----------------------------------------------------------------------------
(***************************************************************************)
(* scorePair and matchTransactions.                                        *)
(***************************************************************************)
AmountMatches(x, q) ==
  /\ x.currency = NoCurrency \/ q.currency = NoCurrency \/ x.currency = q.currency
  /\ Abs(x.amount - q.amount) <= 1 \/ 100 * Abs(x.amount - q.amount) <= Abs(x.amount)

\* The words two names share, and the words they have.
WordsShared(x, q) == Cardinality(ToSet(x.name) \cap ToSet(q.name))
WordsBetween(x, q) ==
  IF x.name = <<>> \/ q.name = <<>> THEN 0
  ELSE Cardinality(ToSet(x.name)) + Cardinality(ToSet(q.name))

Reasons(x, q) ==
  LET gap == Abs(x.day - q.posted) IN
    {r \in {"amount", "date", "date (pending)", "merchant", "merchant (partial)"} :
       CASE r = "amount" -> AmountMatches(x, q)
         [] r = "date" -> gap <= 2
         [] r = "date (pending)" -> gap \in 3..5
         [] r = "merchant" -> 20 * WordsShared(x, q) > 6 * WordsBetween(x, q)
         [] r = "merchant (partial)" -> /\ 20 * WordsShared(x, q) <= 6 * WordsBetween(x, q)
                                        /\ 20 * WordsShared(x, q) > 3 * WordsBetween(x, q)}

Points(reason) ==
  CASE reason = "amount" -> AmountScore
    [] reason = "date" -> DateCloseScore
    [] reason = "date (pending)" -> DatePendingScore
    [] reason = "merchant" -> MerchantHighScore
    [] reason = "merchant (partial)" -> MerchantMediumScore

ScorePair(x, q) == MapThenSumSet(Points, Reasons(x, q))

HasEvidenceSignal(reasons) ==
  reasons \cap {"amount", "merchant", "merchant (partial)"} # {}

Level(score) == IF score >= 95 THEN "green" ELSE IF score >= 70 THEN "yellow" ELSE "red"

Stronger(s, ledger, p, r) ==
  LET sp == ScorePair(s[p[1]], ledger[p[2]]) IN
  LET sr == ScorePair(s[r[1]], ledger[r[2]]) IN
    \/ sp > sr
    \/ sp = sr /\ Earlier(p, r)

\* The pairs that are matched, the strongest first.
MatchTransactions(s, ledger) ==
  LET candidates == {p \in (DOMAIN s) \X (DOMAIN ledger) :
                       HasEvidenceSignal(Reasons(s[p[1]], ledger[p[2]]))}
  IN FoldInOrder(LAMBDA taken, p :
        IF \E r \in taken : p[1] = r[1] \/ p[2] = r[2] THEN taken ELSE taken \cup {p},
      {}, LAMBDA p, r : Stronger(s, ledger, p, r), candidates)

\* The match of each line as the board gets it.
MatchOf(x, ledger, q) ==
  [entry |-> q, confidence |-> ScorePair(x, ledger[q]), reasons |-> Reasons(x, ledger[q]),
   level |-> Level(ScorePair(x, ledger[q]))]

MatchesFrom(s, ledger, taken) ==
  [i \in DOMAIN s |->
     IF \E p \in taken : p[1] = i
     THEN MatchOf(s[i], ledger, (CHOOSE p \in taken : p[1] = i)[2]) ELSE NoPair]

Matches(s, ledger) == MatchesFrom(s, ledger, MatchTransactions(s, ledger))

----------------------------------------------------------------------------
(***************************************************************************)
(* The row of a line.                                                      *)
(***************************************************************************)
\* Bug: the panel knows only full credits.
Bug_FullCredit(factor, full, partial) == IF factor = "none" THEN 0 ELSE full

Credit(factor, full, partial) ==
  IF factor = "full" THEN full ELSE IF factor = "partial" THEN partial ELSE 0

\* How a reason names a factor: in full, in part or not at all.
Factor(match, name, partialName) ==
  IF name \in match.reasons THEN "full"
  ELSE IF partialName \in match.reasons THEN "partial" ELSE "none"

FactorBreakdown(match) ==
  <<Credit(Factor(match, "amount", "amount"), AmountScore, AmountScore),
    Credit(Factor(match, "date", "date (pending)"), DateCloseScore, DatePendingScore),
    Credit(Factor(match, "merchant", "merchant (partial)"), MerchantHighScore,
           MerchantMediumScore)>>

DetectBadges(s, i) ==
  (s[i].says \cap {"vat", "payroll", "subscription", "transfer"})
  \cup (IF \E j \in DOMAIN s \ {i} : SameMerchant(s[i], s[j]) THEN {"recurring"} ELSE {})

SectionFor(match, isDuplicate, finding, badges) ==
  IF isDuplicate THEN "duplicate"
  ELSE IF finding # NoFinding /\ finding.kind \in {"reversal", "refund", "split"} THEN finding.kind
  ELSE IF match # NoPair /\ match.level = "green" THEN "ready"
  ELSE IF "transfer" \in badges THEN "transfer"
  ELSE IF "recurring" \in badges THEN "recurring"
  ELSE IF match # NoPair /\ match.level = "yellow" THEN "review"
  ELSE "issue"

\* The accounts that the lines of the same merchant are matched to, as often as
\* they are.
AccountsOf(s, ledger, matches, i) ==
  [a \in {ledger[q].account : q \in DOMAIN ledger} \ {NoAccount} |->
     Cardinality({j \in DOMAIN s : /\ SameMerchant(s[i], s[j]) /\ matches[j] # NoPair
                                   /\ ledger[matches[j].entry].account = a})]

Suggestion(tier, category) == [tier |-> tier, category |-> category]

\* learned[name] is the category learned for a merchant or NoAccount, classified
\* the answers of the model that classifies names.  Of accounts used equally
\* often the first seen is taken; the choice among them is left open.
SuggestCategory(s, ledger, matches, i, learned, classified) ==
  LET known == s[i].name # <<>>
      used == AccountsOf(s, ledger, matches, i)
      own == IF matches[i] = NoPair THEN NoAccount ELSE ledger[matches[i].entry].account
  IN IF known /\ learned[s[i].name] # NoAccount
     THEN Suggestion("learned", learned[s[i].name])
     ELSE IF own # NoAccount THEN Suggestion("matched", own)
     ELSE IF \E a \in DOMAIN used : known /\ used[a] > 0
     THEN Suggestion("matched", CHOOSE a \in DOMAIN used : \A x \in DOMAIN used : used[a] >= used[x])
     ELSE IF s[i].name \in DOMAIN MerchantTable
     THEN Suggestion("table", MerchantTable[s[i].name])
     ELSE IF known /\ classified[s[i].name] # NoAccount
     THEN Suggestion("model", classified[s[i].name])
     ELSE Suggestion("none", NoAccount)

RowConfidence(match, isDuplicate, finding) ==
  IF isDuplicate THEN 99
  ELSE IF finding # NoFinding THEN finding.confidence
  ELSE IF match # NoPair THEN match.confidence ELSE 0

ConfidenceLabel(confidence) ==
  IF confidence >= 98 THEN "exact" ELSE IF confidence >= 90 THEN "strong"
  ELSE IF confidence >= 65 THEN "review" ELSE "insufficient"

Row(match, finding, beside, badges, category) ==
  LET confidence == RowConfidence(match, beside # 0, finding) IN
    [section |-> SectionFor(match, beside # 0, finding, badges), category |-> category,
     confidence |-> confidence, label |-> ConfidenceLabel(confidence),
     finding |-> finding, match |-> match, approvable |-> match # NoPair, beside |-> beside]

RowsFrom(s, ledger, matches, duplicates, found, learned, classified) ==
  [i \in DOMAIN s |->
     Row(matches[i], found[i], IF i \in DOMAIN duplicates THEN duplicates[i] ELSE 0,
         DetectBadges(s, i), SuggestCategory(s, ledger, matches, i, learned, classified))]

BuildReviewRows(s, ledger, matches, learned, classified) ==
  RowsFrom(s, ledger, matches, DetectDuplicates(s), BuildDetections(s), learned, classified)
=============================================================================
