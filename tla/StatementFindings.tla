-------------------------- MODULE StatementFindings --------------------------
(***************************************************************************)
(* Patterns of a bank statement: the detectors of                          *)
(* lib/reconciliation-detectors.ts and buildDetections of                  *)
(* lib/reconciliation-insights.ts, which keeps one finding for each line.  *)
(*                                                                         *)
(* A statement is the sequence of its lines and a line goes by its         *)
(* position.  A line has the day it happened, an amount in pence (positive *)
(* when money goes out), the name of the merchant, the reference its text  *)
(* quotes and the set of the words of its text that the patterns look for. *)
(* Names that differ only in punctuation are one name here.                *)
(***************************************************************************)
EXTENDS MerchantNames, FiniteSetsExt

CONSTANT NoReference

ReversalWindowDays == 30
RefundWindowDays == 90

Abs(x) == IF x < 0 THEN -x ELSE x
DaysApart(x, y) == Abs(x.day - y.day)
IsTransferLike(x) == "transfer" \in x.says
LooksLikeRefund(x) == "refund" \in x.says
SameMerchant(x, y) == x.name # <<>> /\ x.name = y.name
SharedReference(x, y) == x.ref # NoReference /\ x.ref = y.ref

\* Folds the members of S in their order: choose gives the last of them.
FoldInOrder(op(_, _), base, Before(_, _), S) ==
  MapThenFoldSet(LAMBDA x, result : op(result, x), base, LAMBDA x : x,
                 LAMBDA T : CHOOSE x \in T : \A y \in T : y = x \/ Before(y, x), S)

\* The order of two nested loops over positions.
Earlier(p, r) == p[1] < r[1] \/ (p[1] = r[1] /\ p[2] < r[2])

----------------------------------------------------------------------------
Twins(s, i) ==
  {j \in DOMAIN s \ {i} :
     SameMerchant(s[i], s[j]) /\ s[i].amount = s[j].amount /\ DaysApart(s[i], s[j]) <= 1}

\* Each line of a duplicate charge with the one it is shown beside.
DetectDuplicates(s) == [i \in {x \in DOMAIN s : Twins(s, x) # {}} |-> Max(Twins(s, i))]

CanReverse(x, y) ==
  /\ x.amount # 0 /\ x.amount + y.amount = 0
  /\ ~IsTransferLike(x) /\ ~IsTransferLike(y)
  /\ DaysApart(x, y) <= ReversalWindowDays
  /\ SharedReference(x, y) \/ SameMerchant(x, y)

\* The first pairs that cancel out, each line in one of them.
DetectReversals(s) ==
  FoldInOrder(LAMBDA pairs, p :
      IF CanReverse(s[p[1]], s[p[2]]) /\ {p[1], p[2]} \cap UNION pairs = {}
      THEN pairs \cup {{p[1], p[2]}} ELSE pairs,
    {}, Earlier, {p \in (DOMAIN s) \X (DOMAIN s) : p[1] < p[2]})

RefundThreshold(credit) == IF LooksLikeRefund(credit) THEN 270 ELSE MerchantLinkThreshold

\* Each profile is made once, and each pair compared once for each threshold.
Resemblances ==
  [z \in (Names \cup {<<>>}) \X (Names \cup {<<>>}) \X {270, MerchantLinkThreshold} |->
     ProfileSimilarityAtLeast(MerchantProfile(z[1]), MerchantProfile(z[2]), z[3])]

Resemblance(x, y, floor) == Resemblances[<<x.name, y.name, floor>>]

\* The charges that a credit may give back.
Refundable(s, credit, charges) ==
  {i \in charges :
     /\ s[i].amount = -s[credit].amount
     /\ s[credit].day - s[i].day \in 0..RefundWindowDays
     /\ Resemblance(s[i], s[credit], RefundThreshold(s[credit]))
        >= RefundThreshold(s[credit])}

Similarity(s, i, j, floor) == Resemblance(s[i], s[j], floor)

\* The most similar of some lines, the first of them where several are.
MostSimilar(s, i, others, floor) ==
  CHOOSE j \in others : \A k \in others :
    \/ Similarity(s, j, i, floor) > Similarity(s, k, i, floor)
    \/ Similarity(s, j, i, floor) = Similarity(s, k, i, floor) /\ j <= k

\* Credits in the order of the statement take the charge they look like most.
DetectRefunds(s, reversed) ==
  LET open == DOMAIN s \ reversed
      charges == {i \in open : s[i].amount > 0}
  IN FoldInOrder(LAMBDA pairs, credit :
       LET possible == Refundable(s, credit, charges \ UNION pairs) IN
         IF possible = {} THEN pairs
         ELSE pairs \cup
              {{credit, MostSimilar(s, credit, possible, RefundThreshold(s[credit]))}},
       {}, <, {i \in open : s[i].amount < 0})

\* Lines that quote one reference and all go the same way.
DetectSplitGroups(s, excluded) ==
  {g \in {{i \in DOMAIN s \ excluded : s[i].ref = s[r].ref}
            : r \in {x \in DOMAIN s : s[x].ref # NoReference}} :
     /\ Cardinality(g) >= 2
     /\ (\A i \in g : s[i].amount > 0) \/ (\A i \in g : s[i].amount < 0)}

Related(s, i) ==
  {j \in DOMAIN s :
     /\ s[i].name # <<>> /\ s[j].name # <<>> /\ s[i].name # s[j].name
     /\ Similarity(s, i, j, MerchantLinkThreshold) >= MerchantLinkThreshold}

DetectMerchantLinks(s) ==
  [i \in {x \in DOMAIN s : Related(s, x) # {}} |->
     MostSimilar(s, i, Related(s, i), MerchantLinkThreshold)]

----------------------------------------------------------------------------
(***************************************************************************)
(* One finding for each line: a reversal before a refund, a refund before  *)
(* a split, and a resemblance last.                                        *)
(***************************************************************************)
Finding(kind, related, confidence) ==
  [kind |-> kind, related |-> related, confidence |-> confidence]
NoFinding == Finding("none", {}, 0)

ReversalFinding(s, pair, i) ==
  LET other == CHOOSE j \in pair : j # i IN
    Finding("reversal", {other}, IF SharedReference(s[i], s[other]) THEN 95 ELSE 88)

RefundFinding(s, pair, i) ==
  LET other == CHOOSE j \in pair : j # i
      credit == CHOOSE j \in pair : s[j].amount < 0
      similarity == Similarity(s, CHOOSE j \in pair : j # credit, credit,
                               RefundThreshold(s[credit]))
  IN Finding("refund", {other}, IF similarity >= MerchantStrongThreshold THEN 90 ELSE 82)

SplitFinding(group, i) == Finding("split", group \ {i}, 92)

MerchantFinding(s, i, other) ==
  Finding("merchant", {other},
          (Similarity(s, i, other, MerchantLinkThreshold) + 3) \div 6)

\* Bug: a reversal does not take its lines out of the search for refunds.
Bug_RefundsOfEverything(s) == DetectRefunds(s, {})

RefundsBesideReversals(s) == DetectRefunds(s, UNION DetectReversals(s))

PartOf(found, i) == CHOOSE p \in found : i \in p

DetectionsFrom(s, reversals, refunds, groups, links) ==
  [i \in DOMAIN s |->
     IF i \in UNION reversals THEN ReversalFinding(s, PartOf(reversals, i), i)
     ELSE IF i \in UNION refunds THEN RefundFinding(s, PartOf(refunds, i), i)
     ELSE IF i \in UNION groups THEN SplitFinding(PartOf(groups, i), i)
     ELSE IF i \in DOMAIN links THEN MerchantFinding(s, i, links[i])
     ELSE NoFinding]

BuildDetections(s) ==
  DetectionsFrom(s, DetectReversals(s), RefundsBesideReversals(s),
                 DetectSplitGroups(s, UNION DetectReversals(s)), DetectMerchantLinks(s))
=============================================================================
