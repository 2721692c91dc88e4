--------------------------- MODULE LedgerComparison ---------------------------
(***************************************************************************)
(* Comparison of two files, a statement and a ledger: compareBankToQb and  *)
(* compareBankToQbWithAI of lib/comparison-engine.ts, with the answers of  *)
(* lib/comparison-ai.ts.                                                   *)
(*                                                                         *)
(* Lines and entries go by their position in their file.  A filter keeps   *)
(* the days and the amounts of a range.                                    *)
(***************************************************************************)
EXTENDS StatementFindings

CONSTANT NoEntry

Base(x, q) ==
  IF q.amount # 0 THEN Abs(q.amount) ELSE IF x.amount # 0 THEN Abs(x.amount) ELSE 1
Difference(x, q) == Abs(x.amount - q.amount)

SameAmount(x, q) == 100 * Difference(x, q) <= Base(x, q)
CloseAmount(x, q) == 20 * Difference(x, q) < Base(x, q)
PossibleAmount(x, q) == 10 * Difference(x, q) <= Base(x, q)
CloseDates(x, q) == Abs(x.day - q.posted) <= 5

\* One name contains the other, word by word.
Within(short, long) ==
  \E i \in 0..(Len(long) - Len(short)) : SubSeq(long, i + 1, i + Len(short)) = short

MerchantMatches(x, q) ==
  x.name # <<>> /\ q.name # <<>> /\ (Within(x.name, q.name) \/ Within(q.name, x.name))

ClassifyPair(x, q) ==
  IF SameAmount(x, q) THEN (IF CloseDates(x, q) THEN "exact" ELSE "fuzzy_date")
  ELSE IF CloseDates(x, q) /\ CloseAmount(x, q) /\ MerchantMatches(x, q)
  THEN "amount_mismatch" ELSE "none"

Rank(type) == CASE type = "exact" -> 3 [] type = "fuzzy_date" -> 2 [] OTHER -> 1

KeptLines(s, filter) ==
  {i \in DOMAIN s : s[i].day \in filter.days /\ s[i].amount \in filter.amounts}
KeptEntries(ledger, filter) ==
  {q \in DOMAIN ledger : ledger[q].posted \in filter.days /\ ledger[q].amount \in filter.amounts}

----------------------------------------------------------------------------
\* The pairs that are taken: the best class first, then the order of the files.
Pairs(s, ledger, lines, entries) ==
  LET Type(p) == ClassifyPair(s[p[1]], ledger[p[2]])
      candidates == {p \in lines \X entries : Type(p) # "none"}
      Before(p, r) ==
        \/ Rank(Type(p)) > Rank(Type(r))
        \/ Rank(Type(p)) = Rank(Type(r)) /\ Earlier(p, r)
  IN FoldInOrder(LAMBDA taken, p :
        IF \E r \in taken : p[1] = r[1] \/ p[2] = r[2] THEN taken ELSE taken \cup {p},
      {}, Before, candidates)

\* Bug: only a line near the date of the entry counts as its duplicate.
Bug_NearbyCopies(s, ledger, taken, free) ==
  FoldInOrder(LAMBDA groups, q :
      LET copies == {i \in free \ UNION {g.lines : g \in groups} :
                       SameAmount(s[i], ledger[q]) /\ CloseDates(s[i], ledger[q])}
      IN IF copies = {} THEN groups ELSE groups \cup {[entry |-> q, lines |-> copies]},
    {}, <, {p[2] : p \in taken})

\* What is left over of the amount of a taken entry duplicates the line that
\* took it, whatever its date.
Duplicates(s, ledger, taken, free) ==
  FoldInOrder(LAMBDA groups, q :
      LET copies == {i \in free \ UNION {g.lines : g \in groups} : SameAmount(s[i], ledger[q])}
      IN IF copies = {} THEN groups ELSE groups \cup {[entry |-> q, lines |-> copies]},
    {}, <, {p[2] : p \in taken})

CompareBankToQb(s, ledger, filter) ==
  LET lines == KeptLines(s, filter)
      entries == KeptEntries(ledger, filter)
      taken == Pairs(s, ledger, lines, entries)
      free == lines \ {p[1] : p \in taken}
      duplicates == Duplicates(s, ledger, taken, free)
      Mismatched(p) == ClassifyPair(s[p[1]], ledger[p[2]]) = "amount_mismatch"
      unmatched == free \ UNION {g.lines : g \in duplicates}
  IN [matches |-> {p \in taken : ~Mismatched(p)},
      mismatches |-> {p \in taken : Mismatched(p)},
      duplicates |-> duplicates,
      unmatched |-> unmatched,
      worthALook |-> {i \in unmatched : \E q \in entries : PossibleAmount(s[i], ledger[q])},
      missing |-> entries \ {p[2] : p \in taken}]

----------------------------------------------------------------------------
(***************************************************************************)
(* The second stage.  The model may name any of the entries left over, or  *)
(* none, for each of the lines left over; ids that it was not given are    *)
(* dropped, and the last answer about a line counts.  Without an answer,   *)
(* or without a key to ask with, nothing changes.                          *)
(***************************************************************************)
Answers(first) == [first.unmatched -> first.missing \cup {NoEntry}]

CompareBankToQbWithAI(first, answer) ==
  LET resolved == {i \in first.unmatched : answer[i] # NoEntry} IN
    [first EXCEPT !.matches = @ \cup {<<i, answer[i]>> : i \in resolved},
                  !.unmatched = @ \ resolved,
                  !.worthALook = @ \ resolved,
                  !.missing = @ \ {answer[i] : i \in resolved}]
=============================================================================
