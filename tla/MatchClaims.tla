----------------------------- MODULE MatchClaims -----------------------------
(***************************************************************************)
(* Claims of bank transactions on accounting transactions: the procedures  *)
(* of migration 013 and the calls of lib/reconciliation-store.ts that use  *)
(* them, with a configured database at the canonical schema.               *)
(*                                                                         *)
(*   row   the row of reconciliation_matches of each bank transaction,     *)
(*         which UNIQUE (bank_transaction_id, statement_id) makes unique   *)
(*   call  the local variables of each call in flight                      *)
(*                                                                         *)
(* A call keeps the ids of the match rows it read.  An id names one row    *)
(* for ever, so the id of a deleted row is dropped from every call, and    *)
(* the bank transaction stands for the id of the row it has.               *)
(*                                                                         *)
(* persist_auto_matches_v1, create_manual_match_v1 and the approval lock   *)
(* their bank transactions, then their accounting transactions, before     *)
(* they read a match, so each is one action.  Unapproval and rejection     *)
(* lock only the row they change.  The confidence of a match is the score  *)
(* of its pair, which no import changes.  supersede_auto_claims_v1 is not  *)
(* called where migration 013 is in force.                                 *)
(***************************************************************************)
EXTENDS Naturals, FiniteSets

CONSTANTS
  Banks,       \* bank transactions
  Qbs,         \* accounting transactions of the period
  Statements,
  StatementOf, \* [Banks -> Statements]
  Score,       \* [Banks -> [Qbs -> 0..100]]: scorePair, 0 when it lacks evidence
  Calls,       \* calls in flight
  NoMatch, NoBank, NoStatement

ASSUME ConstantsAssumption ==
  \* ids are compared, to break ties
  /\ Banks \subseteq Nat /\ Qbs \subseteq Nat
  /\ StatementOf \in [Banks -> Statements]
  /\ Score \in [Banks -> [Qbs -> 0..100]]
  /\ NoBank \notin Banks /\ NoStatement \notin Statements

VARIABLES row, call

vars == <<row, call>>

Match == [qb : Qbs, by : {"auto", "manual"}, approved : BOOLEAN,
          replacedBy : Banks \cup {NoBank}]

ASSUME NoMatchAssumption == NoMatch \notin Match

Steps == {"idle", "scoring", "persisting", "approving", "unapproving", "rejecting"}
Call == [step : Steps, statement : Statements \cup {NoStatement},
         ids : SUBSET Banks, proposal : SUBSET (Banks \X Qbs)]
Idle == [step |-> "idle", statement |-> NoStatement, ids |-> {}, proposal |-> {}]

TypeOK ==
  /\ row \in [Banks -> Match \cup {NoMatch}]
  /\ call \in [Calls -> Call]

Init ==
  /\ row = [b \in Banks |-> NoMatch]
  /\ call = [c \in Calls |-> Idle]

----------------------------------------------------------------------------
(***************************************************************************)
(* The claim rules.  That of supersession is written twice: the matcher    *)
(* asks ShouldSupersede, migration 013 what HoldsAgainst the candidate.    *)
(***************************************************************************)
GreenMinScore == 95
SupersedeMinDelta == 20

Present(b) == row[b] # NoMatch
Superseded(b) == Present(b) /\ row[b].replacedBy # NoBank
Live(b) == Present(b) /\ row[b].replacedBy = NoBank
Approved(b) == Present(b) /\ row[b].approved

LiveAuto(b, q) == Live(b) /\ row[b].by = "auto" /\ row[b].qb = q
LiveManual(b, q) == Live(b) /\ row[b].by = "manual" /\ row[b].qb = q

ScoreOf(b) == Score[b][row[b].qb]

\* May a candidate with this score replace the match of bank transaction h?
ShouldSupersede(h, score) ==
  /\ row[h].by = "auto" /\ ~row[h].approved
  /\ score >= GreenMinScore
  /\ score >= ScoreOf(h) + SupersedeMinDelta

\* Bug: twenty points are not enough.
Bug_MoreThanTwenty(h, score) ==
  row[h].approved \/ score < 95 \/ score <= ScoreOf(h) + 20

\* What keeps the automatic match of h from giving way to this score.
HoldsAgainst(h, score) ==
  row[h].approved \/ score < 95 \/ score < ScoreOf(h) + 20

\* A live match that keeps its accounting transaction out of the matcher.
Reserves(b) ==
  Live(b) /\ (row[b].approved \/ row[b].by = "manual" \/ ScoreOf(b) >= GreenMinScore)

----------------------------------------------------------------------------
(***************************************************************************)
(* matchTransactions.                                                      *)
(***************************************************************************)
Candidates(banks, qbs) == {p \in banks \X qbs : Score[p[1]][p[2]] > 0}

Before(p, r) ==
  \/ Score[p[1]][p[2]] > Score[r[1]][r[2]]
  \/ /\ Score[p[1]][p[2]] = Score[r[1]][r[2]]
     /\ p[1] < r[1] \/ (p[1] = r[1] /\ p[2] < r[2])

Competes(p, r) == p # r /\ (p[1] = r[1] \/ p[2] = r[2])

\* Strongest evidence first: a candidate is taken unless one before it that
\* competes with it was taken.  Exactly one set is so.
Greedy(taken, candidates) ==
  \A p \in candidates :
    p \in taken <=> ~ \E r \in taken : Competes(r, p) /\ Before(r, p)

Assignments(banks, qbs) ==
  {taken \in SUBSET Candidates(banks, qbs) : Greedy(taken, Candidates(banks, qbs))}

----------------------------------------------------------------------------
(***************************************************************************)
(* Calls.                                                                  *)
(***************************************************************************)
At(c, step) == call[c].step = step
Return(c) == call' = [call EXCEPT ![c] = Idle]
Continue(c, step, statement, ids, proposal) ==
  call' = [call EXCEPT ![c] = [step |-> step, statement |-> statement,
                               ids |-> ids, proposal |-> proposal]]

\* The process that runs a call ends; nothing is rolled back.
CallStops(c) == ~At(c, "idle") /\ Return(c) /\ UNCHANGED row

(***************************************************************************)
(* computeAndPersistMatches: two reads of the matches, the proposal, and   *)
(* the procedure that persists what still holds.                           *)
(***************************************************************************)
ReadStatement(c, st) ==
  /\ At(c, "idle")
  /\ Continue(c, "scoring", st, {b \in Banks : StatementOf[b] = st /\ ~Live(b)}, {})
  /\ UNCHANGED row

\* Holders that may not be superseded by what was assigned to them leave the
\* pool, and the assignment is computed once more.
Blocked(taken) ==
  {q \in Qbs : \E b, h \in Banks :
     /\ <<b, q>> \in taken
     /\ LiveAuto(h, q) /\ ~Approved(h) /\ ~Reserves(h)
     /\ ~ShouldSupersede(h, Score[b][q])}

Propose(c) ==
  /\ At(c, "scoring")
  /\ LET eligible == {q \in Qbs : \A b \in Banks : ~(Reserves(b) /\ row[b].qb = q)} IN
       \E first \in Assignments(call[c].ids, eligible) :
       \E taken \in Assignments(call[c].ids, eligible \ Blocked(first)) :
         IF taken = {} THEN Return(c)
         ELSE Continue(c, "persisting", call[c].statement, {}, taken)
  /\ UNCHANGED row

\* Bug: manual matches are left to the unlocked read of the proposal.
Bug_ManualUnchecked(payload) ==
  {p \in payload :
     /\ ~Present(p[1])
     /\ \A h \in Banks : LiveAuto(h, p[2]) => ~HoldsAgainst(h, Score[p[1]][p[2]])}

\* What persist_auto_matches_v1 inserts of a payload.
Accepted(payload) ==
  {p \in payload :
     /\ ~Present(p[1])
     /\ \A h \in Banks : ~LiveManual(h, p[2])
     /\ \A h \in Banks : LiveAuto(h, p[2]) => ~HoldsAgainst(h, Score[p[1]][p[2]])}

NewMatch(q, by) == [qb |-> q, by |-> by, approved |-> FALSE, replacedBy |-> NoBank]

\* A payload names each bank and each accounting transaction once, so the order
\* of its items does not matter.
Persist(c) ==
  /\ At(c, "persisting")
  /\ LET accepted == Accepted(call[c].proposal) IN
       row' = [b \in Banks |->
         IF \E q \in Qbs : <<b, q>> \in accepted
         THEN NewMatch(CHOOSE q \in Qbs : <<b, q>> \in accepted, "auto")
         ELSE IF \E p \in accepted : LiveAuto(b, p[2])
         THEN [row[b] EXCEPT !.replacedBy =
                 (CHOOSE p \in accepted : LiveAuto(b, p[2]))[1]]
         ELSE row[b]]
  /\ Return(c)

\* Bug: the override rewrites whatever match the bank transaction has.
Bug_OverrideAnything(b, q) ==
  /\ \A h \in Banks \ {b} : LiveAuto(h, q) => ~Approved(h)
  /\ row' = [x \in Banks |->
       IF x = b THEN NewMatch(q, "manual")
       ELSE IF LiveAuto(x, q) THEN [row[x] EXCEPT !.replacedBy = b]
       ELSE row[x]]
  /\ UNCHANGED call

(***************************************************************************)
(* createManualMatch: one transaction.  It raises when the match of the    *)
(* bank transaction is approved or superseded, or when the claim of        *)
(* another on the accounting transaction is approved.                      *)
(***************************************************************************)
CreateManual(b, q) ==
  /\ ~Approved(b) /\ ~Superseded(b)
  /\ \A h \in Banks \ {b} : LiveAuto(h, q) => ~Approved(h)
  /\ row' = [x \in Banks |->
       IF x = b THEN (IF LiveManual(b, q) THEN row[b] ELSE NewMatch(q, "manual"))
       ELSE IF LiveAuto(x, q) THEN [row[x] EXCEPT !.replacedBy = b]
       ELSE row[x]]
  /\ UNCHANGED call

(***************************************************************************)
(* approveMatches and unapproveMatches: matches of a statement are read,   *)
(* then changed by one procedure, which looks at each of them again.       *)
(***************************************************************************)
ReadForApproval(c, st, ids) ==
  /\ At(c, "idle")
  /\ ids # {} /\ \A b \in ids : StatementOf[b] = st /\ Live(b)
  /\ Continue(c, "approving", st, ids, {})
  /\ UNCHANGED row

Eligible(b) == Live(b) /\ ~Approved(b)

\* An automatic match beside a manual one on the same accounting transaction.
Protected(b) ==
  row[b].by = "auto" /\ \E m \in Banks : m # b /\ LiveManual(m, row[b].qb)

Approve(c) ==
  /\ At(c, "approving")
  /\ \A b \in call[c].ids : Eligible(b) => ~Protected(b)
  /\ row' = [b \in Banks |-> IF b \in call[c].ids /\ Eligible(b)
                             THEN [row[b] EXCEPT !.approved = TRUE] ELSE row[b]]
  /\ Return(c)

ReadForUnapproval(c, st, ids) ==
  /\ At(c, "idle")
  /\ ids # {} /\ \A b \in ids : StatementOf[b] = st /\ Live(b) /\ Approved(b)
  /\ Continue(c, "unapproving", st, ids, {})
  /\ UNCHANGED row

Unapprove(c) ==
  /\ At(c, "unapproving")
  /\ row' = [b \in Banks |-> IF b \in call[c].ids /\ Approved(b)
                             THEN [row[b] EXCEPT !.approved = FALSE] ELSE row[b]]
  /\ Return(c)

(***************************************************************************)
(* rejectMatch: the row is read, then deleted by its id, whatever it has   *)
(* become, unless reconciliation_match_guard_v1 objects.  The deletion of  *)
(* a row that replaced another is an update of that other row, by ON       *)
(* DELETE SET NULL, and the guard refuses every update of it.  Deleting    *)
(* what another call has deleted meanwhile is no error.                    *)
(***************************************************************************)
ReadForRejection(c, b) ==
  /\ At(c, "idle")
  /\ Live(b) /\ ~Approved(b)
  /\ Continue(c, "rejecting", StatementOf[b], {b}, {})
  /\ UNCHANGED row

\* Bug: no constraint on the rows that point to the deleted one.
Bug_DeleteReplacement(b) == ~Approved(b) /\ ~Superseded(b)

MayDelete(b) ==
  /\ ~Approved(b) /\ ~Superseded(b)
  /\ \A x \in Banks : Superseded(x) => row[x].replacedBy # b

Forget(c, b) ==
  IF At(c, "scoring") THEN call[c] ELSE [call[c] EXCEPT !.ids = @ \ {b}]

Delete(c, b) ==
  /\ At(c, "rejecting") /\ b \in call[c].ids
  /\ MayDelete(b)
  /\ row' = [row EXCEPT ![b] = NoMatch]
  /\ call' = [d \in Calls |-> IF d = c THEN Idle ELSE Forget(d, b)]

DeleteRefused(c, b) ==
  /\ At(c, "rejecting") /\ b \in call[c].ids
  /\ ~MayDelete(b)
  /\ Return(c) /\ UNCHANGED row

DeleteNothing(c) ==
  /\ At(c, "rejecting") /\ call[c].ids = {}
  /\ Return(c) /\ UNCHANGED row

----------------------------------------------------------------------------
Compute(c) == (\E st \in Statements : ReadStatement(c, st)) \/ Propose(c) \/ Persist(c)

Decide(c) ==
  \/ \E st \in Statements, ids \in SUBSET Banks : ReadForApproval(c, st, ids)
  \/ \E st \in Statements, ids \in SUBSET Banks : ReadForUnapproval(c, st, ids)
  \/ \E b \in Banks : ReadForRejection(c, b)
  \/ Approve(c)
  \/ Unapprove(c)
  \/ \E b \in Banks : Delete(c, b) \/ DeleteRefused(c, b)
  \/ DeleteNothing(c)
  \/ CallStops(c)

Next == (\E c \in Calls : Compute(c) \/ Decide(c))
        \/ (\E b \in Banks, q \in Qbs : CreateManual(b, q))

Spec == Init /\ [][Next]_vars

----------------------------------------------------------------------------
(***************************************************************************)
(* Properties.                                                             *)
(***************************************************************************)

\* An accounting transaction has at most one live automatic claim, and none
\* beside a manual match, whichever calls decided on it at once (invariants D1
\* and M of migration 013).
ClaimsExclusive ==
  \A b, x \in Banks : \A q \in Qbs :
    LiveAuto(b, q) => ~LiveManual(x, q) /\ (LiveAuto(x, q) => b = x)

\* The procedure lets nothing stand against a candidate that the matcher's own
\* rule, put to the table of that moment, lets through.
Unopposed(p) ==
  /\ ~Present(p[1])
  /\ \A h \in Banks : ~LiveManual(h, p[2])
  /\ \A h \in Banks : LiveAuto(h, p[2]) => ShouldSupersede(h, Score[p[1]][p[2]])

\* A claim is only ever superseded by a match on the same accounting transaction
\* that comes into force in the same step, and that a human made or that is
\* green and at least 20 points stronger; and of what the matcher proposed, the
\* procedure turns away nothing that its rule would still propose.
\* (reconciliation-matching.ts:54: the SQL mirrors these numbers exactly.)
SupersessionJustified ==
  [][/\ \A b \in Banks : Live(b) /\ Superseded(b)' =>
          \E r \in Banks :
            /\ row'[b].replacedBy = r
            /\ ~row[b].approved /\ row[b].by = "auto"
            /\ Live(r)' /\ row'[r].qb = row[b].qb
            /\ \/ row'[r].by = "manual"
               \/ /\ Score[r][row[b].qb] >= GreenMinScore
                  /\ Score[r][row[b].qb] >= ScoreOf(b) + SupersedeMinDelta
     /\ \A c \in Calls : Persist(c) =>
          \A p \in call[c].proposal :
            Unopposed(p) => Live(p[1])' /\ row'[p[1]].qb = p[2]]_vars

\* A superseded match never changes again, and of an approved one only the
\* approval may be taken back: no call that read it earlier overwrites it.
EvidenceIsKept ==
  [][\A b \in Banks :
       /\ Superseded(b) => row'[b] = row[b]
       /\ Approved(b) => row'[b] \in {row[b], [row[b] EXCEPT !.approved = FALSE]}]_vars

\* Who replaced a superseded match stays on record: the pointers lead to rows
\* that exist, and from row to row to one that is live.
ReplacementIsKept ==
  \A S \in SUBSET {b \in Banks : Superseded(b)} :
    S # {} => \E b \in S : Present(row[b].replacedBy) /\ row[b].replacedBy \notin S

\* Rejection is only refused of a match that was approved or superseded.
RefusalIsExplained ==
  [][\A c \in Calls, b \in Banks :
       DeleteRefused(c, b) => Approved(b) \/ Superseded(b)]_vars
=============================================================================
