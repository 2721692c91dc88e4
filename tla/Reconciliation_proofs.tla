------------------------- MODULE Reconciliation_proofs -------------------------
(***************************************************************************)
(* The safety properties of MatchClaims hold for any bank and accounting   *)
(* transactions, any scores and any number of calls in flight. The         *)
(* composition with the pages takes only steps of MatchClaims, so its      *)
(* theorems hold of it, and a statement is reported as reconciled only if  *)
(* it was, for any number of pages and requests.                           *)
(*                                                                         *)
(* The second part is about the pages of StatementReview: what a board or  *)
(* a comparison shows is right for any two files, names of any length and  *)
(* any number of requests that learn. The folds of the model are reasoned  *)
(* about by the smallest set of members for which a claim fails.           *)
(***************************************************************************)
EXTENDS ReconciliationScreen, StatementReview, FiniteSetTheorems, SequenceTheorems,
        WellFoundedInduction, TLAPS

\* A proposal names each bank and each accounting transaction once.
ProposalsMatch ==
  \A c \in Calls : \A p, r \in call[c].proposal : ~Competes(p, r)

\* What is superseded was not approved, and cannot be approved any more.
SupersededUnapproved == \A b \in Banks : Superseded(b) => ~Approved(b)

IInv ==
  /\ TypeOK
  /\ ProposalsMatch
  /\ SupersededUnapproved
  /\ ClaimsExclusive
  /\ ReplacementIsKept

----------------------------------------------------------------------------
(***************************************************************************)
(* What the matcher proposes is a matching.                                *)
(***************************************************************************)

\* Of two candidates that compete, one is before the other.
LEMMA BeforeTotal ==
  ASSUME NEW p \in Banks \X Qbs, NEW r \in Banks \X Qbs, Competes(p, r)
  PROVE  Before(p, r) \/ Before(r, p)
<1>1. /\ p[1] \in Banks /\ p[2] \in Qbs /\ r[1] \in Banks /\ r[2] \in Qbs
      /\ p = <<p[1], p[2]>> /\ r = <<r[1], r[2]>>
  OBVIOUS
<1>2. p[1] \in Nat /\ r[1] \in Nat /\ p[2] \in Nat /\ r[2] \in Nat
  BY <1>1, ConstantsAssumption
<1>3. Score[p[1]] \in [Qbs -> 0..100] /\ Score[r[1]] \in [Qbs -> 0..100]
  BY <1>1, ConstantsAssumption
<1>4. Score[p[1]][p[2]] \in 0..100 /\ Score[r[1]][r[2]] \in 0..100
  BY <1>1, <1>3
<1>5. p[1] # r[1] \/ p[2] # r[2]
  BY <1>1 DEF Competes
<1>6. CASE Score[p[1]][p[2]] # Score[r[1]][r[2]]
  <2>1. ASSUME NEW m \in 0..100, NEW n \in 0..100, m # n  PROVE m > n \/ n > m
    BY <2>1
  <2>2. \/ Score[p[1]][p[2]] > Score[r[1]][r[2]]
        \/ Score[r[1]][r[2]] > Score[p[1]][p[2]]
    BY Zenon, <1>4, <1>6, <2>1
  <2> QED BY Zenon, <2>2 DEF Before
<1>7. CASE Score[p[1]][p[2]] = Score[r[1]][r[2]]
  BY <1>2, <1>5, <1>7 DEF Before
<1> QED BY <1>6, <1>7

LEMMA AssignmentMatches ==
  ASSUME NEW banks \in SUBSET Banks, NEW qbs \in SUBSET Qbs,
         NEW taken \in Assignments(banks, qbs),
         NEW p \in taken, NEW r \in taken
  PROVE  ~Competes(p, r)
<1>1. p \in Banks \X Qbs /\ r \in Banks \X Qbs
  BY DEF Assignments, Candidates
<1>2. p \in Candidates(banks, qbs) /\ r \in Candidates(banks, qbs)
  BY DEF Assignments
<1>3. Greedy(taken, Candidates(banks, qbs))
  BY DEF Assignments
<1>4. Competes(p, r) => Competes(r, p)
  BY DEF Competes
<1> QED BY <1>1, <1>2, <1>3, <1>4, BeforeTotal DEF Greedy

----------------------------------------------------------------------------
(***************************************************************************)
(* Types.                                                                  *)
(***************************************************************************)
LEMMA NewMatchType ==
  ASSUME NEW q \in Qbs, NEW by \in {"auto", "manual"}
  PROVE  NewMatch(q, by) \in Match
BY DEF NewMatch, Match

\* What persisting does to the row of a bank transaction.
LEMMA PersistRows ==
  ASSUME TypeOK, ProposalsMatch, NEW c \in Calls, Persist(c), NEW b \in Banks
  PROVE  \/ \E q \in Qbs : /\ <<b, q>> \in Accepted(call[c].proposal)
                           /\ row'[b] = NewMatch(q, "auto")
         \/ \E p \in Accepted(call[c].proposal) :
              LiveAuto(b, p[2]) /\ row'[b] = [row[b] EXCEPT !.replacedBy = p[1]]
         \/ /\ row'[b] = row[b]
            /\ \A p \in Accepted(call[c].proposal) : p[1] # b /\ ~LiveAuto(b, p[2])
<1> DEFINE accepted == Accepted(call[c].proposal)
<1>1. accepted \subseteq Banks \X Qbs
  BY DEF Accepted, TypeOK, Call
<1>2. row'[b] =
        IF \E q \in Qbs : <<b, q>> \in accepted
        THEN NewMatch(CHOOSE q \in Qbs : <<b, q>> \in accepted, "auto")
        ELSE IF \E p \in accepted : LiveAuto(b, p[2])
        THEN [row[b] EXCEPT !.replacedBy =
                (CHOOSE p \in accepted : LiveAuto(b, p[2]))[1]]
        ELSE row[b]
  BY DEF Persist
<1> HIDE DEF accepted
<1>3. CASE \E q \in Qbs : <<b, q>> \in accepted
  BY Zenon, <1>2, <1>3 DEF accepted
<1>4. CASE /\ ~ \E q \in Qbs : <<b, q>> \in accepted
           /\ \E p \in accepted : LiveAuto(b, p[2])
  BY Zenon, <1>2, <1>4 DEF accepted
<1>5. CASE /\ ~ \E q \in Qbs : <<b, q>> \in accepted
           /\ ~ \E p \in accepted : LiveAuto(b, p[2])
  <2>1. row'[b] = row[b]
    BY <1>2, <1>5
  <2>2. ASSUME NEW p \in accepted  PROVE p[1] # b
    BY <1>1, <1>5
  <2> QED BY <2>1, <2>2, <1>5 DEF accepted
<1> QED BY <1>3, <1>4, <1>5

LEMMA TypeInit == Init => TypeOK
BY ConstantsAssumption, NoMatchAssumption DEF Init, TypeOK, Match, Call, Idle, Steps

LEMMA CallStep ==
  ASSUME TypeOK, NEW c \in Calls, Return(c)  PROVE call' \in [Calls -> Call]
BY DEF Return, TypeOK, Idle, Call, Steps

LEMMA ContinueStep ==
  ASSUME TypeOK, NEW c \in Calls, NEW step \in Steps, NEW st \in Statements,
         NEW ids \in SUBSET Banks, NEW proposal \in SUBSET (Banks \X Qbs),
         Continue(c, step, st, ids, proposal)
  PROVE  call' \in [Calls -> Call]
BY DEF Continue, TypeOK, Call

----------------------------------------------------------------------------
(***************************************************************************)
(* What a step may do to one row.  Everything but the exclusivity of       *)
(* claims follows from these cases alone.                                  *)
(***************************************************************************)

\* The match of r takes the place of that of b.
TakesOver(b, r) ==
  /\ row'[b] = [row[b] EXCEPT !.replacedBy = r]
  /\ Live(r)' /\ row'[r].qb = row[b].qb
  /\ \/ row'[r].by = "manual"
     \/ /\ Score[r][row[b].qb] >= GreenMinScore
        /\ Score[r][row[b].qb] >= ScoreOf(b) + SupersedeMinDelta

Inserted(b) == ~Present(b) /\ \E q \in Qbs : row'[b] = NewMatch(q, "auto")
Written(b) ==
  ~Approved(b) /\ ~Superseded(b) /\ \E q \in Qbs : row'[b] = NewMatch(q, "manual")
Replaced(b) ==
  /\ Live(b) /\ row[b].by = "auto" /\ ~Approved(b)
  /\ \E r \in Banks : TakesOver(b, r)
Signed(b) == Live(b) /\ ~Approved(b) /\ row'[b] = [row[b] EXCEPT !.approved = TRUE]
Unsigned(b) == Approved(b) /\ row'[b] = [row[b] EXCEPT !.approved = FALSE]
Removed(b) == MayDelete(b) /\ row'[b] = NoMatch

RowStep(b) ==
  \/ row'[b] = row[b]
  \/ Inserted(b)
  \/ Written(b)
  \/ Replaced(b)
  \/ Signed(b)
  \/ Unsigned(b)
  \/ Removed(b)

LEMMA NewMatchIsLive ==
  ASSUME NEW q \in Qbs, NEW by \in {"auto", "manual"}, NEW r \in Banks,
         row'[r] = NewMatch(q, by)
  PROVE  Live(r)' /\ row'[r].qb = q /\ row'[r].by = by /\ ~Approved(r)'
<1>1. NewMatch(q, by) \in Match
  BY NewMatchType
<1>2. row'[r] # NoMatch
  BY <1>1, NoMatchAssumption
<1>3. /\ row'[r].qb = q /\ row'[r].by = by
      /\ row'[r].approved = FALSE /\ row'[r].replacedBy = NoBank
  BY DEF NewMatch
<1> QED BY <1>2, <1>3 DEF Live, Present, Approved

LEMMA ScoreType == ASSUME NEW b \in Banks, NEW q \in Qbs  PROVE Score[b][q] \in Nat
BY ConstantsAssumption

LEMMA PersistRowStep ==
  ASSUME IInv, NEW c \in Calls, Persist(c), NEW b \in Banks
  PROVE  RowStep(b)
<1> USE DEF IInv
<1> DEFINE accepted == Accepted(call[c].proposal)
<1>1. accepted \subseteq Banks \X Qbs /\ accepted \subseteq call[c].proposal
  BY DEF Accepted, TypeOK, Call
<1>2. CASE \E q \in Qbs : <<b, q>> \in accepted /\ row'[b] = NewMatch(q, "auto")
  <2>1. ~Present(b)
    BY <1>2 DEF Accepted
  <2> QED BY <1>2, <2>1 DEF RowStep, Inserted
<1>3. CASE \E p \in accepted :
             LiveAuto(b, p[2]) /\ row'[b] = [row[b] EXCEPT !.replacedBy = p[1]]
  <2>1. PICK p \in accepted :
               LiveAuto(b, p[2]) /\ row'[b] = [row[b] EXCEPT !.replacedBy = p[1]]
    BY <1>3
  <2>2. PICK r \in Banks, q \in Qbs : p = <<r, q>>
    BY <1>1
  <2>3. ~Present(r) /\ ~HoldsAgainst(b, Score[r][q])
    BY <2>1, <2>2 DEF Accepted
  <2>4. row'[r] = NewMatch(q, "auto")
    <3>1. CASE \E x \in Qbs : <<r, x>> \in accepted /\ row'[r] = NewMatch(x, "auto")
      <4>1. PICK x \in Qbs : <<r, x>> \in accepted /\ row'[r] = NewMatch(x, "auto")
        BY <3>1
      <4>2. ~Competes(<<r, x>>, <<r, q>>)
        BY <1>1, <2>1, <2>2, <4>1 DEF ProposalsMatch
      <4> QED BY <4>1, <4>2 DEF Competes
    <3>2. CASE \E x \in accepted : LiveAuto(r, x[2])
      BY <2>3, <3>2 DEF LiveAuto, Live
    <3>3. CASE \A x \in accepted : x[1] # r
      BY <2>1, <2>2, <3>3
    <3>4. \/ \E x \in Qbs : <<r, x>> \in accepted /\ row'[r] = NewMatch(x, "auto")
          \/ \E x \in accepted :
               LiveAuto(r, x[2]) /\ row'[r] = [row[r] EXCEPT !.replacedBy = x[1]]
          \/ /\ row'[r] = row[r]
             /\ \A x \in accepted : x[1] # r /\ ~LiveAuto(r, x[2])
      BY PersistRows
    <3> QED BY Zenon, <3>1, <3>2, <3>3, <3>4
  <2>5. Live(r)' /\ row'[r].qb = q
    BY <2>4, NewMatchIsLive
  <2>6. TakesOver(b, r)
    <3>1. row[b].qb = q /\ row[b] \in Match /\ row[b].qb \in Qbs
      BY <2>1, <2>2 DEF LiveAuto, Live, Present, TypeOK, Match
    <3>2. Score[r][q] \in Nat /\ ScoreOf(b) \in Nat
      BY <3>1, ScoreType DEF ScoreOf
    <3>3. Score[r][q] >= GreenMinScore /\ Score[r][q] >= ScoreOf(b) + SupersedeMinDelta
      BY <2>3, <3>2 DEF HoldsAgainst, GreenMinScore, SupersedeMinDelta
    <3> QED BY <2>1, <2>2, <2>5, <3>1, <3>3 DEF TakesOver
  <2> QED BY <2>1, <2>3, <2>6 DEF RowStep, Replaced, LiveAuto, HoldsAgainst, Approved
<1>4. CASE row'[b] = row[b]
  BY <1>4 DEF RowStep
<1> QED BY <1>2, <1>3, <1>4, PersistRows

LEMMA ManualRowStep ==
  ASSUME IInv, NEW m \in Banks, NEW q \in Qbs, CreateManual(m, q), NEW b \in Banks
  PROVE  RowStep(b)
<1> USE DEF IInv
<1>1. CASE b = m
  <2>1. CASE LiveManual(m, q)
    BY <1>1, <2>1 DEF CreateManual, RowStep
  <2>2. CASE ~LiveManual(m, q)
    <3>1. row'[b] = NewMatch(q, "manual")
      BY <1>1, <2>2 DEF CreateManual
    <3>2. ~Approved(b) /\ ~Superseded(b)
      BY <1>1 DEF CreateManual
    <3> QED BY <3>1, <3>2 DEF RowStep, Written
  <2> QED BY <2>1, <2>2
<1>2. CASE b # m /\ LiveAuto(b, q)
  <2>1. row'[b] = [row[b] EXCEPT !.replacedBy = m] /\ ~Approved(b)
    BY <1>2 DEF CreateManual
  <2>2. ~LiveManual(m, q)
    BY <1>2 DEF ClaimsExclusive
  <2>3. row'[m] = NewMatch(q, "manual")
    BY <2>2 DEF CreateManual
  <2>4. Live(m)' /\ row'[m].qb = q /\ row'[m].by = "manual"
    BY <2>3, NewMatchIsLive
  <2>5. TakesOver(b, m)
    BY <1>2, <2>1, <2>4 DEF TakesOver, LiveAuto
  <2> QED BY <1>2, <2>1, <2>5 DEF RowStep, Replaced, LiveAuto
<1>3. CASE b # m /\ ~LiveAuto(b, q)
  BY <1>3 DEF CreateManual, RowStep
<1> QED BY <1>1, <1>2, <1>3

\* A step of a call that reads only.
ReadStep(c) ==
  \/ \E st \in Statements : ReadStatement(c, st)
  \/ Propose(c)
  \/ \E st \in Statements, ids \in SUBSET Banks : ReadForApproval(c, st, ids)
  \/ \E st \in Statements, ids \in SUBSET Banks : ReadForUnapproval(c, st, ids)
  \/ \E b \in Banks : ReadForRejection(c, b)
  \/ \E b \in Banks : DeleteRefused(c, b)
  \/ DeleteNothing(c)
  \/ CallStops(c)

LEMMA ReadKeepsRows == ASSUME NEW c \in Calls, ReadStep(c)  PROVE row' = row
BY DEF ReadStep, ReadStatement, Propose, ReadForApproval, ReadForUnapproval,
       ReadForRejection, DeleteRefused, DeleteNothing, CallStops

LEMMA StepCases ==
  ASSUME [Next]_vars
  PROVE  \/ \E c \in Calls : ReadStep(c) \/ Persist(c) \/ Approve(c) \/ Unapprove(c)
                             \/ \E b \in Banks : Delete(c, b)
         \/ \E b \in Banks, q \in Qbs : CreateManual(b, q)
         \/ UNCHANGED vars
BY Zenon DEF Next, Compute, Decide, ReadStep

LEMMA RowSteps ==
  ASSUME IInv, [Next]_vars, NEW b \in Banks
  PROVE  RowStep(b)
<1>1. ASSUME NEW c \in Calls, ReadStep(c)  PROVE RowStep(b)
  BY <1>1, ReadKeepsRows DEF RowStep
<1>2. ASSUME NEW c \in Calls, Persist(c)  PROVE RowStep(b)
  BY <1>2, PersistRowStep
<1>3. ASSUME NEW c \in Calls, Approve(c)  PROVE RowStep(b)
  BY <1>3 DEF Approve, Eligible, RowStep, Signed
<1>4. ASSUME NEW c \in Calls, Unapprove(c)  PROVE RowStep(b)
  BY <1>4 DEF Unapprove, RowStep, Unsigned
<1>5. ASSUME NEW c \in Calls, NEW d \in Banks, Delete(c, d)  PROVE RowStep(b)
  BY <1>5 DEF Delete, RowStep, Removed, IInv, TypeOK
<1>6. ASSUME NEW m \in Banks, NEW q \in Qbs, CreateManual(m, q)  PROVE RowStep(b)
  BY <1>6, ManualRowStep
<1>7. ASSUME UNCHANGED vars  PROVE RowStep(b)
  BY <1>7 DEF vars, RowStep
<1> QED BY <1>1, <1>2, <1>3, <1>4, <1>5, <1>6, <1>7, StepCases

----------------------------------------------------------------------------
(***************************************************************************)
(* The invariant is inductive: one lemma for each part.                    *)
(***************************************************************************)
LEMMA IInvInit == Init => IInv
<1> SUFFICES ASSUME Init  PROVE IInv
  OBVIOUS
<1>1. TypeOK
  BY TypeInit
<1>2. \A b \in Banks : ~Present(b)
  BY DEF Init, Present
<1>3. ProposalsMatch
  BY DEF Init, Idle, ProposalsMatch
<1>4. SupersededUnapproved /\ ClaimsExclusive /\ ReplacementIsKept
  BY <1>2 DEF SupersededUnapproved, ClaimsExclusive, ReplacementIsKept, Superseded,
              LiveAuto, Live
<1> QED BY <1>1, <1>3, <1>4 DEF IInv

LEMMA RowTypeStep == IInv /\ [Next]_vars => row' \in [Banks -> Match \cup {NoMatch}]
<1> SUFFICES ASSUME IInv, [Next]_vars
             PROVE  row' \in [Banks -> Match \cup {NoMatch}]
  OBVIOUS
<1> USE DEF IInv
<1>1. ASSUME NEW b \in Banks  PROVE row'[b] \in Match \cup {NoMatch}
  <2>1. row[b] \in Match \cup {NoMatch}
    BY DEF TypeOK
  <2>2. CASE Inserted(b) \/ Written(b)
    BY <2>2, NewMatchType DEF Inserted, Written
  <2>3. CASE Replaced(b)
    BY <2>1, <2>3 DEF Replaced, TakesOver, Live, Present, Match
  <2>4. CASE Signed(b) \/ Unsigned(b)
    BY <2>1, <2>4 DEF Signed, Unsigned, Live, Approved, Present, Match
  <2>5. CASE Removed(b)
    BY <2>5 DEF Removed
  <2> QED BY <2>1, <2>2, <2>3, <2>4, <2>5, RowSteps DEF RowStep
<1>2. \E f : row' = [b \in Banks |-> f[b]]
  <2>1. row = [b \in Banks |-> row[b]]
    BY DEF TypeOK
  <2>2. ASSUME row' = row  PROVE row' = [b \in Banks |-> row[b]]
    BY <2>1, <2>2
  <2>3. ASSUME NEW c \in Calls, Persist(c)
        PROVE  row' = [b \in Banks |-> row'[b]]
    BY <2>3 DEF Persist
  <2>4. ASSUME NEW c \in Calls, Approve(c) \/ Unapprove(c)
        PROVE  row' = [b \in Banks |-> row'[b]]
    BY <2>4 DEF Approve, Unapprove
  <2>5. ASSUME NEW c \in Calls, NEW d \in Banks, Delete(c, d)
        PROVE  row' = [b \in Banks |-> row'[b]]
    BY <2>5 DEF Delete, TypeOK
  <2>6. ASSUME NEW m \in Banks, NEW q \in Qbs, CreateManual(m, q)
        PROVE  row' = [b \in Banks |-> row'[b]]
    BY <2>6 DEF CreateManual
  <2>7. ASSUME NEW c \in Calls, ReadStep(c)  PROVE row' = row
    BY <2>7, ReadKeepsRows
  <2> QED BY <2>2, <2>3, <2>4, <2>5, <2>6, <2>7, StepCases DEF vars
<1> QED BY <1>1, <1>2

LEMMA TypeStep == IInv /\ [Next]_vars => TypeOK'
<1> SUFFICES ASSUME IInv, [Next]_vars  PROVE call' \in [Calls -> Call]
  BY RowTypeStep DEF TypeOK
<1> USE DEF IInv
<1>1. ASSUME NEW c \in Calls, NEW st \in Statements, ReadStatement(c, st)
      PROVE  call' \in [Calls -> Call]
  <2>1. PICK ids \in SUBSET Banks : Continue(c, "scoring", st, ids, {})
    BY <1>1 DEF ReadStatement
  <2> QED BY <2>1, ContinueStep DEF Steps
<1>2. ASSUME NEW c \in Calls, Propose(c)  PROVE call' \in [Calls -> Call]
  <2>1. CASE Return(c)
    BY <2>1, CallStep
  <2>2. CASE ~Return(c)
    <3>1. PICK taken \in SUBSET (Banks \X Qbs) :
                 Continue(c, "persisting", call[c].statement, {}, taken)
      BY <1>2, <2>2 DEF Propose, Assignments, Candidates, TypeOK, Call
    <3> QED BY <3>1 DEF Continue, TypeOK, Call, Steps
  <2> QED BY <2>1, <2>2
<1>3. ASSUME NEW c \in Calls, NEW st \in Statements, NEW ids \in SUBSET Banks,
             ReadForApproval(c, st, ids) \/ ReadForUnapproval(c, st, ids)
      PROVE  call' \in [Calls -> Call]
  BY <1>3, ContinueStep DEF ReadForApproval, ReadForUnapproval, Steps
<1>4. ASSUME NEW c \in Calls, NEW b \in Banks, ReadForRejection(c, b)
      PROVE  call' \in [Calls -> Call]
  BY <1>4, ContinueStep, ConstantsAssumption DEF ReadForRejection, Steps
<1>5. ASSUME NEW c \in Calls, NEW b \in Banks, Delete(c, b)
      PROVE  call' \in [Calls -> Call]
  <2>1. Idle \in Call
    BY DEF Idle, Call, Steps
  <2>2. ASSUME NEW d \in Calls  PROVE Forget(d, b) \in Call
    BY DEF Forget, TypeOK, Call
  <2> QED BY <1>5, <2>1, <2>2 DEF Delete
<1>6. ASSUME NEW c \in Calls,
             Persist(c) \/ Approve(c) \/ Unapprove(c) \/ DeleteNothing(c) \/ CallStops(c)
             \/ \E b \in Banks : DeleteRefused(c, b)
      PROVE  call' \in [Calls -> Call]
  BY <1>6, CallStep DEF Persist, Approve, Unapprove, DeleteNothing, CallStops, DeleteRefused
<1>7. ASSUME NEW b \in Banks, NEW q \in Qbs, CreateManual(b, q)
      PROVE  call' \in [Calls -> Call]
  BY <1>7 DEF CreateManual, TypeOK
<1>8. ASSUME UNCHANGED vars  PROVE call' \in [Calls -> Call]
  BY <1>8 DEF vars, TypeOK
<1> QED BY <1>1, <1>2, <1>3, <1>4, <1>5, <1>6, <1>7, <1>8, StepCases DEF ReadStep

LEMMA ProposalsStep == IInv /\ [Next]_vars => ProposalsMatch'
<1> SUFFICES ASSUME IInv, [Next]_vars, NEW d \in Calls,
                    NEW p \in call'[d].proposal, NEW r \in call'[d].proposal
             PROVE  ~Competes(p, r)
  BY DEF ProposalsMatch
<1> USE DEF IInv
<1>1. CASE call'[d].proposal \subseteq call[d].proposal
  BY <1>1 DEF ProposalsMatch
<1>2. CASE \E banks \in SUBSET Banks, qbs \in SUBSET Qbs :
             call'[d].proposal \in Assignments(banks, qbs)
  BY <1>2, AssignmentMatches
<1>3. \/ call'[d].proposal \subseteq call[d].proposal
      \/ \E banks \in SUBSET Banks, qbs \in SUBSET Qbs :
           call'[d].proposal \in Assignments(banks, qbs)
  <2>1. ASSUME NEW c \in Calls, Return(c)
        PROVE  call'[d].proposal \subseteq call[d].proposal
    BY <2>1 DEF Return, Idle, TypeOK
  <2>2. ASSUME NEW c \in Calls, NEW step, NEW st, NEW ids, Continue(c, step, st, ids, {})
        PROVE  call'[d].proposal \subseteq call[d].proposal
    BY <2>2 DEF Continue, TypeOK
  <2>3. ASSUME NEW c \in Calls, Propose(c)
        PROVE  \/ call'[d].proposal \subseteq call[d].proposal
               \/ \E banks \in SUBSET Banks, qbs \in SUBSET Qbs :
                    call'[d].proposal \in Assignments(banks, qbs)
    <3>1. CASE Return(c)
      BY <3>1, <2>1
    <3>2. CASE ~Return(c)
      <4>1. PICK qbs \in SUBSET Qbs :
                   \E taken \in Assignments(call[c].ids, qbs) :
                     Continue(c, "persisting", call[c].statement, {}, taken)
        BY <2>3, <3>2 DEF Propose
      <4>2. PICK taken \in Assignments(call[c].ids, qbs) :
                   Continue(c, "persisting", call[c].statement, {}, taken)
        BY <4>1
      <4>3. call[c].ids \subseteq Banks
        BY DEF TypeOK, Call
      <4>4. call'[d].proposal = IF d = c THEN taken ELSE call[d].proposal
        BY <4>2 DEF Continue, TypeOK
      <4> QED BY <4>2, <4>3, <4>4
    <3> QED BY <3>1, <3>2
  <2>4. ASSUME NEW c \in Calls, NEW b \in Banks, Delete(c, b)
        PROVE  call'[d].proposal \subseteq call[d].proposal
    BY <2>4 DEF Delete, Forget, Idle, TypeOK, Call
  <2>5. ASSUME UNCHANGED call  PROVE call'[d].proposal \subseteq call[d].proposal
    BY <2>5
  <2>6. ASSUME NEW c \in Calls,
               Persist(c) \/ Approve(c) \/ Unapprove(c) \/ DeleteNothing(c) \/ CallStops(c)
               \/ \E b \in Banks : DeleteRefused(c, b)
        PROVE  Return(c)
    BY <2>6 DEF Persist, Approve, Unapprove, DeleteNothing, CallStops, DeleteRefused
  <2>7. ASSUME NEW c \in Calls,
               \/ \E st \in Statements : ReadStatement(c, st)
               \/ \E st \in Statements, ids \in SUBSET Banks : ReadForApproval(c, st, ids)
               \/ \E st \in Statements, ids \in SUBSET Banks : ReadForUnapproval(c, st, ids)
               \/ \E b \in Banks : ReadForRejection(c, b)
        PROVE  \E step, st, ids : Continue(c, step, st, ids, {})
    BY Zenon, <2>7 DEF ReadStatement, ReadForApproval, ReadForUnapproval, ReadForRejection
  <2>8. ASSUME NEW b \in Banks, NEW q \in Qbs, CreateManual(b, q)  PROVE UNCHANGED call
    BY <2>8 DEF CreateManual
  <2> QED BY <2>1, <2>2, <2>3, <2>4, <2>5, <2>6, <2>7, <2>8, StepCases DEF ReadStep, vars
<1> QED BY <1>1, <1>2, <1>3

\* The cases of RowStep, read for one bank transaction.
LEMMA RowFacts ==
  ASSUME IInv, [Next]_vars, NEW b \in Banks
  PROVE  /\ Superseded(b) => row'[b] = row[b]
         /\ Approved(b) => row'[b] \in {row[b], [row[b] EXCEPT !.approved = FALSE]}
         /\ Superseded(b)' => \/ Superseded(b) /\ row'[b] = row[b]
                              \/ Replaced(b)
         /\ Present(b) /\ ~Present(b)' => MayDelete(b)
<1>1. row[b] \in Match \cup {NoMatch} /\ (Superseded(b) => ~Approved(b))
  BY DEF IInv, TypeOK, SupersededUnapproved
<1>2. CASE row'[b] = row[b]
  BY <1>2 DEF Superseded, Present
<1>3. CASE \E q \in Qbs, by \in {"auto", "manual"} :
             row'[b] = NewMatch(q, by) /\ ~Superseded(b) /\ ~Approved(b)
  <2>1. Live(b)'
    BY <1>3, NewMatchIsLive
  <2> QED BY <1>3, <2>1 DEF Superseded, Live
<1>4. CASE Replaced(b)
  <2>1. Live(b) /\ ~Approved(b) /\ ~Superseded(b) /\ row[b] \in Match
    BY <1>1, <1>4 DEF Replaced, Live, Superseded, Present
  <2>2. row'[b] \in Match
    BY <1>4, <2>1 DEF Replaced, TakesOver, Match
  <2>3. Present(b)'
    BY <2>2, NoMatchAssumption DEF Present
  <2> QED BY <1>4, <2>1, <2>3
<1>5. CASE Signed(b) \/ Unsigned(b)
  <2>1. row[b] \in Match /\ ~Superseded(b) /\ row[b].replacedBy = NoBank
    BY <1>1, <1>5 DEF Signed, Unsigned, Live, Superseded, Approved, Present
  <2>2. row'[b] \in Match /\ row'[b].replacedBy = NoBank
    BY <1>5, <2>1 DEF Signed, Unsigned, Match
  <2>3. Present(b)' /\ ~Superseded(b)'
    BY <2>2, NoMatchAssumption DEF Present, Superseded
  <2> QED BY <1>5, <2>1, <2>3 DEF Signed, Unsigned
<1>6. CASE Removed(b)
  BY <1>6 DEF Removed, MayDelete, Present, Superseded
<1>7. Inserted(b) \/ Written(b) =>
        \E q \in Qbs, by \in {"auto", "manual"} :
          row'[b] = NewMatch(q, by) /\ ~Superseded(b) /\ ~Approved(b)
  BY DEF Inserted, Written, Superseded, Approved
<1> QED BY <1>2, <1>3, <1>4, <1>5, <1>6, <1>7, RowSteps DEF RowStep

LEMMA UnapprovedStep == IInv /\ [Next]_vars => SupersededUnapproved'
<1> SUFFICES ASSUME IInv, [Next]_vars, NEW b \in Banks, Superseded(b)'
             PROVE  ~Approved(b)'
  BY DEF SupersededUnapproved
<1>1. CASE Superseded(b) /\ row'[b] = row[b]
  BY <1>1 DEF IInv, SupersededUnapproved, Approved, Present
<1>2. CASE Replaced(b)
  <2>1. row[b] \in Match /\ ~row[b].approved
    BY <1>2 DEF Replaced, Live, Approved, Present, IInv, TypeOK
  <2> QED BY <1>2, <2>1 DEF Replaced, TakesOver, Approved, Match
<1> QED BY <1>1, <1>2, RowFacts

LEMMA ReplacementStep == IInv /\ [Next]_vars => ReplacementIsKept'
<1> SUFFICES ASSUME IInv, [Next]_vars,
                    NEW S \in SUBSET {b \in Banks : Superseded(b)'}, S # {}
             PROVE  \E b \in S : row'[row'[b].replacedBy] # NoMatch
                                 /\ row'[b].replacedBy \notin S
  BY DEF ReplacementIsKept, Present
<1>1. CASE \E b \in S : Replaced(b)
  <2>1. PICK b \in S : Replaced(b)
    BY <1>1
  <2>2. PICK r \in Banks : TakesOver(b, r)
    BY <2>1 DEF Replaced
  <2>3. row[b] \in Match
    BY <2>1 DEF Replaced, Live, Present, IInv, TypeOK
  <2>4. row'[b].replacedBy = r
    BY <2>2, <2>3 DEF TakesOver, Match
  <2>5. row'[r] # NoMatch /\ r \notin S
    BY <2>2 DEF TakesOver, Live, Superseded, Present
  <2> QED BY <2>4, <2>5
<1>2. CASE \A b \in S : ~Replaced(b)
  <2>1. \A b \in S : b \in Banks /\ Superseded(b) /\ row'[b] = row[b]
    BY <1>2, RowFacts
  <2>2. PICK b \in S : Present(row[b].replacedBy) /\ row[b].replacedBy \notin S
    BY <2>1 DEF IInv, ReplacementIsKept
  <2>3. row[b].replacedBy \in Banks
    BY <2>1 DEF Superseded, Present, IInv, TypeOK, Match
  <2>4. ~MayDelete(row[b].replacedBy)
    BY <2>1 DEF MayDelete
  <2>5. PICK r \in Banks : r = row[b].replacedBy
    BY <2>3
  <2>6. Present(r)'
    BY <2>2, <2>4, <2>5, RowFacts
  <2> QED BY <2>1, <2>2, <2>5, <2>6 DEF Present
<1> QED BY <1>1, <1>2

----------------------------------------------------------------------------
(***************************************************************************)
(* Exclusivity: who may make a live claim in a step, and what is left then *)
(* of the claims on the same accounting transaction.                       *)
(***************************************************************************)
LEMMA PersistClaims ==
  ASSUME IInv, NEW c \in Calls, Persist(c), NEW b \in Banks, NEW q \in Qbs
  PROVE  /\ LiveManual(b, q)' => LiveManual(b, q)
         /\ LiveAuto(b, q)' =>
              \/ <<b, q>> \in Accepted(call[c].proposal)
              \/ /\ LiveAuto(b, q)
                 /\ \A p \in Accepted(call[c].proposal) : p[2] # q
<1> USE DEF IInv
<1>1. CASE \E x \in Qbs : <<b, x>> \in Accepted(call[c].proposal)
                          /\ row'[b] = NewMatch(x, "auto")
  <2>1. PICK x \in Qbs : <<b, x>> \in Accepted(call[c].proposal)
                         /\ row'[b] = NewMatch(x, "auto")
    BY <1>1
  <2>2. row'[b].qb = x /\ row'[b].by = "auto"
    BY <2>1, NewMatchIsLive
  <2> QED BY <2>1, <2>2 DEF LiveAuto, LiveManual
<1>2. CASE \E p \in Accepted(call[c].proposal) :
             LiveAuto(b, p[2]) /\ row'[b] = [row[b] EXCEPT !.replacedBy = p[1]]
  <2>1. PICK p \in Accepted(call[c].proposal) :
               LiveAuto(b, p[2]) /\ row'[b] = [row[b] EXCEPT !.replacedBy = p[1]]
    BY <1>2
  <2>2. p[1] \in Banks /\ row[b] \in Match
    BY <2>1 DEF Accepted, TypeOK, Call, LiveAuto, Live, Present
  <2>3. row'[b].replacedBy # NoBank
    BY <2>1, <2>2, ConstantsAssumption DEF Match
  <2> QED BY <2>3 DEF LiveAuto, LiveManual, Live
<1>3. CASE /\ row'[b] = row[b]
           /\ \A p \in Accepted(call[c].proposal) : p[1] # b /\ ~LiveAuto(b, p[2])
  <2>1. LiveAuto(b, q)' = LiveAuto(b, q) /\ LiveManual(b, q)' = LiveManual(b, q)
    BY <1>3 DEF LiveAuto, LiveManual, Live, Present
  <2> QED BY <1>3, <2>1
<1> QED BY <1>1, <1>2, <1>3, PersistRows

LEMMA ManualClaims ==
  ASSUME IInv, NEW m \in Banks, NEW z \in Qbs, CreateManual(m, z),
         NEW b \in Banks, NEW q \in Qbs
  PROVE  /\ LiveManual(b, q)' => LiveManual(b, q) \/ q = z
         /\ LiveAuto(b, q)' => LiveAuto(b, q) /\ q # z
<1> USE DEF IInv
<1>1. CASE b = m /\ LiveManual(m, z)
  <2>1. row'[b] = row[b] /\ row[b].by = "manual"
    BY <1>1 DEF CreateManual, LiveManual
  <2> QED BY <2>1 DEF LiveAuto, LiveManual, Live, Present
<1>2. CASE b = m /\ ~LiveManual(m, z)
  <2>1. row'[b] = NewMatch(z, "manual")
    BY <1>2 DEF CreateManual
  <2>2. row'[b].qb = z /\ row'[b].by = "manual"
    BY <2>1, NewMatchIsLive
  <2> QED BY <2>2 DEF LiveAuto, LiveManual
<1>3. CASE b # m /\ LiveAuto(b, z)
  <2>1. row'[b] = [row[b] EXCEPT !.replacedBy = m] /\ row[b] \in Match
    BY <1>3 DEF CreateManual, LiveAuto, Live, Present, TypeOK
  <2>2. row'[b].replacedBy # NoBank
    BY <2>1, ConstantsAssumption DEF Match
  <2> QED BY <2>2 DEF LiveAuto, LiveManual, Live
<1>4. CASE b # m /\ ~LiveAuto(b, z)
  <2>1. row'[b] = row[b]
    BY <1>4 DEF CreateManual
  <2> QED BY <1>4, <2>1 DEF LiveAuto, LiveManual, Live, Present
<1> QED BY <1>1, <1>2, <1>3, <1>4

\* Approvals, unapprovals and deletions make no claim.
LEMMA OtherClaims ==
  ASSUME IInv, NEW c \in Calls,
         ReadStep(c) \/ Approve(c) \/ Unapprove(c) \/ \E d \in Banks : Delete(c, d),
         NEW b \in Banks, NEW q \in Qbs
  PROVE  (LiveManual(b, q)' => LiveManual(b, q)) /\ (LiveAuto(b, q)' => LiveAuto(b, q))
<1> USE DEF IInv
<1>1. CASE row'[b] = row[b]
  BY <1>1 DEF LiveAuto, LiveManual, Live, Present
<1>2. CASE row'[b] = NoMatch
  BY <1>2 DEF LiveAuto, LiveManual, Live, Present
<1>3. CASE Present(b) /\ \E x \in BOOLEAN : row'[b] = [row[b] EXCEPT !.approved = x]
  <2>1. row[b] \in Match
    BY <1>3 DEF Present, TypeOK
  <2>2. /\ row'[b].qb = row[b].qb /\ row'[b].by = row[b].by
        /\ row'[b].replacedBy = row[b].replacedBy
    BY <1>3, <2>1 DEF Match
  <2> QED BY <1>3, <2>2 DEF LiveAuto, LiveManual, Live
<1>4. CASE ReadStep(c)
  BY <1>1, <1>4, ReadKeepsRows
<1>5. CASE Approve(c)
  BY <1>1, <1>3, <1>5 DEF Approve, Eligible, Live
<1>6. CASE Unapprove(c)
  BY <1>1, <1>3, <1>6 DEF Unapprove, Approved
<1>7. CASE \E d \in Banks : Delete(c, d)
  BY <1>1, <1>2, <1>7 DEF Delete, TypeOK
<1> QED BY <1>4, <1>5, <1>6, <1>7

LEMMA ExclusiveStep == IInv /\ [Next]_vars => ClaimsExclusive'
<1> SUFFICES ASSUME IInv, [Next]_vars, NEW b \in Banks, NEW x \in Banks, NEW q \in Qbs,
                    LiveAuto(b, q)'
             PROVE  ~LiveManual(x, q)' /\ (LiveAuto(x, q)' => b = x)
  BY DEF ClaimsExclusive
<1>1. LiveAuto(b, q) => ~LiveManual(x, q) /\ (LiveAuto(x, q) => b = x)
  BY DEF IInv, ClaimsExclusive
<1>2. ASSUME NEW c \in Calls, Persist(c)
      PROVE  ~LiveManual(x, q)' /\ (LiveAuto(x, q)' => b = x)
  <2> DEFINE accepted == Accepted(call[c].proposal)
  <2>1. CASE <<b, q>> \in accepted
    <3>1. ~LiveManual(x, q)
      BY <2>1 DEF Accepted
    <3>2. <<x, q>> \in accepted => b = x
      <4>1. <<x, q>> \in accepted => ~Competes(<<b, q>>, <<x, q>>)
        BY <2>1 DEF Accepted, IInv, ProposalsMatch
      <4> QED BY <4>1 DEF Competes
    <3>3. LiveAuto(x, q)' => <<x, q>> \in accepted
      BY <1>2, <2>1, PersistClaims
    <3> QED BY <1>2, <3>1, <3>2, <3>3, PersistClaims
  <2>2. CASE LiveAuto(b, q) /\ \A p \in accepted : p[2] # q
    <3>1. <<x, q>> \notin accepted
      BY <2>2
    <3> QED BY <1>1, <1>2, <2>2, <3>1, PersistClaims
  <2> QED BY <1>2, <2>1, <2>2, PersistClaims
<1>3. ASSUME NEW m \in Banks, NEW z \in Qbs, CreateManual(m, z)
      PROVE  ~LiveManual(x, q)' /\ (LiveAuto(x, q)' => b = x)
  BY <1>1, <1>3, ManualClaims
<1>4. ASSUME NEW c \in Calls,
             ReadStep(c) \/ Approve(c) \/ Unapprove(c) \/ \E d \in Banks : Delete(c, d)
      PROVE  ~LiveManual(x, q)' /\ (LiveAuto(x, q)' => b = x)
  BY <1>1, <1>4, OtherClaims
<1>5. ASSUME UNCHANGED vars
      PROVE  ~LiveManual(x, q)' /\ (LiveAuto(x, q)' => b = x)
  BY <1>1, <1>5 DEF vars, LiveAuto, LiveManual, Live, Present
<1> QED BY <1>2, <1>3, <1>4, <1>5, StepCases

----------------------------------------------------------------------------
(***************************************************************************)
(* Theorems.                                                               *)
(***************************************************************************)
LEMMA IInvStep == IInv /\ [Next]_vars => IInv'
BY TypeStep, ProposalsStep, UnapprovedStep, ExclusiveStep, ReplacementStep DEF IInv

LEMMA Invariance == Spec => []IInv
BY IInvInit, IInvStep, PTL DEF Spec

\* Every variable keeps its type.
THEOREM TypeCorrect == Spec => []TypeOK
BY Invariance, PTL DEF IInv

\* Of the calls that match and decide at once, none makes a second live
\* automatic claim, or one beside a manual match, on an accounting transaction.
THEOREM ClaimsAreExclusive == Spec => []ClaimsExclusive
BY Invariance, PTL DEF IInv

\* Who replaced a superseded match stays on record, whatever is rejected.
THEOREM ReplacementsStay == Spec => []ReplacementIsKept
BY Invariance, PTL DEF IInv

\* What the matcher's rule would still propose is persisted: the rule of the
\* procedure is not the stricter one.
LEMMA UnopposedPersists ==
  ASSUME IInv, NEW c \in Calls, Persist(c), NEW p \in call[c].proposal, Unopposed(p)
  PROVE  Live(p[1])' /\ row'[p[1]].qb = p[2]
<1> USE DEF IInv
<1>1. PICK b \in Banks, q \in Qbs : p = <<b, q>>
  BY DEF TypeOK, Call
<1>2. Score[b][q] \in Nat
  BY ScoreType
<1>3. ASSUME NEW h \in Banks, LiveAuto(h, q)
      PROVE  ~HoldsAgainst(h, Score[b][q])
  <2>1. ShouldSupersede(h, Score[b][q])
    BY <1>1, <1>3 DEF Unopposed
  <2>2. row[h].qb \in Qbs
    BY <1>3 DEF LiveAuto
  <2>3. ScoreOf(h) \in Nat
    BY <2>2, ScoreType DEF ScoreOf
  <2> QED BY <1>2, <2>1, <2>3 DEF ShouldSupersede, HoldsAgainst, GreenMinScore, SupersedeMinDelta
<1>4. p \in Accepted(call[c].proposal)
  BY <1>1, <1>3 DEF Accepted, Unopposed
<1>5. CASE \E x \in Qbs : <<b, x>> \in Accepted(call[c].proposal) /\ row'[b] = NewMatch(x, "auto")
  <2>1. PICK x \in Qbs : <<b, x>> \in Accepted(call[c].proposal) /\ row'[b] = NewMatch(x, "auto")
    BY <1>5
  <2>2. <<b, x>> \in call[c].proposal
    BY <2>1 DEF Accepted
  <2>3. x = q
    BY <1>1, <2>2 DEF ProposalsMatch, Competes
  <2> QED BY <1>1, <2>1, <2>3, NewMatchIsLive
<1>6. CASE \E r \in Accepted(call[c].proposal) : LiveAuto(b, r[2])
  BY <1>1, <1>6 DEF Unopposed, LiveAuto, Live
<1>7. CASE \A r \in Accepted(call[c].proposal) : r[1] # b
  BY <1>1, <1>4, <1>7
<1> QED BY Zenon, <1>5, <1>6, <1>7, PersistRows

\* A match is superseded only by one a human made, or a green one that is at
\* least 20 points stronger, on the same accounting transaction; and what the
\* matcher's rule still proposes of a payload, the procedure persists.
THEOREM SupersededByStronger == Spec => SupersessionJustified
<1>1. ASSUME IInv, [Next]_vars, NEW b \in Banks, Live(b), Superseded(b)'
      PROVE  \E r \in Banks :
               /\ row'[b].replacedBy = r
               /\ ~row[b].approved /\ row[b].by = "auto"
               /\ Live(r)' /\ row'[r].qb = row[b].qb
               /\ \/ row'[r].by = "manual"
                  \/ /\ Score[r][row[b].qb] >= GreenMinScore
                     /\ Score[r][row[b].qb] >= ScoreOf(b) + SupersedeMinDelta
  <2>1. Replaced(b)
    BY <1>1, RowFacts DEF Live, Superseded
  <2>2. PICK r \in Banks : TakesOver(b, r)
    BY <2>1 DEF Replaced
  <2>3. row[b] \in Match
    BY <1>1 DEF IInv, TypeOK, Live, Present
  <2>4. row'[b].replacedBy = r
    BY <2>2, <2>3 DEF TakesOver, Match
  <2>5. ~row[b].approved /\ row[b].by = "auto"
    BY <2>1 DEF Replaced, Approved, Live
  <2> QED BY <2>2, <2>4, <2>5 DEF TakesOver
<1>2. IInv /\ [Next]_vars =>
        [/\ \A b \in Banks : Live(b) /\ Superseded(b)' =>
              \E r \in Banks :
                /\ row'[b].replacedBy = r
                /\ ~row[b].approved /\ row[b].by = "auto"
                /\ Live(r)' /\ row'[r].qb = row[b].qb
                /\ \/ row'[r].by = "manual"
                   \/ /\ Score[r][row[b].qb] >= GreenMinScore
                      /\ Score[r][row[b].qb] >= ScoreOf(b) + SupersedeMinDelta
         /\ \A c \in Calls : Persist(c) =>
              \A p \in call[c].proposal :
                Unopposed(p) => Live(p[1])' /\ row'[p[1]].qb = p[2]]_vars
  BY <1>1, UnopposedPersists
<1> QED BY <1>2, Invariance, PTL DEF Spec, SupersessionJustified

\* Superseded matches never change, approved ones only by unapproval.
THEOREM DecisionsStay == Spec => EvidenceIsKept
<1>1. IInv /\ [Next]_vars =>
        [\A b \in Banks :
           /\ Superseded(b) => row'[b] = row[b]
           /\ Approved(b) => row'[b] \in {row[b], [row[b] EXCEPT !.approved = FALSE]}]_vars
  BY RowFacts
<1> QED BY <1>1, Invariance, PTL DEF Spec, EvidenceIsKept

----------------------------------------------------------------------------
(***************************************************************************)
(* Every step of the composition is a step of MatchClaims or leaves its    *)
(* variables alone.                                                        *)
(***************************************************************************)
LEMMA PageAsksStep ==
  ASSUME NEW c \in Calls, PageAsks(c)
  PROVE  Next \/ UNCHANGED vars
<1>1. CASE OpenPage(c)
  BY <1>1, PageAssumption DEF OpenPage, Loads, Next, Compute
<1>2. CASE \E ids \in SUBSET PageLines : ClickApprove(c, ids)
  <2>1. PICK ids \in SUBSET PageLines : ClickApprove(c, ids)
    BY <1>2
  <2> DEFINE found == {b \in ids : page.view[b].names /\ Live(b)}
  <2>2. found \in SUBSET Banks
    BY DEF PageLines, LinesOf
  <2>3. UNCHANGED vars \/ ReadForApproval(c, PageStatement, found)
    BY <2>1 DEF ClickApprove
  <2> QED BY <2>2, <2>3, PageAssumption DEF Next, Decide
<1>3. CASE \E ids \in SUBSET PageLines : ClickUndo(c, ids)
  <2>1. PICK ids \in SUBSET PageLines : ClickUndo(c, ids)
    BY <1>3
  <2> DEFINE found == {b \in ids : Live(b) /\ Approved(b)}
  <2>2. found \in SUBSET Banks
    BY DEF PageLines, LinesOf
  <2>3. UNCHANGED vars \/ ReadForUnapproval(c, PageStatement, found)
    BY <2>1 DEF ClickUndo
  <2> QED BY <2>2, <2>3, PageAssumption DEF Next, Decide
<1>4. CASE \E b \in PageLines : ClickReject(c, b)
  <2>1. PICK b \in PageLines : ClickReject(c, b)
    BY <1>4
  <2>2. b \in Banks
    BY DEF PageLines, LinesOf
  <2>3. UNCHANGED vars \/ ReadForRejection(c, b)
    BY <2>1 DEF ClickReject
  <2> QED BY <2>2, <2>3 DEF Next, Decide
<1>5. CASE ClickReport(c)
  BY <1>5 DEF ClickReport
<1> QED BY <1>1, <1>2, <1>3, <1>4, <1>5 DEF PageAsks

LEMMA OthersStep ==
  ASSUME NEW c \in Calls, OthersAsk(c)
  PROVE  Next
BY DEF OthersAsk, Next, Compute, Decide

LEMMA RouteStep ==
  ASSUME NEW c \in Calls, RouteServes(c)
  PROVE  Next \/ UNCHANGED vars
<1>1. CASE ServeProposal(c)
  BY <1>1 DEF ServeProposal, Next, Compute
<1>2. CASE ServePersist(c)
  BY <1>2 DEF ServePersist, Next, Compute
<1>3. CASE ReadResult(c)
  BY <1>3 DEF ReadResult
<1>4. CASE ServeApproval(c)
  BY <1>4 DEF ServeApproval, Next, Decide
<1>5. CASE ServeUndo(c)
  BY <1>5 DEF ServeUndo, Next, Decide
<1>6. CASE ServeFailure(c)
  BY <1>6 DEF ServeFailure, Next, Decide
<1>7. CASE StoreReport(c)
  BY <1>7 DEF StoreReport
<1>8. CASE \E st \in Statements : ReadForReport(c, st)
  BY <1>8 DEF ReadForReport
<1>9. CASE \E b \in Banks : ServeRejection(c, b) \/ ServeRefusal(c, b)
  BY <1>9 DEF ServeRejection, ServeRefusal, Next, Decide
<1>10. CASE ServeNothing(c)
  BY <1>10 DEF ServeNothing, Next, Decide
<1>11. CASE ReportFails(c)
  BY <1>11 DEF ReportFails
<1> QED BY <1>1, <1>2, <1>3, <1>4, <1>5, <1>6, <1>7, <1>8, <1>9, <1>10, <1>11 DEF RouteServes

LEMMA HearingStep ==
  ASSUME NEW c \in Calls, PageHears(c)
  PROVE  Next \/ UNCHANGED vars
<1>1. Loads(c) => Next
  BY PageAssumption DEF Loads, Next, Compute
<1> QED BY <1>1 DEF PageHears, LoadAnswered, LoadFails, DecisionAnswered, DecisionFails,
                    UndoAnswered, UndoFails, ReportAnswered

LEMMA StepSimulated ==
  ASSUME [ScreenNext]_<<vars, screenVars>>
  PROVE  [Next]_vars
<1>1. CASE \E c \in Calls : PageAsks(c)
  BY <1>1, PageAsksStep
<1>2. CASE \E c \in Calls : OthersAsk(c)
  BY <1>2, OthersStep
<1>3. CASE \E c \in Calls : RouteServes(c)
  BY <1>3, RouteStep
<1>4. CASE \E c \in Calls : PageHears(c)
  BY <1>4, HearingStep
<1>5. CASE \E b \in Banks, q \in Qbs : OthersMatch(b, q)
  BY <1>5 DEF OthersMatch, Next
<1>6. CASE UNCHANGED <<vars, screenVars>>
  BY <1>6
<1> QED BY <1>1, <1>2, <1>3, <1>4, <1>5, <1>6 DEF ScreenNext

\* The screens with the routes behind them implement MatchClaims: whatever the
\* pages ask for, the table of matches only changes as its procedures allow.
THEOREM ScreenImplementsClaims == ScreenSpec => Spec
<1>1. ScreenInit => Init
  BY DEF ScreenInit
<1> QED BY <1>1, StepSimulated, PTL DEF ScreenSpec, Spec

----------------------------------------------------------------------------
(***************************************************************************)
(* A statement that is wholly approved is in the history, since an         *)
(* approval is the only step that signs a match.                           *)
(***************************************************************************)
WasApproved == \A st \in Statements : AllApproved(st) => st \in settled

\* The step signs no match, and changes none that stays approved.
SignsNothing ==
  \A b \in Banks : Approved(b)' => Approved(b) /\ row'[b].qb = row[b].qb

LEMMA PersistSignsNothing ==
  ASSUME IInv, NEW c \in Calls, Persist(c)
  PROVE  SignsNothing
<1> SUFFICES ASSUME NEW b \in Banks, Approved(b)'
             PROVE  Approved(b) /\ row'[b].qb = row[b].qb
  BY DEF SignsNothing
<1>1. CASE \E q \in Qbs : row'[b] = NewMatch(q, "auto")
  BY <1>1, NewMatchIsLive
<1>2. CASE \E p \in Accepted(call[c].proposal) :
             LiveAuto(b, p[2]) /\ row'[b] = [row[b] EXCEPT !.replacedBy = p[1]]
  <2>1. row[b] \in Match
    BY <1>2 DEF IInv, TypeOK, LiveAuto, Live, Present
  <2>2. row'[b].qb = row[b].qb /\ row'[b].approved = row[b].approved
    BY <1>2, <2>1 DEF Match
  <2> QED BY <1>2, <2>2 DEF Approved, LiveAuto, Live
<1>3. CASE row'[b] = row[b]
  BY <1>3 DEF Approved, Present
<1>4. TypeOK /\ ProposalsMatch
  BY DEF IInv
<1>5. \/ \E q \in Qbs : /\ <<b, q>> \in Accepted(call[c].proposal)
                        /\ row'[b] = NewMatch(q, "auto")
      \/ \E p \in Accepted(call[c].proposal) :
           LiveAuto(b, p[2]) /\ row'[b] = [row[b] EXCEPT !.replacedBy = p[1]]
      \/ /\ row'[b] = row[b]
         /\ \A p \in Accepted(call[c].proposal) : p[1] # b /\ ~LiveAuto(b, p[2])
  BY <1>4, PersistRows
<1> QED BY Zenon, <1>1, <1>2, <1>3, <1>5

LEMMA ManualSignsNothing ==
  ASSUME IInv, NEW m \in Banks, NEW q \in Qbs, CreateManual(m, q)
  PROVE  SignsNothing
<1> SUFFICES ASSUME NEW b \in Banks, Approved(b)'
             PROVE  Approved(b) /\ row'[b].qb = row[b].qb
  BY DEF SignsNothing
<1>1. CASE row'[b] = NewMatch(q, "manual")
  BY <1>1, NewMatchIsLive
<1>2. CASE LiveAuto(b, q) /\ row'[b] = [row[b] EXCEPT !.replacedBy = m]
  <2>1. row[b] \in Match
    BY <1>2 DEF IInv, TypeOK, LiveAuto, Live, Present
  <2>2. row'[b].qb = row[b].qb /\ row'[b].approved = row[b].approved
    BY <1>2, <2>1 DEF Match
  <2> QED BY <1>2, <2>2 DEF Approved, LiveAuto, Live
<1>3. CASE row'[b] = row[b]
  BY <1>3 DEF Approved, Present
<1> QED BY <1>1, <1>2, <1>3 DEF CreateManual

LEMMA UndoSignsNothing ==
  ASSUME IInv, NEW c \in Calls, Unapprove(c)
  PROVE  SignsNothing
<1> SUFFICES ASSUME NEW b \in Banks, Approved(b)'
             PROVE  Approved(b) /\ row'[b].qb = row[b].qb
  BY DEF SignsNothing
<1>1. CASE Approved(b) /\ row'[b] = [row[b] EXCEPT !.approved = FALSE]
  <2>1. row[b] \in Match
    BY <1>1 DEF IInv, TypeOK, Approved, Present
  <2> QED BY <1>1, <2>1 DEF Approved, Match
<1>2. CASE row'[b] = row[b]
  BY <1>2 DEF Approved, Present
<1> QED BY <1>1, <1>2 DEF Unapprove

LEMMA DeleteSignsNothing ==
  ASSUME IInv, NEW c \in Calls, NEW d \in Banks, Delete(c, d)
  PROVE  SignsNothing
BY DEF Delete, SignsNothing, Approved, Present, IInv, TypeOK

LEMMA SameRowsSignNothing == ASSUME UNCHANGED row  PROVE SignsNothing
BY DEF SignsNothing, Approved, Present

LEMMA SettledKept ==
  ASSUME WasApproved, SignsNothing, settled' = settled
  PROVE  WasApproved'
<1> SUFFICES ASSUME NEW st \in Statements, AllApproved(st)'  PROVE st \in settled'
  BY DEF WasApproved
<1>1. \A b \in LinesOf(st) : Approved(b)'
  BY DEF AllApproved
<1>2. \A b \in LinesOf(st) : Approved(b) /\ row'[b].qb = row[b].qb
  BY <1>1 DEF SignsNothing, LinesOf
<1>3. Qbs = {row'[b].qb : b \in LinesOf(st)}
  BY DEF AllApproved
<1>4. {row'[b].qb : b \in LinesOf(st)} = {row[b].qb : b \in LinesOf(st)}
  BY <1>2
<1>5. AllApproved(st)
  BY <1>2, <1>3, <1>4 DEF AllApproved
<1> QED BY <1>5 DEF WasApproved

----------------------------------------------------------------------------
(***************************************************************************)
(* Types of what the screen adds.                                          *)
(***************************************************************************)
Said == {"none", "reconciled", "partly"}
Views == [PageLines -> [match : {"none", "open", "approved"}, names : BOOLEAN,
                        loose : BOOLEAN]]
Kinds == {"none", "load", "approve", "reject", "undo", "report"}
Stages == {"none", "serving", "approved", "reported", "ok", "failed"}
Requests == [kind : Kinds, stage : Stages, page : BOOLEAN, undone : SUBSET Banks,
             view : Views, of : Statements \cup {NoStatement}, report : Said]
Pages == [open : BOOLEAN, view : Views, actions : SUBSET SUBSET PageLines, shown : Said]

ScreenType ==
  /\ request \in [Calls -> Requests]
  /\ report \in [Statements -> Said]
  /\ page \in Pages

LEMMA Blank == NoRequest \in Requests /\ NoView \in Views /\ NoPage \in Pages
<1>1. NoView \in Views
  BY DEF NoView, Views
<1>2. NoRequest \in Requests
  BY <1>1 DEF NoRequest, Requests, Said, Kinds, Stages
<1>3. NoPage \in Pages
  BY <1>1 DEF NoPage, Pages, Said
<1> QED BY <1>1, <1>2, <1>3

\* The step gives no request another answer about a reconciled statement.
NoNewAnswer ==
  \A d \in Calls : request'[d].report = "reconciled" =>
    /\ request[d].report = "reconciled"
    /\ request'[d].of = request[d].of /\ request'[d].kind = request[d].kind

LEMMA WriteRequest ==
  ASSUME ScreenType, NEW c \in Calls, NEW r \in Requests,
         \/ r.report = "none"
         \/ r.report = request[c].report /\ r.of = request[c].of /\ r.kind = request[c].kind,
         request' = [request EXCEPT ![c] = r]
  PROVE  request' \in [Calls -> Requests] /\ NoNewAnswer
BY DEF ScreenType, NoNewAnswer

LEMMA AskWrites ==
  ASSUME ScreenType, NEW c \in Calls, NEW kind \in Kinds, NEW stage \in Stages,
         NEW fromPage \in BOOLEAN, Ask(c, kind, stage, fromPage)
  PROVE  request' \in [Calls -> Requests] /\ NoNewAnswer
<1> DEFINE r == [NoRequest EXCEPT !.kind = kind, !.stage = stage, !.page = fromPage]
<1>1. NoRequest \in Requests /\ NoRequest.report = "none"
  BY Blank DEF NoRequest
<1>2. r \in Requests /\ r.report = "none"
  BY <1>1 DEF Requests
<1>3. request' = [request EXCEPT ![c] = r]
  BY DEF Ask
<1> QED BY <1>2, <1>3, WriteRequest

LEMMA DoneWrites ==
  ASSUME ScreenType, NEW c \in Calls, Done(c)
  PROVE  request' \in [Calls -> Requests] /\ NoNewAnswer
<1>1. NoRequest.report = "none"
  BY DEF NoRequest
<1> QED BY <1>1, Blank, WriteRequest DEF Done

LEMMA BecomesWrites ==
  ASSUME ScreenType, NEW c \in Calls, NEW stage \in Stages, Becomes(c, stage)
  PROVE  request' \in [Calls -> Requests] /\ NoNewAnswer
<1> DEFINE r == [request[c] EXCEPT !.stage = stage]
<1>1. /\ r \in Requests /\ r.report = request[c].report
      /\ r.of = request[c].of /\ r.kind = request[c].kind
  BY DEF ScreenType, Requests
<1>2. request' = [request EXCEPT ![c] = r]
  BY DEF Becomes
<1> QED BY <1>1, <1>2, WriteRequest

LEMMA FinishWrites ==
  ASSUME ScreenType, NEW c \in Calls, NEW outcome \in Stages, Finish(c, outcome)
  PROVE  request' \in [Calls -> Requests] /\ NoNewAnswer
BY BecomesWrites, DoneWrites DEF Finish

LEMMA WriteAll ==
  ASSUME ScreenType, request' = [d \in Calls |-> request'[d]],
         \A d \in Calls : \/ request'[d] = NoRequest
                          \/ /\ request'[d] \in Requests
                             /\ request'[d].report = request[d].report
                             /\ request'[d].of = request[d].of
                             /\ request'[d].kind = request[d].kind
  PROVE  request' \in [Calls -> Requests] /\ NoNewAnswer
<1>1. NoRequest \in Requests /\ NoRequest.report = "none"
  BY Blank DEF NoRequest
<1> QED BY <1>1 DEF NoNewAnswer

LEMMA ViewTypes ==
  ASSUME NEW view \in Views
  PROVE  /\ View \in Views
         /\ \A ids \in SUBSET PageLines : AfterApprovals(view, ids) \in Views
         /\ \A b \in PageLines : AfterRejection(view, b) \in Views
         /\ \A b \in Banks : Unnamed(view, b) \in Views
<1>1. View \in Views
  BY DEF View, Views, Present, Live
<1>2. ASSUME NEW ids \in SUBSET PageLines  PROVE AfterApprovals(view, ids) \in Views
  <2>1. ASSUME NEW b \in PageLines
        PROVE  [view[b] EXCEPT !.match = "approved"]
                 \in [match : {"none", "open", "approved"}, names : BOOLEAN, loose : BOOLEAN]
    BY DEF Views
  <2> QED BY <2>1 DEF AfterApprovals, Views
<1>3. ASSUME NEW b \in PageLines  PROVE AfterRejection(view, b) \in Views
  BY Blank DEF AfterRejection, Views
<1>4. ASSUME NEW b \in Banks  PROVE Unnamed(view, b) \in Views
  <2>1. ASSUME b \in PageLines
        PROVE  [view[b] EXCEPT !.names = FALSE]
                 \in [match : {"none", "open", "approved"}, names : BOOLEAN, loose : BOOLEAN]
    BY <2>1 DEF Views
  <2> QED BY <2>1 DEF Unnamed, Views
<1> QED BY <1>1, <1>2, <1>3, <1>4

----------------------------------------------------------------------------
(***************************************************************************)
(* What is stored, being stored or shown as reconciled was settled.  Most  *)
(* steps are plain: they sign no match and say nothing new.                *)
(***************************************************************************)
AnswersAreTrue ==
  \A c \in Calls : request[c].report = "reconciled" =>
    /\ request[c].of \in settled
    /\ request[c].kind = "report" => request[c].of = PageStatement

SInv == IInv /\ ScreenType /\ WasApproved /\ AnswersAreTrue /\ ReconciledWasApproved

Plain ==
  /\ SignsNothing
  /\ NoNewAnswer
  /\ UNCHANGED <<settled, report>>
  /\ page'.shown \in {page.shown, "none"}

LEMMA PlainStep ==
  ASSUME SInv, Plain
  PROVE  WasApproved' /\ AnswersAreTrue' /\ ReconciledWasApproved'
<1>1. WasApproved'
  BY SettledKept DEF SInv, Plain
<1>2. AnswersAreTrue'
  BY DEF SInv, Plain, NoNewAnswer, AnswersAreTrue
<1>3. ReconciledWasApproved'
  BY DEF SInv, Plain, ReconciledWasApproved
<1> QED BY <1>1, <1>2, <1>3

LEMMA LoadsPlainly ==
  ASSUME SInv, NEW c \in Calls, Loads(c)
  PROVE  UNCHANGED row /\ request' \in [Calls -> Requests] /\ NoNewAnswer
<1>1. "load" \in Kinds /\ "serving" \in Stages /\ TRUE \in BOOLEAN
  BY DEF Kinds, Stages
<1> QED BY <1>1, AskWrites DEF Loads, ReadStatement, SInv

LEMMA PageAsksPlainly ==
  ASSUME SInv, NEW c \in Calls, PageAsks(c), ~ClickReport(c)
  PROVE  ScreenType' /\ Plain
<1> USE DEF SInv
<1>1. CASE OpenPage(c)
  <2>1. UNCHANGED row /\ request' \in [Calls -> Requests] /\ NoNewAnswer
    BY <1>1, LoadsPlainly DEF OpenPage
  <2> QED BY <1>1, <2>1, SameRowsSignNothing DEF OpenPage, Plain, ScreenType
<1>2. ASSUME NEW ids \in SUBSET PageLines, ClickApprove(c, ids)
      PROVE  ScreenType' /\ Plain
  <2>1. UNCHANGED row
    BY <1>2 DEF ClickApprove, ReadForApproval, vars
  <2>2. \E stage \in Stages : Ask(c, "approve", stage, TRUE)
    BY <1>2 DEF ClickApprove, Stages
  <2>3. "approve" \in Kinds
    BY DEF Kinds
  <2>4. request' \in [Calls -> Requests] /\ NoNewAnswer
    BY <2>2, <2>3, AskWrites
  <2>5. AfterApprovals(page.view, ids) \in Views
    BY ViewTypes DEF ScreenType, Pages
  <2>6. page' \in Pages /\ page'.shown = page.shown
    BY <1>2, <2>5 DEF ClickApprove, ScreenType, Pages
  <2>7. UNCHANGED <<settled, report>>
    BY <1>2 DEF ClickApprove, Clicks
  <2> QED BY <2>1, <2>4, <2>6, <2>7, SameRowsSignNothing DEF Plain, ScreenType
<1>3. ASSUME NEW ids \in SUBSET PageLines, ClickUndo(c, ids)
      PROVE  ScreenType' /\ Plain
  <2>1. UNCHANGED row
    BY <1>3 DEF ClickUndo, ReadForUnapproval, vars
  <2>2. PICK stage \in Stages :
          request' = [request EXCEPT ![c] =
            [NoRequest EXCEPT !.kind = "undo", !.stage = stage, !.page = TRUE, !.undone = ids]]
    BY <1>3 DEF ClickUndo, Stages
  <2>3. /\ [NoRequest EXCEPT !.kind = "undo", !.stage = stage, !.page = TRUE, !.undone = ids]
             \in Requests
        /\ [NoRequest EXCEPT !.kind = "undo", !.stage = stage, !.page = TRUE,
                             !.undone = ids].report = "none"
    <3>1. NoRequest \in Requests /\ NoRequest.report = "none"
      BY Blank DEF NoRequest
    <3>2. ids \in SUBSET Banks
      BY DEF PageLines, LinesOf
    <3> QED BY <3>1, <3>2 DEF Requests, Kinds
  <2>4. request' \in [Calls -> Requests] /\ NoNewAnswer
    BY <2>2, <2>3, WriteRequest
  <2>5. UNCHANGED <<settled, report, page>>
    BY <1>3 DEF ClickUndo, Clicks
  <2> QED BY <2>1, <2>4, <2>5, SameRowsSignNothing DEF Plain, ScreenType
<1>4. ASSUME NEW b \in PageLines, ClickReject(c, b)
      PROVE  ScreenType' /\ Plain
  <2>1. UNCHANGED row
    BY <1>4 DEF ClickReject, ReadForRejection, vars
  <2>2. \E stage \in Stages : Ask(c, "reject", stage, TRUE)
    BY <1>4 DEF ClickReject, Stages
  <2>3. "reject" \in Kinds
    BY DEF Kinds
  <2>4. request' \in [Calls -> Requests] /\ NoNewAnswer
    BY <2>2, <2>3, AskWrites
  <2>5. AfterRejection(page.view, b) \in Views
    BY ViewTypes DEF ScreenType, Pages
  <2>6. page' \in Pages /\ page'.shown = page.shown
    BY <1>4, <2>5 DEF ClickReject, ScreenType, Pages
  <2>7. UNCHANGED <<settled, report>>
    BY <1>4 DEF ClickReject, Clicks
  <2> QED BY <2>1, <2>4, <2>6, <2>7, SameRowsSignNothing DEF Plain, ScreenType
<1> QED BY <1>1, <1>2, <1>3, <1>4 DEF PageAsks

LEMMA OthersPlainly ==
  ASSUME SInv, NEW c \in Calls, OthersAsk(c)
  PROVE  ScreenType' /\ Plain
<1> USE DEF SInv
<1>1. UNCHANGED row
  BY DEF OthersAsk, ReadStatement, ReadForApproval, ReadForUnapproval, ReadForRejection
<1>2. \E kind \in Kinds : Ask(c, kind, "serving", FALSE)
  BY DEF OthersAsk, Kinds
<1>3. "serving" \in Stages
  BY DEF Stages
<1>4. request' \in [Calls -> Requests] /\ NoNewAnswer
  BY <1>2, <1>3, AskWrites
<1>5. UNCHANGED <<settled, report, page>>
  BY DEF OthersAsk
<1> QED BY <1>1, <1>4, <1>5, SameRowsSignNothing DEF Plain, ScreenType

LEMMA OthersMatchPlainly ==
  ASSUME SInv, NEW b \in Banks, NEW q \in Qbs, OthersMatch(b, q)
  PROVE  ScreenType' /\ Plain
<1>1. SignsNothing
  BY ManualSignsNothing DEF OthersMatch, SInv
<1>2. UNCHANGED <<settled, report, page, request>>
  BY DEF OthersMatch
<1> QED BY <1>1, <1>2 DEF Plain, ScreenType, NoNewAnswer, SInv

Reports(c) == ServeApproval(c) \/ StoreReport(c) \/ \E st \in Statements : ReadForReport(c, st)

LEMMA RouteServesPlainly ==
  ASSUME SInv, NEW c \in Calls, RouteServes(c), ~Reports(c)
  PROVE  ScreenType' /\ Plain
<1> USE DEF SInv
<1>1. "ok" \in Stages /\ "failed" \in Stages
  BY DEF Stages
<1>2. CASE ServeProposal(c)
  <2>1. UNCHANGED <<row, request, settled, report, page>>
    BY <1>2 DEF ServeProposal, Serves, Propose
  <2> QED BY <2>1, SameRowsSignNothing DEF Plain, ScreenType, NoNewAnswer
<1>3. CASE ServePersist(c)
  <2>1. SignsNothing
    BY <1>3, PersistSignsNothing DEF ServePersist
  <2>2. UNCHANGED <<request, settled, report, page>>
    BY <1>3 DEF ServePersist, Serves
  <2> QED BY <2>1, <2>2 DEF Plain, ScreenType, NoNewAnswer
<1>4. CASE ReadResult(c)
  <2>1. UNCHANGED <<row, settled, report, page>>
    BY <1>4 DEF ReadResult, Serves, vars
  <2>2. CASE request[c].page
    <3> DEFINE r == [request[c] EXCEPT !.stage = "ok", !.view = View]
    <3>1. View \in Views
      BY ViewTypes DEF ScreenType, Pages
    <3>2. /\ r \in Requests /\ r.report = request[c].report
          /\ r.of = request[c].of /\ r.kind = request[c].kind
      BY <1>1, <3>1 DEF ScreenType, Requests
    <3>3. request' = [request EXCEPT ![c] = r]
      BY <1>4, <2>2 DEF ReadResult
    <3> QED BY <2>1, <3>2, <3>3, WriteRequest, SameRowsSignNothing DEF Plain, ScreenType
  <2>3. CASE ~request[c].page
    <3>1. Done(c)
      BY <1>4, <2>3 DEF ReadResult
    <3> QED BY <2>1, <3>1, DoneWrites, SameRowsSignNothing DEF Plain, ScreenType
  <2> QED BY <2>2, <2>3
<1>5. CASE ServeUndo(c)
  <2>1. SignsNothing
    BY <1>5, UndoSignsNothing DEF ServeUndo
  <2>2. UNCHANGED <<settled, report, page>> /\ Finish(c, "ok")
    BY <1>5 DEF ServeUndo, Serves
  <2> QED BY <1>1, <2>1, <2>2, FinishWrites DEF Plain, ScreenType
<1>6. CASE ServeFailure(c)
  <2>1. UNCHANGED <<row, settled, report, page>> /\ Finish(c, "failed")
    BY <1>6 DEF ServeFailure, Serves, CallStops
  <2> QED BY <1>1, <2>1, FinishWrites, SameRowsSignNothing DEF Plain, ScreenType
<1>7. ASSUME NEW b \in Banks, ServeRefusal(c, b)
      PROVE  ScreenType' /\ Plain
  <2>1. UNCHANGED <<row, settled, report, page>> /\ Finish(c, "failed")
    BY <1>7 DEF ServeRefusal, Serves, DeleteRefused
  <2> QED BY <1>1, <2>1, FinishWrites, SameRowsSignNothing DEF Plain, ScreenType
<1>8. ASSUME NEW b \in Banks, ServeRejection(c, b)
      PROVE  ScreenType' /\ Plain
  <2>1. SignsNothing
    BY <1>8, DeleteSignsNothing DEF ServeRejection
  <2>2. request' = [d \in Calls |-> request'[d]]
    BY <1>8 DEF ServeRejection
  <2>3. ASSUME NEW d \in Calls
        PROVE  \/ request'[d] = NoRequest
               \/ /\ request'[d] \in Requests
                  /\ request'[d].report = request[d].report
                  /\ request'[d].of = request[d].of
                  /\ request'[d].kind = request[d].kind
    <3>1. request[d] \in Requests /\ Unnamed(request[d].view, b) \in Views
      BY ViewTypes DEF ScreenType, Requests
    <3>2. CASE d = c
      BY <1>1, <1>8, <3>1, <3>2 DEF ServeRejection, Requests
    <3>3. CASE d # c
      <4>1. request'[d] = [request[d] EXCEPT !.view = Unnamed(@, b), !.undone = @ \ {b}]
        BY <1>8, <3>3 DEF ServeRejection
      <4> QED BY <3>1, <4>1 DEF Requests
    <3> QED BY <3>2, <3>3
  <2>4. request' \in [Calls -> Requests] /\ NoNewAnswer
    BY <2>2, <2>3, WriteAll
  <2>5. page' = [page EXCEPT !.view = Unnamed(@, b), !.actions = {ids \ {b} : ids \in @}]
    BY <1>8 DEF ServeRejection
  <2>6. Unnamed(page.view, b) \in Views
    BY ViewTypes DEF ScreenType, Pages
  <2>7. page' \in Pages /\ page'.shown = page.shown
    <3> DEFINE kept == {ids \ {b} : ids \in page.actions}
    <3>1. kept \in SUBSET SUBSET PageLines
      BY DEF ScreenType, Pages
    <3>2. page' = [page EXCEPT !.view = Unnamed(page.view, b), !.actions = kept]
      BY <2>5
    <3> HIDE DEF kept
    <3> QED BY <2>6, <3>1, <3>2 DEF ScreenType, Pages
  <2>8. UNCHANGED <<settled, report>>
    BY <1>8 DEF ServeRejection
  <2> QED BY <2>1, <2>4, <2>7, <2>8 DEF Plain, ScreenType
<1>9. CASE ServeNothing(c)
  <2>1. UNCHANGED <<row, settled, report, page>> /\ Finish(c, "ok")
    BY <1>9 DEF ServeNothing, Serves, DeleteNothing
  <2> QED BY <1>1, <2>1, FinishWrites, SameRowsSignNothing DEF Plain, ScreenType
<1>10. CASE ReportFails(c)
  <2>1. UNCHANGED <<row, settled, report, page>> /\ Finish(c, "failed")
    BY <1>10 DEF ReportFails, Serves, vars
  <2> QED BY <1>1, <2>1, FinishWrites, SameRowsSignNothing DEF Plain, ScreenType
<1> QED BY <1>2, <1>3, <1>4, <1>5, <1>6, <1>7, <1>8, <1>9, <1>10 DEF RouteServes, Reports

LEMMA PageHearsPlainly ==
  ASSUME SInv, NEW c \in Calls, PageHears(c), ~ReportAnswered(c)
  PROVE  ScreenType' /\ Plain
<1> USE DEF SInv
<1>1. CASE LoadAnswered(c)
  <2>1. UNCHANGED <<row, settled, report>> /\ Done(c)
    BY <1>1 DEF LoadAnswered, Answered, vars
  <2>2. page' = [page EXCEPT !.open = TRUE, !.view = request[c].view]
    BY <1>1 DEF LoadAnswered
  <2>3. page' \in Pages /\ page'.shown = page.shown
    BY <2>2 DEF ScreenType, Pages, Requests
  <2> QED BY <2>1, <2>3, DoneWrites, SameRowsSignNothing DEF Plain, ScreenType
<1>2. CASE LoadFails(c)
  <2>1. UNCHANGED <<row, settled, report>> /\ page' = NoPage
    BY <1>2 DEF LoadFails, Answered, vars
  <2>2. request' = [d \in Calls |-> request'[d]]
    BY <1>2 DEF LoadFails
  <2>3. ASSUME NEW d \in Calls
        PROVE  \/ request'[d] = NoRequest
               \/ /\ request'[d] \in Requests
                  /\ request'[d].report = request[d].report
                  /\ request'[d].of = request[d].of
                  /\ request'[d].kind = request[d].kind
    <3>1. request[d] \in Requests
      BY DEF ScreenType
    <3>2. \/ request'[d] = NoRequest
          \/ request'[d] = [request[d] EXCEPT !.page = FALSE]
      BY <1>2 DEF LoadFails
    <3> QED BY <3>1, <3>2 DEF Requests
  <2>4. request' \in [Calls -> Requests] /\ NoNewAnswer
    BY <2>2, <2>3, WriteAll
  <2>5. page' \in Pages /\ page'.shown = "none"
    BY <2>1, Blank DEF NoPage
  <2> QED BY <2>1, <2>4, <2>5, SameRowsSignNothing DEF Plain, ScreenType
<1>3. CASE DecisionAnswered(c)
  <2>1. UNCHANGED <<row, settled, report, page>> /\ Done(c)
    BY <1>3 DEF DecisionAnswered, Answered, vars
  <2> QED BY <2>1, DoneWrites, SameRowsSignNothing DEF Plain, ScreenType
<1>4. CASE DecisionFails(c)
  <2>1. UNCHANGED <<settled, report, page>> /\ Loads(c)
    BY <1>4 DEF DecisionFails, Answered
  <2> QED BY <2>1, LoadsPlainly, SameRowsSignNothing DEF Plain, ScreenType
<1>5. CASE UndoAnswered(c)
  <2>1. UNCHANGED <<settled, report>> /\ Loads(c)
    BY <1>5 DEF UndoAnswered, Answered
  <2>2. page' = [page EXCEPT !.actions = @ \ {request[c].undone}]
    BY <1>5 DEF UndoAnswered
  <2>3. page' \in Pages /\ page'.shown = page.shown
    BY <2>2 DEF ScreenType, Pages
  <2> QED BY <2>1, <2>3, LoadsPlainly, SameRowsSignNothing DEF Plain, ScreenType
<1>6. CASE UndoFails(c)
  <2>1. UNCHANGED <<row, settled, report, page>> /\ Done(c)
    BY <1>6 DEF UndoFails, Answered, vars
  <2> QED BY <2>1, DoneWrites, SameRowsSignNothing DEF Plain, ScreenType
<1> QED BY <1>1, <1>2, <1>3, <1>4, <1>5, <1>6 DEF PageHears

----------------------------------------------------------------------------
(***************************************************************************)
(* The steps that approve, compute, store or show a report.                *)
(***************************************************************************)
SScreen == ScreenType /\ WasApproved /\ AnswersAreTrue /\ ReconciledWasApproved

LEMMA ApprovalStep ==
  ASSUME SInv, NEW c \in Calls, ServeApproval(c)
  PROVE  SScreen'
<1> USE DEF SInv
<1>1. "approved" \in Stages
  BY DEF Stages
<1>2. request' \in [Calls -> Requests] /\ NoNewAnswer
  BY <1>1, BecomesWrites DEF ServeApproval
<1>3. UNCHANGED <<report, page>> /\ settled \subseteq settled'
  BY DEF ServeApproval
<1>4. WasApproved'
  BY DEF ServeApproval, WasApproved
<1>5. AnswersAreTrue'
  BY <1>2, <1>3 DEF AnswersAreTrue, NoNewAnswer
<1> QED BY <1>2, <1>3, <1>4, <1>5 DEF SScreen, ScreenType, ReconciledWasApproved

LEMMA ComputeReportStep ==
  ASSUME SInv, NEW c \in Calls, NEW st \in Statements, ReadForReport(c, st)
  PROVE  SScreen'
<1> USE DEF SInv
<1> DEFINE r == [request[c] EXCEPT !.stage = "reported", !.of = st, !.report = ReportOf(st)]
<1>1. UNCHANGED <<row, report, page, settled>> /\ request' = [request EXCEPT ![c] = r]
  BY DEF ReadForReport, Serves, vars
<1>2. r \in Requests /\ r.of = st /\ r.report = ReportOf(st) /\ r.kind = "approve"
  BY DEF ScreenType, Requests, Stages, Said, ReportOf, ReadForReport, Is
<1>3. r.report = "reconciled" => r.of \in settled
  BY <1>2 DEF ReportOf, WasApproved
<1>4. AnswersAreTrue'
  BY <1>1, <1>2, <1>3 DEF AnswersAreTrue, ScreenType
<1>5. WasApproved'
  BY <1>1, SettledKept, SameRowsSignNothing
<1> QED BY <1>1, <1>2, <1>4, <1>5 DEF SScreen, ScreenType, ReconciledWasApproved

LEMMA StoreReportStep ==
  ASSUME SInv, NEW c \in Calls, StoreReport(c)
  PROVE  SScreen'
<1> USE DEF SInv
<1>1. "ok" \in Stages
  BY DEF Stages
<1>2. request' \in [Calls -> Requests] /\ NoNewAnswer
  BY <1>1, FinishWrites DEF StoreReport
<1>3. UNCHANGED <<row, page, settled>>
  BY DEF StoreReport, vars
<1>4. report' = [report EXCEPT ![request[c].of] = request[c].report]
  BY DEF StoreReport
<1>5. request[c].report \in Said /\ (request[c].report = "reconciled" => request[c].of \in settled)
  BY DEF ScreenType, Requests, AnswersAreTrue
<1>6. report' \in [Statements -> Said]
  BY <1>4, <1>5 DEF ScreenType
<1>7. ReconciledWasApproved'
  BY <1>3, <1>4, <1>5 DEF ReconciledWasApproved, ScreenType
<1>8. AnswersAreTrue'
  BY <1>2, <1>3 DEF AnswersAreTrue, NoNewAnswer
<1>9. WasApproved'
  BY <1>3, SettledKept, SameRowsSignNothing
<1> QED BY <1>2, <1>3, <1>6, <1>7, <1>8, <1>9 DEF SScreen, ScreenType

LEMMA AskReportStep ==
  ASSUME SInv, NEW c \in Calls, ClickReport(c)
  PROVE  SScreen'
<1> USE DEF SInv
<1> DEFINE r == [NoRequest EXCEPT !.kind = "report", !.stage = "ok", !.page = TRUE,
                                  !.of = PageStatement, !.report = report[PageStatement]]
<1>1. UNCHANGED <<row, report, page, settled>>
  BY DEF ClickReport, Clicks, vars
<1>2. request' = [request EXCEPT ![c] = r]
  BY DEF ClickReport, ReportAsked, Reported
<1>3. NoRequest \in Requests /\ report[PageStatement] \in Said
  BY Blank, PageAssumption DEF ScreenType
<1>4. r \in Requests /\ r.of = PageStatement /\ r.report = report[PageStatement]
  BY <1>3, PageAssumption DEF Requests, Kinds, Stages
<1>5. r.report = "reconciled" => r.of \in settled
  BY <1>4, PageAssumption DEF ReconciledWasApproved
<1>6. AnswersAreTrue'
  BY <1>1, <1>2, <1>4, <1>5 DEF AnswersAreTrue, ScreenType
<1>7. WasApproved'
  BY <1>1, SettledKept, SameRowsSignNothing
<1> QED BY <1>1, <1>2, <1>4, <1>6, <1>7 DEF SScreen, ScreenType, ReconciledWasApproved

LEMMA ShowReportStep ==
  ASSUME SInv, NEW c \in Calls, ReportAnswered(c)
  PROVE  SScreen'
<1> USE DEF SInv
<1>1. UNCHANGED <<row, report, settled>> /\ Done(c)
  BY DEF ReportAnswered, Answered, vars
<1>2. request' \in [Calls -> Requests] /\ NoNewAnswer
  BY <1>1, DoneWrites
<1>3. request[c].report \in Said
  BY DEF ScreenType, Requests
<1>4. page' \in Pages /\ page'.shown \in {page.shown, request[c].report}
  BY <1>3 DEF ReportAnswered, ScreenType, Pages
<1>5. ReconciledWasApproved'
  BY <1>1, <1>4 DEF ReconciledWasApproved, AnswersAreTrue, ReportAnswered, Answered
<1>6. AnswersAreTrue'
  BY <1>1, <1>2 DEF AnswersAreTrue, NoNewAnswer
<1>7. WasApproved'
  BY <1>1, SettledKept, SameRowsSignNothing
<1> QED BY <1>1, <1>2, <1>4, <1>5, <1>6, <1>7 DEF SScreen, ScreenType

----------------------------------------------------------------------------
LEMMA SInvInit == ScreenInit => SInv
<1> SUFFICES ASSUME ScreenInit  PROVE SInv
  OBVIOUS
<1>1. IInv
  BY IInvInit DEF ScreenInit
<1>2. ScreenType
  BY Blank DEF ScreenInit, ScreenType, Said
<1>3. WasApproved
  BY DEF ScreenInit, WasApproved
<1>4. AnswersAreTrue /\ ReconciledWasApproved
  BY DEF ScreenInit, AnswersAreTrue, ReconciledWasApproved, NoRequest, NoPage
<1> QED BY <1>1, <1>2, <1>3, <1>4 DEF SInv

LEMMA SInvStep == SInv /\ [ScreenNext]_<<vars, screenVars>> => SInv'
<1> SUFFICES ASSUME SInv, [ScreenNext]_<<vars, screenVars>>  PROVE SInv'
  OBVIOUS
<1>1. IInv'
  BY StepSimulated, IInvStep DEF SInv
<1>2. ASSUME ScreenType' /\ Plain  PROVE SScreen'
  BY <1>2, PlainStep DEF SScreen
<1>3. ASSUME NEW c \in Calls, PageAsks(c)  PROVE SScreen'
  BY <1>2, <1>3, PageAsksPlainly, AskReportStep
<1>4. ASSUME NEW c \in Calls, OthersAsk(c)  PROVE SScreen'
  BY <1>2, <1>4, OthersPlainly
<1>5. ASSUME NEW c \in Calls, RouteServes(c)  PROVE SScreen'
  BY <1>2, <1>5, RouteServesPlainly, ApprovalStep, ComputeReportStep, StoreReportStep
     DEF Reports
<1>6. ASSUME NEW c \in Calls, PageHears(c)  PROVE SScreen'
  BY <1>2, <1>6, PageHearsPlainly, ShowReportStep
<1>7. ASSUME NEW b \in Banks, NEW q \in Qbs, OthersMatch(b, q)  PROVE SScreen'
  BY <1>2, <1>7, OthersMatchPlainly
<1>8. ASSUME UNCHANGED <<vars, screenVars>>  PROVE SScreen'
  <2>1. UNCHANGED <<row, report, request, page, settled>>
    BY <1>8 DEF vars, screenVars
  <2> QED BY <1>2, <2>1, SameRowsSignNothing DEF SInv, Plain, ScreenType, NoNewAnswer
<1>9. SScreen'
  BY <1>3, <1>4, <1>5, <1>6, <1>7, <1>8 DEF ScreenNext
<1> QED BY <1>1, <1>9 DEF SInv, SScreen

\* A statement is only reported as reconciled if it was wholly approved at one
\* moment, whatever approvals, undoings, rejections and reports overlap.
THEOREM ReportsAreTrue == ScreenSpec => []ReconciledWasApproved
<1>1. SInv => ReconciledWasApproved
  BY DEF SInv
<1> QED BY <1>1, SInvInit, SInvStep, PTL DEF ScreenSpec

----------------------------------------------------------------------------
(***************************************************************************)
(* The statement pages. Induction: of some naturals one is least, of some  *)
(* subsets one is smallest, of an ordered finite set one member is last,   *)
(* and a fold that takes such members one at a time has a result.          *)
(***************************************************************************)

LEMMA LeastNatural ==
  ASSUME NEW T, T \subseteq Nat, T # {}
  PROVE  \E x \in T : \A y \in T : ~(y < x)
<1>1. PICK R : R = OpToRel(<, Nat)
  OBVIOUS
<1>2. IsWellFoundedOn(R, Nat)
  BY <1>1, NatLessThanWellFounded
<1>3. PICK x \in T : \A y \in T : <<y, x>> \notin R
  BY <1>2, WFMin
<1>4. \A y \in T : y < x => <<y, x>> \in R
  BY <1>1 DEF OpToRel
<1>5. QED BY <1>3, <1>4

LEMMA SmallestSubset ==
  ASSUME NEW S, IsFiniteSet(S), NEW Bad, Bad \subseteq SUBSET S, Bad # {}
  PROVE  \E s \in Bad : \A t \in Bad : Cardinality(t) >= Cardinality(s)
<1>1. \A s \in SUBSET S : IsFiniteSet(s) /\ Cardinality(s) \in Nat
  BY FS_Subset, FS_CardinalityType
<1>2. PICK T : T = {Cardinality(s) : s \in Bad}
  OBVIOUS
<1>3. T \subseteq Nat /\ T # {}
  BY <1>1, <1>2
<1>4. PICK n \in T : \A y \in T : ~(y < n)
  BY <1>3, LeastNatural
<1>5. PICK s \in Bad : Cardinality(s) = n
  BY <1>2
<1>6. \A t \in Bad : Cardinality(t) \in T /\ Cardinality(t) \in Nat
  BY <1>1, <1>2
<1>7. QED BY <1>3, <1>4, <1>5, <1>6

Orders(R, S) ==
  /\ \A x, y \in S : x = y \/ <<x, y>> \in R \/ <<y, x>> \in R
  /\ \A x, y, z \in S : <<x, y>> \in R /\ <<y, z>> \in R => <<x, z>> \in R
HasLast(T, R) == \E x \in T : \A y \in T : y = x \/ <<y, x>> \in R

\* A nonempty part of a finite ordered set has a last member.
LEMMA LastExists ==
  ASSUME NEW S, IsFiniteSet(S), NEW R, Orders(R, S), NEW T \in SUBSET S, T # {}
  PROVE  HasLast(T, R)
<1> DEFINE Bad == {U \in SUBSET S : U # {} /\ ~HasLast(U, R)}
<1>1. SUFFICES ASSUME Bad # {} PROVE FALSE
  OBVIOUS
<1>2. PICK U \in Bad : \A V \in Bad : Cardinality(V) >= Cardinality(U)
  <2>1. Bad \subseteq SUBSET S
    OBVIOUS
  <2> HIDE DEF Bad
  <2>2. QED BY <1>1, <2>1, SmallestSubset
<1>3. PICK u : u \in U
  OBVIOUS
<1>4. PICK V : V = U \ {u}
  OBVIOUS
<1>5. V \in SUBSET S /\ u \in S
  BY <1>3, <1>4
<1>6. Cardinality(V) = Cardinality(U) - 1 /\ Cardinality(U) \in Nat
  BY <1>3, <1>4, FS_Subset, FS_RemoveElement, FS_CardinalityType
<1>7. V \notin Bad
  BY <1>2, <1>6
<1>8. CASE V = {}
  <2>1. \A y \in U : y = u
    BY <1>4, <1>8
  <2>2. ~HasLast(U, R)
    BY <1>2
  <2>3. QED BY <1>3, <2>1, <2>2 DEF HasLast
<1>9. CASE V # {}
  <2>1. PICK x \in V : \A y \in V : y = x \/ <<y, x>> \in R
    BY <1>5, <1>7, <1>9 DEF HasLast
  <2>2. x \in S /\ x \in U /\ \A y \in U : y = u \/ y \in V
    BY <1>4, <2>1
  <2>3. ~HasLast(U, R)
    BY <1>2
  <2>4. CASE <<u, x>> \in R
    <3>1. \A y \in U : y = x \/ <<y, x>> \in R
      BY <2>1, <2>2, <2>4
    <3>2. QED BY <2>2, <2>3, <3>1 DEF HasLast
  <2>5. CASE <<x, u>> \in R
    <3>1. ASSUME NEW y \in V PROVE <<y, u>> \in R
      BY <1>5, <2>1, <2>2, <2>5 DEF Orders
    <3>2. \A y \in U : y = u \/ <<y, u>> \in R
      BY <2>2, <3>1
    <3>3. QED BY <1>3, <2>3, <3>2 DEF HasLast
  <2>6. x # u
    BY <1>4, <2>1
  <2>7. QED BY <1>5, <2>2, <2>4, <2>5, <2>6 DEF Orders
<1>10. QED BY <1>8, <1>9

\* pick names a member of each set that has one.
Picks(S, pick) == \A s \in SUBSET S : s # {} => pick[s] \in s

\* What a fold over S recurs on: step takes the result for the members but the
\* last, pick[s], and this one.
IsFold(S, base, step, pick, g) ==
  g = [s \in SUBSET S |-> IF s = {} THEN base ELSE step[<<g[s \ {pick[s]}], pick[s]>>]]
Upto(S, n) == {s \in SUBSET S : Cardinality(s) <= n}
FoldsUpto(S, n, base, step, pick, g) ==
  g = [s \in Upto(S, n) |-> IF s = {} THEN base ELSE step[<<g[s \ {pick[s]}], pick[s]>>]]
Extended(S, n, base, step, pick, g) ==
  [s \in Upto(S, n + 1) |-> IF s = {} THEN base ELSE step[<<g[s \ {pick[s]}], pick[s]>>]]

LEMMA LessIsLess ==
  ASSUME NEW S, IsFiniteSet(S), NEW s \in SUBSET S, NEW x \in s
  PROVE  /\ s \ {x} \in SUBSET S /\ IsFiniteSet(s)
         /\ Cardinality(s) \in Nat \ {0} /\ Cardinality(s \ {x}) = Cardinality(s) - 1
         /\ s \ {x} # s
<1>1. IsFiniteSet(s)
  BY FS_Subset
<1>2. Cardinality(s) \in Nat /\ Cardinality(s \ {x}) = Cardinality(s) - 1
  BY <1>1, FS_RemoveElement, FS_CardinalityType
<1>3. Cardinality(s) # 0
  BY <1>1, FS_EmptySet
<1>4. QED BY <1>1, <1>2, <1>3

\* A recursive definition over the subsets of a finite set has a function.
LEMMA FoldExists ==
  ASSUME NEW S, IsFiniteSet(S), NEW base, NEW step, NEW pick,
         Picks(S, pick)
  PROVE  \E g : IsFold(S, base, step, pick, g)
<1>1. ASSUME NEW n \in Nat
      PROVE  \E g : FoldsUpto(S, n, base, step, pick, g)
  <2> DEFINE T == {k \in Nat : ~\E g : FoldsUpto(S, k, base, step, pick, g)}
  <2>1. SUFFICES ASSUME NEW k \in T, \A y \in T : ~(y < k) PROVE FALSE
    <3>1. T # {} => \E x \in T : \A y \in T : ~(y < x)
      <4>1. T \subseteq Nat
        OBVIOUS
      <4> HIDE DEF T
      <4>2. QED BY <4>1, LeastNatural
    <3>2. QED BY <3>1
  <2>2. k # 0
    <3>1. \A s \in Upto(S, 0) : s = {}
      BY FS_Subset, FS_CardinalityType, FS_EmptySet DEF Upto
    <3>2. PICK g : g = [s \in Upto(S, 0) |-> base]
      OBVIOUS
    <3>3. FoldsUpto(S, 0, base, step, pick, g)
      BY <3>1, <3>2 DEF FoldsUpto
    <3>4. QED BY <3>3
  <2>3. PICK m \in Nat : k = m + 1 /\ m \notin T
    <3>1. k - 1 \in Nat /\ k - 1 \notin T
      BY <2>1, <2>2
    <3>2. k = (k - 1) + 1
      OBVIOUS
    <3>3. QED BY <3>1, <3>2
  <2>4. PICK g : FoldsUpto(S, m, base, step, pick, g)
    BY <2>3
  <2>5. PICK h : h = Extended(S, m, base, step, pick, g)
    OBVIOUS
  <2>6. \A s \in Upto(S, m) : s \in Upto(S, m + 1)
    BY FS_Subset, FS_CardinalityType DEF Upto
  <2>7. \A s \in Upto(S, m) : h[s] = g[s]
    BY <2>4, <2>5, <2>6 DEF FoldsUpto, Extended
  <2>8. \A s \in Upto(S, m + 1) : s # {} => s \ {pick[s]} \in Upto(S, m)
    BY LessIsLess DEF Upto, Picks
  <2>9. FoldsUpto(S, m + 1, base, step, pick, h)
    BY <2>5, <2>7, <2>8 DEF FoldsUpto, Extended
  <2>10. QED BY <2>3, <2>9
<1>2. Cardinality(S) \in Nat
  BY FS_CardinalityType
<1>3. Upto(S, Cardinality(S)) = SUBSET S
  BY <1>2, FS_Subset, FS_CardinalityType DEF Upto
<1>4. PICK g : FoldsUpto(S, Cardinality(S), base, step, pick, g)
  BY <1>1, <1>2
<1>5. IsFold(S, base, step, pick, g)
  BY <1>3, <1>4 DEF FoldsUpto, IsFold
<1>6. QED BY <1>5

\* The results for s are in Acc[s].
Grows(S, base, step, pick, Acc) ==
  /\ base \in Acc[{}]
  /\ \A s \in SUBSET S : s # {} =>
       \A a \in Acc[s \ {pick[s]}] : step[<<a, pick[s]>>] \in Acc[s]

\* The results of a fold stay in sets that each step leads to.
LEMMA FoldIsTyped ==
  ASSUME NEW S, IsFiniteSet(S), NEW base, NEW step, NEW pick, NEW g, NEW Acc,
         Picks(S, pick), IsFold(S, base, step, pick, g), Grows(S, base, step, pick, Acc)
  PROVE  \A s \in SUBSET S : g[s] \in Acc[s]
<1> DEFINE Bad == {s \in SUBSET S : g[s] \notin Acc[s]}
<1>1. SUFFICES ASSUME Bad # {} PROVE FALSE
  OBVIOUS
<1>2. PICK s \in Bad : \A t \in Bad : Cardinality(t) >= Cardinality(s)
  <2>1. Bad \subseteq SUBSET S
    OBVIOUS
  <2> HIDE DEF Bad
  <2>2. QED BY <1>1, <2>1, SmallestSubset
<1>3. s # {}
  BY <1>2 DEF IsFold, Grows
<1>4. g[s] = step[<<g[s \ {pick[s]}], pick[s]>>]
  BY <1>2, <1>3 DEF IsFold
<1>5. s \ {pick[s]} \notin Bad
  BY <1>2, <1>3, LessIsLess DEF Picks
<1>6. g[s \ {pick[s]}] \in Acc[s \ {pick[s]}]
  BY <1>2, <1>3, <1>5, LessIsLess DEF Picks
<1>7. QED BY <1>2, <1>3, <1>4, <1>6 DEF Grows

\* What is said of every member of SUBSET S holds when it holds of s for what s
\* has without pick[s].
Inductive(S, pick, Good) ==
  \A s \in SUBSET S : (s # {} => s \ {pick[s]} \in Good) => s \in Good

\* Induction over the subsets of a finite set.
LEMMA SubsetInduction ==
  ASSUME NEW S, IsFiniteSet(S), NEW pick, NEW Good,
         Picks(S, pick), Inductive(S, pick, Good)
  PROVE  SUBSET S \subseteq Good
<1> DEFINE Bad == {s \in SUBSET S : s \notin Good}
<1>1. SUFFICES ASSUME Bad # {} PROVE FALSE
  OBVIOUS
<1>2. PICK s \in Bad : \A t \in Bad : Cardinality(t) >= Cardinality(s)
  <2>1. Bad \subseteq SUBSET S
    OBVIOUS
  <2> HIDE DEF Bad
  <2>2. QED BY <1>1, <2>1, SmallestSubset
<1>3. s # {} => s \ {pick[s]} \notin Bad
  BY <1>2, LessIsLess DEF Picks
<1>4. s # {} => s \ {pick[s]} \in SUBSET S
  BY <1>2
<1>5. QED BY <1>2, <1>3, <1>4 DEF Inductive

\* The greatest and the least of some positions.
LEMMA MaxIsIn ==
  ASSUME NEW n \in Nat, NEW T \in SUBSET (1..n), T # {}
  PROVE  Max(T) \in T /\ \A y \in T : Max(T) >= y
<1>1. PICK U : U = {n - y : y \in T}
  OBVIOUS
<1>2. \A y \in T : y \in Nat /\ n - y \in U /\ n - y \in Nat
  BY <1>1
<1>3. U \subseteq Nat /\ U # {}
  BY <1>1, <1>2
<1>4. PICK u \in U : \A z \in U : ~(z < u)
  BY <1>3, LeastNatural
<1>5. \E x \in T : \A y \in T : x >= y
  <2>1. PICK x \in T : u = n - x
    BY <1>1
  <2>2. \A y \in T : ~(n - y < n - x)
    BY <1>2, <1>4, <2>1
  <2>3. \A y \in T : x >= y
    BY <1>2, <2>1, <2>2
  <2>4. QED BY <2>3
<1>6. QED BY <1>5 DEF Max

LEMMA MinIsIn ==
  ASSUME NEW n \in Nat, NEW T \in SUBSET (1..n), T # {}
  PROVE  Min(T) \in T
<1>1. T \subseteq Nat
  OBVIOUS
<1>2. PICK x \in T : \A y \in T : ~(y < x)
  BY <1>1, LeastNatural
<1>3. \E z \in T : \A y \in T : z =< y
  BY <1>1, <1>2
<1>4. QED BY <1>3 DEF Min

----------------------------------------------------------------------------
(***************************************************************************)
(* The distance of two words is no less than what their lengths differ by. *)
(***************************************************************************)
Word == Seq(STRING)

AtCol(above, letter, b, vec, j) ==
  Lesser(Lesser(above[j + 1], Last(vec)) + 1, above[j] + (IF letter = b[j] THEN 0 ELSE 1))
Positions(b) == [i \in DOMAIN b |-> i]
RowFold(above, letter, b, g) ==
  g = [t \in SUBSET (DOMAIN Positions(b)) |->
         IF t = {} THEN <<above[1] + 1>>
         ELSE Append(g[t \ {Max(t)}], AtCol(above, letter, b, g[t \ {Max(t)}], Positions(b)[Max(t)]))]

LEMMA NextRowIsFold ==
  ASSUME NEW above, NEW letter, NEW b
  PROVE  NextRow(above, letter, b) = (CHOOSE g : RowFold(above, letter, b, g))[DOMAIN Positions(b)]
BY DEF NextRow, FoldLeftDomain, FoldLeft, MapThenFoldSet, RowFold, AtCol, Positions

\* Each place of a row is as far from k as its position is.
FarFrom(vec, k) == \A j \in DOMAIN vec : vec[j] >= k - (j - 1) /\ vec[j] >= (j - 1) - k

LEMMA LastPosition ==
  ASSUME NEW n \in Nat, NEW t \in SUBSET (1..n), t # {}
  PROVE  /\ Max(t) \in t /\ Max(t) \in 1..n
         /\ t \ {Max(t)} \in SUBSET (1..n)
         /\ Cardinality(t) \in Nat \ {0} /\ Cardinality(t \ {Max(t)}) = Cardinality(t) - 1
         /\ t = 1..Cardinality(t) =>
              Max(t) = Cardinality(t) /\ t \ {Max(t)} = 1..(Cardinality(t) - 1)
<1>1. Max(t) \in t /\ \A y \in t : Max(t) >= y
  BY MaxIsIn
<1>2. IsFiniteSet(1..n)
  BY FS_Interval
<1>3. PICK m : m = Max(t)
  OBVIOUS
<1>4. Cardinality(t) \in Nat \ {0} /\ Cardinality(t \ {m}) = Cardinality(t) - 1
  BY <1>1, <1>2, <1>3, LessIsLess
<1>5. PICK k : k = Cardinality(t)
  OBVIOUS
<1>6. t = 1..k => m = k /\ t \ {m} = 1..(k - 1)
  <2>1. m \in t /\ \A y \in t : m >= y
    BY <1>1, <1>3
  <2>2. k \in Nat \ {0}
    BY <1>4, <1>5
  <2>3. ASSUME t = 1..k PROVE m = k
    <3>1. m \in 1..k /\ k \in t
      BY <2>1, <2>2, <2>3
    <3>2. m >= k
      BY <2>1, <3>1
    <3>3. QED BY <2>2, <3>1, <3>2
  <2>4. QED BY <2>2, <2>3
<1>7. m \in t /\ m \in 1..n /\ t \ {m} \in SUBSET (1..n)
  BY <1>1, <1>3
<1>8. QED BY <1>3, <1>4, <1>5, <1>6, <1>7

LEMMA FartherByOne ==
  ASSUME NEW x \in Int, NEW y \in Int, NEW z \in Int, NEW v \in Int, NEW j \in Int, NEW k \in Int,
         v = x + 1 \/ v = z + 1 \/ v = y + 1 \/ v = y,
         x >= k - 1 - j, x >= j - (k - 1),
         y >= k - 1 - (j - 1), y >= (j - 1) - (k - 1),
         z >= k - (j - 1), z >= (j - 1) - k
  PROVE  v >= k - j /\ v >= j - k
OBVIOUS

\* A step along a row.
LEMMA NextIsFar ==
  ASSUME NEW b \in Word, NEW letter, NEW above \in Seq(Int), Len(above) = Len(b) + 1,
         NEW r \in Seq(Int), r # <<>>, NEW j \in 1..Len(b)
  PROVE  /\ AtCol(above, letter, b, r, j) \in Int
         /\ \A k \in Int : FarFrom(above, k - 1) /\ FarFrom(r, k) /\ Len(r) = j =>
              FarFrom(Append(r, AtCol(above, letter, b, r, j)), k)
<1>1. PICK v : v = AtCol(above, letter, b, r, j)
  OBVIOUS
<1>2. Len(r) \in Nat /\ Len(r) # 0 /\ DOMAIN r = 1..Len(r) /\ Last(r) \in Int
  BY DEF Last
<1>3. /\ Len(b) \in Nat /\ DOMAIN above = 1..(Len(b) + 1)
      /\ j \in DOMAIN above /\ j + 1 \in DOMAIN above /\ j \in Nat
      /\ above[j] \in Int /\ above[j + 1] \in Int
  BY DEF Word
<1>4. /\ v \in Int
      /\ v = above[j + 1] + 1 \/ v = Last(r) + 1 \/ v = above[j] + 1 \/ (v = above[j])
  BY <1>1, <1>2, <1>3 DEF AtCol, Lesser
<1>5. ASSUME NEW k \in Int, FarFrom(above, k - 1), FarFrom(r, k), Len(r) = j
      PROVE  FarFrom(Append(r, v), k)
  <2>1. above[j + 1] >= k - 1 - j /\ above[j + 1] >= j - (k - 1)
    BY <1>3, <1>5 DEF FarFrom
  <2>2. above[j] >= k - 1 - (j - 1) /\ above[j] >= (j - 1) - (k - 1)
    BY <1>3, <1>5 DEF FarFrom
  <2>3. Last(r) >= k - (j - 1) /\ Last(r) >= (j - 1) - k
    <3>1. j \in DOMAIN r /\ Last(r) = r[j]
      BY <1>2, <1>3, <1>5 DEF Last
    <3>2. QED BY <1>5, <3>1 DEF FarFrom
  <2>4. v >= k - j /\ v >= j - k
    <3>1. PICK x : x = above[j + 1]
      OBVIOUS
    <3>2. PICK y : y = above[j]
      OBVIOUS
    <3>3. PICK z : z = Last(r)
      OBVIOUS
    <3>4. x \in Int /\ y \in Int /\ z \in Int
      BY <1>2, <1>3, <3>1, <3>2, <3>3
    <3>5. v = x + 1 \/ v = z + 1 \/ v = y + 1 \/ v = y
      BY <1>4, <3>1, <3>2, <3>3
    <3>6. x >= k - 1 - j /\ x >= j - (k - 1)
      BY <2>1, <3>1
    <3>7. y >= k - 1 - (j - 1) /\ y >= (j - 1) - (k - 1)
      BY <2>2, <3>2
    <3>8. z >= k - (j - 1) /\ z >= (j - 1) - k
      BY <2>3, <3>3
    <3>9. j \in Int /\ v \in Int
      BY <1>3, <1>4
    <3>10. QED BY <1>5, <3>4, <3>5, <3>6, <3>7, <3>8, <3>9, FartherByOne
  <2>5. PICK vec : vec = Append(r, v)
    OBVIOUS
  <2>6. /\ DOMAIN vec = 1..(j + 1) /\ vec[j + 1] = v
        /\ \A i \in 1..j : vec[i] = r[i]
    BY <1>2, <1>4, <1>5, <2>5
  <2>7. \A i \in 1..j : vec[i] >= k - (i - 1) /\ vec[i] >= (i - 1) - k
    BY <1>2, <1>5, <2>6 DEF FarFrom
  <2>8. \A i \in 1..(j + 1) : i \in 1..j \/ i = j + 1
    BY <1>3
  <2>9. FarFrom(vec, k)
    <3>1. ASSUME NEW i \in DOMAIN vec PROVE vec[i] >= k - (i - 1) /\ vec[i] >= (i - 1) - k
      <4>1. CASE i \in 1..j
        BY <2>7, <4>1
      <4>2. CASE i = j + 1
        <5>1. vec[i] = v /\ i - 1 = j
          BY <1>3, <2>6, <4>2
        <5>2. QED BY <2>4, <5>1
      <4>3. QED BY <2>6, <2>8, <4>1, <4>2
    <3>2. QED BY <3>1 DEF FarFrom
  <2>10. QED BY <2>5, <2>9
<1>6. QED BY <1>1, <1>4, <1>5

FarBelow(above, r) == \A k \in Int : FarFrom(above, k - 1) => FarFrom(r, k)
RowsOf(above, t) ==
  {r \in Seq(Int) : Len(r) = Cardinality(t) + 1 /\ (t = 1..Cardinality(t) => FarBelow(above, r))}

LEMMA NextRowIsFar ==
  ASSUME NEW b \in Word, NEW letter, NEW above \in Seq(Int), Len(above) = Len(b) + 1
  PROVE  /\ NextRow(above, letter, b) \in Seq(Int)
         /\ Len(NextRow(above, letter, b)) = Len(b) + 1
         /\ \A k \in Int : FarFrom(above, k - 1) => FarFrom(NextRow(above, letter, b), k)
<1>1. PICK n \in Nat : n = Len(b)
  BY DEF Word
<1>2. PICK S : S = 1..n
  OBVIOUS
<1>3. DOMAIN Positions(b) = S /\ \A i \in S : Positions(b)[i] = i
  BY <1>1, <1>2 DEF Positions, Word
<1>4. IsFiniteSet(S) /\ Cardinality(S) = n
  <2>1. IsFiniteSet(1..n) /\ Cardinality(1..n) = n
    <3>1. 1 \in Int /\ n \in Int
      OBVIOUS
    <3>2. IsFiniteSet(1..n) /\ Cardinality(1..n) = IF 1 > n THEN 0 ELSE n - 1 + 1
      BY <3>1, FS_Interval
    <3>3. QED BY <3>2
  <2>2. QED BY <1>2, <2>1
<1>5. \A t \in SUBSET S : t # {} =>
        /\ Max(t) \in t /\ Max(t) \in S /\ t \ {Max(t)} \in SUBSET S
        /\ Cardinality(t) \in Nat \ {0} /\ Cardinality(t \ {Max(t)}) = Cardinality(t) - 1
        /\ t = 1..Cardinality(t) =>
             Max(t) = Cardinality(t) /\ t \ {Max(t)} = 1..(Cardinality(t) - 1)
  BY <1>2, LastPosition
<1> DEFINE Far(r) == FarBelow(above, r)
           Rows(t) == RowsOf(above, t)
           Corner == <<above[1] + 1>>
           Op(r, j) == Append(r, AtCol(above, letter, b, r, j))
<1>6. Corner \in Rows({})
  <2>1. above[1] \in Int /\ 1 \in DOMAIN above
    BY <1>1
  <2>2. Corner \in Seq(Int) /\ Len(Corner) = 1 /\ DOMAIN Corner = {1} /\ Corner[1] = above[1] + 1
    BY <2>1
  <2>3. Far(Corner)
    BY <2>1, <2>2 DEF FarFrom, FarBelow
  <2>4. Cardinality({}) = 0
    BY FS_EmptySet
  <2>5. QED BY <2>2, <2>3, <2>4 DEF RowsOf
<1>7. ASSUME NEW t \in SUBSET S, t # {}, NEW r \in Rows(t \ {Max(t)})
      PROVE  Op(r, Max(t)) \in Rows(t)
  <2>1. PICK m : m = Max(t)
    OBVIOUS
  <2>2. PICK c \in Nat : c = Cardinality(t) /\ c # 0
    BY <1>5, <1>7
  <2>3. /\ r \in Seq(Int) /\ Len(r) = (c - 1) + 1
        /\ t \ {m} = 1..(c - 1) => Far(r)
    <3>1. Cardinality(t \ {m}) = c - 1
      BY <1>5, <1>7, <2>1, <2>2
    <3>2. r \in Rows(t \ {m})
      BY <1>7, <2>1
    <3>3. /\ r \in Seq(Int) /\ Len(r) = Cardinality(t \ {m}) + 1
          /\ t \ {m} = 1..Cardinality(t \ {m}) => Far(r)
      BY <3>2 DEF RowsOf
    <3>4. QED BY <3>1, <3>3
  <2>4. Len(r) = c /\ r # <<>>
    BY <2>2, <2>3
  <2>5. m \in 1..Len(b)
    BY <1>1, <1>2, <1>5, <1>7, <2>1
  <2>6. /\ AtCol(above, letter, b, r, m) \in Int
        /\ \A k \in Int : FarFrom(above, k - 1) /\ FarFrom(r, k) /\ Len(r) = m => FarFrom(Op(r, m), k)
    BY <2>3, <2>4, <2>5, NextIsFar
  <2>7. Op(r, m) \in Seq(Int) /\ Len(Op(r, m)) = c + 1
    BY <2>3, <2>4, <2>6
  <2>8. ASSUME t = 1..c PROVE Far(Op(r, m))
    <3>1. m = c /\ t \ {m} = 1..(c - 1)
      BY <1>5, <1>7, <2>1, <2>2, <2>8
    <3>2. Far(r)
      BY <2>3, <3>1
    <3>3. QED BY <2>4, <2>6, <3>1, <3>2 DEF FarBelow
  <2> HIDE DEF Op
  <2>9. Op(r, m) \in Rows(t)
    BY <2>2, <2>7, <2>8 DEF RowsOf
  <2>10. QED BY <2>1, <2>9
<1>8. PICK pick : pick = [t \in SUBSET S |-> Max(t)]
  OBVIOUS
<1>9. PICK step : step = [y \in Seq(Int) \X S |-> Op(y[1], y[2])]
  OBVIOUS
<1>10. PICK Acc : Acc = [t \in SUBSET S |-> Rows(t)]
  OBVIOUS
<1>11. \A t \in SUBSET S : Acc[t] = Rows(t)
  BY <1>10
<1>12. \A t \in SUBSET S : Rows(t) \subseteq Seq(Int)
  BY DEF RowsOf
<1>13. \A t \in SUBSET S : t # {} => pick[t] = Max(t) /\ pick[t] \in t
  BY <1>5, <1>8
<1>14. \A r \in Seq(Int), j \in S : step[<<r, j>>] = Op(r, j)
  BY <1>9
<1> HIDE DEF Op, Rows, Corner
<1>15. Grows(S, Corner, step, pick, Acc)
  <2>1. ASSUME NEW t \in SUBSET S, t # {}, NEW r \in Acc[t \ {pick[t]}]
        PROVE  step[<<r, pick[t]>>] \in Acc[t]
    <3>1. pick[t] = Max(t) /\ Max(t) \in S /\ t \ {Max(t)} \in SUBSET S
      BY <1>5, <1>13, <2>1
    <3>2. r \in Rows(t \ {Max(t)}) /\ r \in Seq(Int)
      BY <1>11, <1>12, <2>1, <3>1
    <3>3. Op(r, Max(t)) \in Rows(t)
      BY <1>7, <2>1, <3>2
    <3>4. step[<<r, pick[t]>>] = Op(r, Max(t))
      BY <1>14, <3>1, <3>2
    <3>5. QED BY <1>11, <3>3, <3>4
  <2>2. Corner \in Acc[{}]
    BY <1>6, <1>11
  <2>3. QED BY <2>1, <2>2 DEF Grows
<1>16. Picks(S, pick)
  BY <1>13 DEF Picks
<1>17. PICK f : IsFold(S, Corner, step, pick, f)
  BY <1>4, <1>16, FoldExists
<1>18. \A t \in SUBSET S : f[t] \in Acc[t]
  BY <1>4, <1>15, <1>16, <1>17, FoldIsTyped
<1>19. f = [t \in SUBSET S |-> IF t = {} THEN Corner ELSE Op(f[t \ {Max(t)}], Max(t))]
  <2>1. \A t \in SUBSET S : t # {} => f[t \ {Max(t)}] \in Seq(Int) /\ Max(t) \in S
    <3>1. \A t \in SUBSET S : f[t] \in Seq(Int)
      BY <1>11, <1>12, <1>18
    <3>2. QED BY <1>5, <3>1
  <2>2. \A t \in SUBSET S : t # {} =>
          step[<<f[t \ {pick[t]}], pick[t]>>] = Op(f[t \ {Max(t)}], Max(t))
    BY <1>13, <1>14, <2>1
  <2>3. QED BY <1>17, <2>2 DEF IsFold
<1>20. \A g : RowFold(above, letter, b, g) <=>
         g = [t \in SUBSET S |-> IF t = {} THEN Corner ELSE Op(g[t \ {Max(t)}], Max(t))]
  <2>1. \A t \in SUBSET S : t # {} => Positions(b)[Max(t)] = Max(t)
    BY <1>3, <1>5
  <2>2. QED BY <1>3, <2>1 DEF RowFold, Op, Corner
<1>21. PICK h : h = CHOOSE g : RowFold(above, letter, b, g)
  OBVIOUS
<1>22. h = [t \in SUBSET S |-> IF t = {} THEN Corner ELSE Op(h[t \ {Max(t)}], Max(t))]
  <2>1. RowFold(above, letter, b, f)
    BY <1>19, <1>20
  <2>2. RowFold(above, letter, b, h)
    BY <1>21, <2>1
  <2>3. QED BY <1>20, <2>2
<1>23. PICK Good : Good = {t \in SUBSET S : h[t] \in Rows(t)}
  OBVIOUS
<1>24. Inductive(S, pick, Good)
  <2>1. ASSUME NEW t \in SUBSET S, t # {} => t \ {pick[t]} \in Good PROVE h[t] \in Rows(t)
    <3>1. CASE t = {}
      BY <1>6, <1>22, <3>1
    <3>2. CASE t # {}
      <4>1. h[t \ {Max(t)}] \in Rows(t \ {Max(t)})
        BY <1>13, <1>23, <2>1, <3>2
      <4>2. h[t] = Op(h[t \ {Max(t)}], Max(t))
        BY <1>22, <3>2
      <4>3. QED BY <1>7, <3>2, <4>1, <4>2
    <3>3. QED BY <3>1, <3>2
  <2>2. QED BY <1>23, <2>1 DEF Inductive
<1>25. h[S] \in Rows(S)
  <2>1. SUBSET S \subseteq Good
    BY <1>4, <1>16, <1>24, SubsetInduction
  <2>2. QED BY <1>23, <2>1
<1>26. NextRow(above, letter, b) = h[S]
  BY <1>3, <1>21, NextRowIsFold
<1>27. S = 1..Cardinality(S)
  BY <1>2, <1>4
<1>28. PICK vec : vec = NextRow(above, letter, b)
  OBVIOUS
<1>29. vec \in Seq(Int) /\ Len(vec) = n + 1 /\ Far(vec)
  <2>1. vec \in Rows(S)
    BY <1>25, <1>26, <1>28
  <2>2. QED BY <1>4, <1>27, <2>1 DEF RowsOf, Rows
<1>30. QED BY <1>1, <1>28, <1>29 DEF FarBelow

EditFold(a, b, g) ==
  g = [t \in SUBSET (DOMAIN a) |->
         IF t = {} THEN [j \in 1..(Len(b) + 1) |-> j - 1]
         ELSE NextRow(g[t \ {Max(t)}], a[Max(t)], b)]

LEMMA EditDistanceIsFold ==
  ASSUME NEW a, NEW b
  PROVE  EditDistance(a, b) = Last((CHOOSE g : EditFold(a, b, g))[DOMAIN a])
BY DEF EditDistance, FoldLeft, MapThenFoldSet, EditFold

MatrixRows(b, t) == {r \in Seq(Int) : Len(r) = Len(b) + 1 /\ FarFrom(r, Cardinality(t))}

\* No two words are closer than what their lengths differ by.
LEMMA DistanceIsFar ==
  ASSUME NEW a \in Word, NEW b \in Word
  PROVE  /\ EditDistance(a, b) \in Int
         /\ EditDistance(a, b) >= Len(a) - Len(b) /\ EditDistance(a, b) >= Len(b) - Len(a)
<1>1. PICK n \in Nat : n = Len(a)
  BY DEF Word
<1>2. PICK w \in Nat : w = Len(b)
  BY DEF Word
<1>3. PICK S : S = 1..n /\ DOMAIN a = S
  BY <1>1 DEF Word
<1>4. IsFiniteSet(S) /\ Cardinality(S) = n
  <2>1. 1 \in Int /\ n \in Int
    OBVIOUS
  <2>2. IsFiniteSet(1..n) /\ Cardinality(1..n) = IF 1 > n THEN 0 ELSE n - 1 + 1
    BY <2>1, FS_Interval
  <2>3. QED BY <1>3, <2>2
<1>5. \A t \in SUBSET S : t # {} =>
        /\ Max(t) \in t /\ Max(t) \in S /\ t \ {Max(t)} \in SUBSET S
        /\ Cardinality(t) \in Nat \ {0} /\ Cardinality(t \ {Max(t)}) = Cardinality(t) - 1
  BY <1>3, LastPosition
<1> DEFINE Rows(t) == MatrixRows(b, t)
           Start == [j \in 1..(Len(b) + 1) |-> j - 1]
           Op(r, i) == NextRow(r, a[i], b)
<1>6. Start \in Rows({})
  <2>1. Start \in Seq(Int) /\ Len(Start) = w + 1 /\ DOMAIN Start = 1..(w + 1)
    BY <1>2
  <2>2. \A j \in 1..(w + 1) : Start[j] = j - 1 /\ j \in Nat /\ j >= 1
    BY <1>2
  <2>3. FarFrom(Start, 0)
    <3>1. ASSUME NEW j \in DOMAIN Start PROVE Start[j] >= 0 - (j - 1) /\ Start[j] >= (j - 1) - 0
      <4>1. j \in 1..(w + 1)
        BY <2>1
      <4>2. Start[j] = j - 1 /\ j \in Nat /\ j >= 1
        BY <2>2, <4>1
      <4> HIDE DEF Start
      <4>3. QED BY <4>2
    <3> HIDE DEF Start
    <3>2. QED BY <3>1 DEF FarFrom
  <2>4. Cardinality({}) = 0
    BY FS_EmptySet
  <2> HIDE DEF Start
  <2>5. QED BY <1>2, <2>1, <2>3, <2>4 DEF MatrixRows
<1>7. ASSUME NEW t \in SUBSET S, t # {}, NEW r \in Rows(t \ {Max(t)})
      PROVE  Op(r, Max(t)) \in Rows(t)
  <2>1. PICK c \in Nat : c = Cardinality(t) /\ Cardinality(t \ {Max(t)}) = c - 1
    BY <1>5, <1>7
  <2>2. r \in Seq(Int) /\ Len(r) = Len(b) + 1 /\ FarFrom(r, c - 1)
    BY <1>7, <2>1 DEF MatrixRows
  <2>3. PICK vec : vec = Op(r, Max(t))
    OBVIOUS
  <2>4. /\ vec \in Seq(Int) /\ Len(vec) = Len(b) + 1
        /\ \A k \in Int : FarFrom(r, k - 1) => FarFrom(vec, k)
    BY <2>2, <2>3, NextRowIsFar
  <2>5. FarFrom(vec, c)
    BY <2>1, <2>2, <2>4
  <2>6. QED BY <2>1, <2>3, <2>4, <2>5 DEF MatrixRows
<1>8. \A t \in SUBSET S : Rows(t) \subseteq Seq(Int)
  BY DEF MatrixRows
<1>9. PICK pick : pick = [t \in SUBSET S |-> Max(t)]
  OBVIOUS
<1>10. PICK step : step = [y \in Seq(Int) \X S |-> Op(y[1], y[2])]
  OBVIOUS
<1>11. PICK Acc : Acc = [t \in SUBSET S |-> Rows(t)]
  OBVIOUS
<1>12. \A t \in SUBSET S : Acc[t] = Rows(t)
  BY <1>11
<1>13. \A t \in SUBSET S : t # {} => pick[t] = Max(t) /\ pick[t] \in t
  BY <1>5, <1>9
<1>14. \A r \in Seq(Int), j \in S : step[<<r, j>>] = Op(r, j)
  BY <1>10
<1> HIDE DEF Op, Rows, Start
<1>15. Grows(S, Start, step, pick, Acc)
  <2>1. ASSUME NEW t \in SUBSET S, t # {}, NEW r \in Acc[t \ {pick[t]}]
        PROVE  step[<<r, pick[t]>>] \in Acc[t]
    <3>1. pick[t] = Max(t) /\ Max(t) \in S /\ t \ {Max(t)} \in SUBSET S
      BY <1>5, <1>13, <2>1
    <3>2. r \in Rows(t \ {Max(t)}) /\ r \in Seq(Int)
      BY <1>8, <1>12, <2>1, <3>1
    <3>3. Op(r, Max(t)) \in Rows(t)
      BY <1>7, <2>1, <3>2
    <3>4. step[<<r, pick[t]>>] = Op(r, Max(t))
      BY <1>14, <3>1, <3>2
    <3>5. QED BY <1>12, <3>3, <3>4
  <2>2. Start \in Acc[{}]
    BY <1>6, <1>12
  <2>3. QED BY <2>1, <2>2 DEF Grows
<1>16. Picks(S, pick)
  BY <1>13 DEF Picks
<1>17. PICK f : IsFold(S, Start, step, pick, f)
  BY <1>4, <1>16, FoldExists
<1>18. \A t \in SUBSET S : f[t] \in Acc[t]
  BY <1>4, <1>15, <1>16, <1>17, FoldIsTyped
<1>19. f = [t \in SUBSET S |-> IF t = {} THEN Start ELSE Op(f[t \ {Max(t)}], Max(t))]
  <2>1. \A t \in SUBSET S : f[t] \in Seq(Int)
    BY <1>8, <1>12, <1>18
  <2>2. \A t \in SUBSET S : t # {} => f[t \ {Max(t)}] \in Seq(Int) /\ Max(t) \in S
    BY <1>5, <2>1
  <2>3. \A t \in SUBSET S : t # {} =>
          step[<<f[t \ {pick[t]}], pick[t]>>] = Op(f[t \ {Max(t)}], Max(t))
    BY <1>13, <1>14, <2>2
  <2>4. QED BY <1>17, <2>3 DEF IsFold
<1>20. \A g : EditFold(a, b, g) <=>
         g = [t \in SUBSET S |-> IF t = {} THEN Start ELSE Op(g[t \ {Max(t)}], Max(t))]
  BY <1>3 DEF EditFold, Op, Start
<1>21. PICK h : h = CHOOSE g : EditFold(a, b, g)
  OBVIOUS
<1>22. h = [t \in SUBSET S |-> IF t = {} THEN Start ELSE Op(h[t \ {Max(t)}], Max(t))]
  <2>1. EditFold(a, b, f)
    BY <1>19, <1>20
  <2>2. EditFold(a, b, h)
    BY <1>21, <2>1
  <2>3. QED BY <1>20, <2>2
<1>23. PICK Good : Good = {t \in SUBSET S : h[t] \in Rows(t)}
  OBVIOUS
<1>24. Inductive(S, pick, Good)
  <2>1. ASSUME NEW t \in SUBSET S, t # {} => t \ {pick[t]} \in Good PROVE h[t] \in Rows(t)
    <3>1. CASE t = {}
      BY <1>6, <1>22, <3>1
    <3>2. CASE t # {}
      <4>1. h[t \ {Max(t)}] \in Rows(t \ {Max(t)})
        BY <1>13, <1>23, <2>1, <3>2
      <4>2. h[t] = Op(h[t \ {Max(t)}], Max(t))
        BY <1>22, <3>2
      <4>3. QED BY <1>7, <3>2, <4>1, <4>2
    <3>3. QED BY <3>1, <3>2
  <2>2. QED BY <1>23, <2>1 DEF Inductive
<1>25. h[S] \in Rows(S)
  <2>1. SUBSET S \subseteq Good
    BY <1>4, <1>16, <1>24, SubsetInduction
  <2>2. QED BY <1>23, <2>1
<1>26. PICK vec : vec = h[S]
  OBVIOUS
<1>27. vec \in Seq(Int) /\ Len(vec) = w + 1 /\ FarFrom(vec, n)
  BY <1>2, <1>4, <1>25, <1>26 DEF MatrixRows, Rows
<1>28. EditDistance(a, b) = vec[w + 1]
  BY <1>3, <1>21, <1>26, <1>27, EditDistanceIsFold DEF Last
<1>29. w + 1 \in DOMAIN vec
  BY <1>27
<1>30. vec[w + 1] \in Int /\ vec[w + 1] >= n - w /\ vec[w + 1] >= w - n
  <2>1. vec[w + 1] >= n - ((w + 1) - 1) /\ vec[w + 1] >= ((w + 1) - 1) - n
    BY <1>27, <1>29 DEF FarFrom
  <2>2. (w + 1) - 1 = w
    OBVIOUS
  <2>3. QED BY <1>27, <1>29, <2>1, <2>2
<1>31. QED BY <1>1, <1>2, <1>28, <1>30

----------------------------------------------------------------------------
(***************************************************************************)
(* What is rejected by its lengths is not similar.                         *)
(***************************************************************************)
LEMMA Quotient ==
  ASSUME NEW x \in Int, NEW y \in Nat \ {0}
  PROVE  x \div y \in Int /\ \A k \in Int : x < k * y => x \div y < k
<1>1. PICK q : q = x \div y
  OBVIOUS
<1>2. q \in Int /\ q * y <= x
  BY <1>1
<1>3. ASSUME NEW k \in Int, x < k * y, ~(q < k) PROVE FALSE
  <2>1. k <= q
    BY <1>2, <1>3
  <2>2. PICK d \in Nat : q = k + d
    <3>1. q - k \in Nat /\ q = k + (q - k)
      BY <1>2, <2>1
    <3>2. QED BY <3>1
  <2>3. q * y = k * y + d * y
    BY <2>2
  <2>4. d * y \in Nat /\ k * y \in Int /\ q * y \in Int
    BY <1>2, <2>2
  <2>5. QED BY <1>2, <1>3, <2>3, <2>4
<1>4. QED BY <1>1, <1>2, <1>3

LEMMA SimilarityIsInt ==
  ASSUME NEW a \in Word, NEW b \in Word
  PROVE  TokenSimilarity(a, b) \in Int
<1>1. PICK w \in Nat : w = Len(a)
  BY DEF Word
<1>2. PICK m \in Nat : m = Len(b)
  BY DEF Word
<1>3. PICK longest \in Nat : longest = Greater(Len(a), Len(b))
  BY <1>1, <1>2 DEF Greater
<1>4. EditDistance(a, b) \in Int
  BY DistanceIsFar
<1>5. ASSUME a # <<>>
      PROVE  ((longest - EditDistance(a, b)) * Whole) \div longest \in Int
  <2>1. w # 0
    BY <1>1, <1>5 DEF Word
  <2>2. longest \in Nat \ {0}
    BY <1>1, <1>2, <1>3, <2>1 DEF Greater
  <2>3. (longest - EditDistance(a, b)) * Whole \in Int
    BY <1>4, <2>2 DEF Whole
  <2>4. QED BY <2>2, <2>3, Quotient
<1>6. Whole \in Int /\ AbbreviationSimilarity \in Int /\ 0 \in Int
  BY DEF Whole, AbbreviationSimilarity
<1>7. QED BY <1>3, <1>5, <1>6 DEF TokenSimilarity

\* Words that the length test rejects are below the threshold.
LEMMA RejectedIsFar ==
  ASSUME NEW a \in Word, NEW b \in Word, a # b,
         NEW k \in Nat, 0 < k, CannotReach(a, b, k)
  PROVE  TokenSimilarity(a, b) < k
<1>1. PICK w \in Nat : w = Len(a)
  BY DEF Word
<1>2. PICK m \in Nat : m = Len(b)
  BY DEF Word
<1>3. PICK e \in Int : e = EditDistance(a, b) /\ e >= w - m /\ e >= m - w
  BY <1>1, <1>2, DistanceIsFar
<1>4. PICK longest \in Nat : longest = Greater(w, m)
  BY DEF Greater
<1>5. PICK shortest \in Nat : shortest = Lesser(w, m)
  BY DEF Lesser
<1>6. ~Abbreviates(a, b) /\ shortest * 60 < k * longest
  BY <1>1, <1>2, <1>4, <1>5 DEF CannotReach, Whole
<1>7. CASE a = <<>> \/ b = <<>>
  BY <1>7 DEF TokenSimilarity
<1>8. CASE a # <<>> /\ b # <<>>
  <2>1. w # 0
    BY <1>1, <1>8 DEF Word
  <2>2. longest \in Nat \ {0}
    BY <2>1, <1>4 DEF Greater
  <2>3. longest - e <= shortest
    BY <1>3, <1>4, <1>5 DEF Greater, Lesser
  <2>4. (longest - e) * 60 \in Int /\ (longest - e) * 60 <= shortest * 60
    BY <1>3, <2>3
  <2>5. k * longest \in Int
    OBVIOUS
  <2>6. (longest - e) * 60 < k * longest
    BY <1>6, <2>4, <2>5
  <2>7. ((longest - e) * 60) \div longest < k
    BY <2>2, <2>4, <2>6, Quotient
  <2>8. TokenSimilarity(a, b) = ((longest - e) * 60) \div longest
    BY <1>1, <1>2, <1>3, <1>4, <1>6, <1>8 DEF TokenSimilarity, Whole
  <2>9. QED BY <2>7, <2>8
<1>9. QED BY <1>7, <1>8

----------------------------------------------------------------------------
(***************************************************************************)
(* The words that two names share.                                         *)
(***************************************************************************)
Similar(tokens, word) == {j \in 1..Len(tokens) : TokenSimilarity(word, tokens[j]) >= TokenMatchThreshold}
Take(tokens, claimed, word) ==
  IF Similar(tokens, word) \subseteq claimed THEN claimed
  ELSE claimed \cup {Min(Similar(tokens, word) \ claimed)}
SharedFold(tA, tB, g) ==
  g = [t \in SUBSET (DOMAIN tA) |->
         IF t = {} THEN {} ELSE Take(tB, g[t \ {Max(t)}], tA[Max(t)])]
Claims(tB, t) == {c \in SUBSET (1..Len(tB)) : Cardinality(c) <= Cardinality(t)}

LEMMA SharedExists ==
  ASSUME NEW tA \in Seq(Word), NEW tB \in Seq(Word)
  PROVE  \E h : /\ SharedFold(tA, tB, h)
                /\ h[DOMAIN tA] \in SUBSET (1..Len(tB))
                /\ Cardinality(h[DOMAIN tA]) <= Len(tA)
<1>1. PICK n \in Nat : n = Len(tA)
  OBVIOUS
<1>2. PICK w \in Nat : w = Len(tB)
  OBVIOUS
<1>3. PICK S : S = 1..n /\ DOMAIN tA = S
  BY <1>1
<1>4. IsFiniteSet(S) /\ Cardinality(S) = n
  <2>1. 1 \in Int /\ n \in Int
    OBVIOUS
  <2>2. IsFiniteSet(1..n) /\ Cardinality(1..n) = IF 1 > n THEN 0 ELSE n - 1 + 1
    BY <2>1, FS_Interval
  <2>3. QED BY <1>3, <2>2
<1>5. \A t \in SUBSET S : t # {} =>
        /\ Max(t) \in t /\ Max(t) \in S /\ t \ {Max(t)} \in SUBSET S
        /\ Cardinality(t) \in Nat \ {0} /\ Cardinality(t \ {Max(t)}) = Cardinality(t) - 1
  BY <1>3, LastPosition
<1> DEFINE Rows(t) == Claims(tB, t)
           Start == {}
           Op(c, i) == Take(tB, c, tA[i])
<1>6. Start \in Rows({})
  BY FS_EmptySet DEF Claims
<1>7. ASSUME NEW t \in SUBSET S, t # {}, NEW r \in Rows(t \ {Max(t)})
      PROVE  Op(r, Max(t)) \in Rows(t)
  <2>1. PICK c \in Nat : c = Cardinality(t) /\ Cardinality(t \ {Max(t)}) = c - 1
    BY <1>5, <1>7
  <2>2. r \in SUBSET (1..w) /\ Cardinality(r) <= c - 1
    BY <1>2, <1>7, <2>1 DEF Claims
  <2>3. IsFiniteSet(r) /\ Cardinality(r) \in Nat
    <3>1. IsFiniteSet(1..w)
      BY FS_Interval
    <3>2. QED BY <2>2, <3>1, FS_Subset, FS_CardinalityType
  <2>4. PICK I : I = Similar(tB, tA[Max(t)]) \ r
    OBVIOUS
  <2>5. I \in SUBSET (1..w)
    BY <1>2, <2>4 DEF Similar
  <2>6. CASE I = {}
    <3>1. Op(r, Max(t)) = r
      BY <2>4, <2>6 DEF Take
    <3>2. Cardinality(r) <= c
      BY <2>1, <2>2, <2>3
    <3>3. QED BY <1>2, <2>1, <2>2, <3>1, <3>2 DEF Claims
  <2>7. CASE I # {}
    <3>1. PICK i : i = Min(I)
      OBVIOUS
    <3>2. i \in I
      BY <2>5, <2>7, <3>1, MinIsIn
    <3>3. Op(r, Max(t)) = r \cup {i}
      BY <2>4, <2>7, <3>1 DEF Take
    <3>4. i \notin r /\ i \in 1..w
      BY <2>4, <2>5, <3>2
    <3>5. Cardinality(r \cup {i}) = Cardinality(r) + 1
      BY <2>3, <3>4, FS_AddElement
    <3>6. Cardinality(r \cup {i}) <= c
      BY <2>1, <2>2, <2>3, <3>5
    <3>7. QED BY <1>2, <2>1, <2>2, <3>3, <3>4, <3>6 DEF Claims
  <2>8. QED BY <2>6, <2>7
<1>8. \A t \in SUBSET S : Rows(t) \subseteq SUBSET (1..Len(tB))
  BY DEF Claims
<1>9. PICK pick : pick = [t \in SUBSET S |-> Max(t)]
  OBVIOUS
<1>10. PICK step : step = [y \in (SUBSET (1..Len(tB))) \X S |-> Op(y[1], y[2])]
  OBVIOUS
<1>11. PICK Acc : Acc = [t \in SUBSET S |-> Rows(t)]
  OBVIOUS
<1>12. \A t \in SUBSET S : Acc[t] = Rows(t)
  BY <1>11
<1>13. \A t \in SUBSET S : t # {} => pick[t] = Max(t) /\ pick[t] \in t
  BY <1>5, <1>9
<1>14. \A r \in (SUBSET (1..Len(tB))), j \in S : step[<<r, j>>] = Op(r, j)
  BY <1>10
<1> HIDE DEF Op, Rows, Start
<1>15. Grows(S, Start, step, pick, Acc)
  <2>1. ASSUME NEW t \in SUBSET S, t # {}, NEW r \in Acc[t \ {pick[t]}]
        PROVE  step[<<r, pick[t]>>] \in Acc[t]
    <3>1. pick[t] = Max(t) /\ Max(t) \in S /\ t \ {Max(t)} \in SUBSET S
      BY <1>5, <1>13, <2>1
    <3>2. r \in Rows(t \ {Max(t)}) /\ r \in (SUBSET (1..Len(tB)))
      BY <1>8, <1>12, <2>1, <3>1
    <3>3. Op(r, Max(t)) \in Rows(t)
      BY <1>7, <2>1, <3>2
    <3>4. step[<<r, pick[t]>>] = Op(r, Max(t))
      BY <1>14, <3>1, <3>2
    <3>5. QED BY <1>12, <3>3, <3>4
  <2>2. Start \in Acc[{}]
    BY <1>6, <1>12
  <2>3. QED BY <2>1, <2>2 DEF Grows
<1>16. Picks(S, pick)
  BY <1>13 DEF Picks
<1>17. PICK f : IsFold(S, Start, step, pick, f)
  BY <1>4, <1>16, FoldExists
<1>18. \A t \in SUBSET S : f[t] \in Acc[t]
  BY <1>4, <1>15, <1>16, <1>17, FoldIsTyped
<1>19. f = [t \in SUBSET S |-> IF t = {} THEN Start ELSE Op(f[t \ {Max(t)}], Max(t))]
  <2>1. \A t \in SUBSET S : f[t] \in (SUBSET (1..Len(tB)))
    BY <1>8, <1>12, <1>18
  <2>2. \A t \in SUBSET S : t # {} => f[t \ {Max(t)}] \in (SUBSET (1..Len(tB))) /\ Max(t) \in S
    BY <1>5, <2>1
  <2>3. \A t \in SUBSET S : t # {} =>
          step[<<f[t \ {pick[t]}], pick[t]>>] = Op(f[t \ {Max(t)}], Max(t))
    BY <1>13, <1>14, <2>2
  <2>4. QED BY <1>17, <2>3 DEF IsFold
<1>20. \A g : SharedFold(tA, tB, g) <=>
         g = [t \in SUBSET S |-> IF t = {} THEN Start ELSE Op(g[t \ {Max(t)}], Max(t))]
  BY <1>3 DEF SharedFold, Op, Start
<1>21. PICK h : h = CHOOSE g : SharedFold(tA, tB, g)
  OBVIOUS
<1>22. h = [t \in SUBSET S |-> IF t = {} THEN Start ELSE Op(h[t \ {Max(t)}], Max(t))]
  <2>1. SharedFold(tA, tB, f)
    BY <1>19, <1>20
  <2>2. SharedFold(tA, tB, h)
    BY <1>21, <2>1
  <2>3. QED BY <1>20, <2>2
<1>23. PICK Good : Good = {t \in SUBSET S : h[t] \in Rows(t)}
  OBVIOUS
<1>24. Inductive(S, pick, Good)
  <2>1. ASSUME NEW t \in SUBSET S, t # {} => t \ {pick[t]} \in Good PROVE h[t] \in Rows(t)
    <3>1. CASE t = {}
      BY <1>6, <1>22, <3>1
    <3>2. CASE t # {}
      <4>1. h[t \ {Max(t)}] \in Rows(t \ {Max(t)})
        BY <1>13, <1>23, <2>1, <3>2
      <4>2. h[t] = Op(h[t \ {Max(t)}], Max(t))
        BY <1>22, <3>2
      <4>3. QED BY <1>7, <3>2, <4>1, <4>2
    <3>3. QED BY <3>1, <3>2
  <2>2. QED BY <1>23, <2>1 DEF Inductive
<1>25. h[S] \in Rows(S)
  <2>1. SUBSET S \subseteq Good
    BY <1>4, <1>16, <1>24, SubsetInduction
  <2>2. QED BY <1>23, <2>1
<1>26. SharedFold(tA, tB, h)
  BY <1>20, <1>22
<1>27. h[S] \in SUBSET (1..Len(tB)) /\ Cardinality(h[S]) <= n
  BY <1>4, <1>25 DEF Claims, Rows
<1>28. QED BY <1>1, <1>3, <1>26, <1>27

\* Both ways of counting shared words claim the same ones.
LEMMA SharedIsUnique ==
  ASSUME NEW tA \in Seq(Word), NEW tB, NEW g, NEW h,
         SharedFold(tA, tB, g), SharedFold(tA, tB, h)
  PROVE  g[DOMAIN tA] = h[DOMAIN tA]
<1>1. PICK n \in Nat : n = Len(tA)
  OBVIOUS
<1>3. PICK S : S = 1..n /\ DOMAIN tA = S
  BY <1>1
<1>4. IsFiniteSet(S) /\ Cardinality(S) = n
  <2>1. 1 \in Int /\ n \in Int
    OBVIOUS
  <2>2. IsFiniteSet(1..n) /\ Cardinality(1..n) = IF 1 > n THEN 0 ELSE n - 1 + 1
    BY <2>1, FS_Interval
  <2>3. QED BY <1>3, <2>2
<1>5. \A t \in SUBSET S : t # {} =>
        /\ Max(t) \in t /\ Max(t) \in S /\ t \ {Max(t)} \in SUBSET S
        /\ Cardinality(t) \in Nat \ {0} /\ Cardinality(t \ {Max(t)}) = Cardinality(t) - 1
  BY <1>3, LastPosition
<1>6. PICK pick : pick = [t \in SUBSET S |-> Max(t)]
  OBVIOUS
<1>7. \A t \in SUBSET S : t # {} => pick[t] = Max(t)
  BY <1>6
<1>8. Picks(S, pick)
  BY <1>5, <1>7 DEF Picks
<1>9. PICK Good : Good = {t \in SUBSET S : g[t] = h[t]}
  OBVIOUS
<1>10. Inductive(S, pick, Good)
  <2>1. ASSUME NEW t \in SUBSET S, t # {} => t \ {pick[t]} \in Good PROVE g[t] = h[t]
    <3>1. CASE t = {}
      BY <1>3, <3>1 DEF SharedFold
    <3>2. CASE t # {}
      <4>1. g[t \ {Max(t)}] = h[t \ {Max(t)}]
        BY <1>7, <1>9, <2>1, <3>2
      <4>2. g[t] = Take(tB, g[t \ {Max(t)}], tA[Max(t)])
        BY <1>3, <3>2 DEF SharedFold
      <4>3. h[t] = Take(tB, h[t \ {Max(t)}], tA[Max(t)])
        BY <1>3, <3>2 DEF SharedFold
      <4>4. QED BY <4>1, <4>2, <4>3
    <3>3. QED BY <3>1, <3>2
  <2>2. QED BY <1>9, <2>1 DEF Inductive
<1>11. SUBSET S \subseteq Good
  BY <1>4, <1>8, <1>10, SubsetInduction
<1>12. QED BY <1>3, <1>9, <1>11

\* The words that the code compares, and those it should.
SoftFold(tA, tB, g) ==
  g = [t \in SUBSET (DOMAIN tA) |->
         IF t = {} THEN {}
         ELSE LET claimed == g[t \ {Max(t)}]
                  ta == tA[Max(t)]
                  i == SelectInSeq([j \in 1..Len(tB) |-> j],
                         LAMBDA j : j \notin claimed /\
                            (/\ ta = tB[j] \/ ~CannotReach(ta, tB[j], TokenMatchThreshold)
                             /\ TokenSimilarity(ta, tB[j]) >= TokenMatchThreshold))
              IN IF i = 0 THEN claimed ELSE claimed \cup {i}]
ExactFold(tA, tB, g) ==
  g = [t \in SUBSET (DOMAIN tA) |->
         IF t = {} THEN {}
         ELSE LET claimed == g[t \ {Max(t)}]
                  ta == tA[Max(t)]
                  i == SelectInSeq([j \in 1..Len(tB) |-> j],
                         LAMBDA j : j \notin claimed /\ TokenSimilarity(ta, tB[j]) >= TokenMatchThreshold)
              IN IF i = 0 THEN claimed ELSE claimed \cup {i}]

DiceOf(tA, tB, c) ==
  IF tA = <<>> \/ tB = <<>> THEN 0 ELSE (2 * Cardinality(c) * Whole) \div (Len(tA) + Len(tB))
ExactDice(tA, tB) ==
  Dice(tA, tB, LAMBDA ta, tb : TokenSimilarity(ta, tb) >= TokenMatchThreshold)

LEMMA DicesAreFolds ==
  ASSUME NEW tA, NEW tB
  PROVE  /\ SoftDice(tA, tB) = DiceOf(tA, tB, (CHOOSE g : SoftFold(tA, tB, g))[DOMAIN tA])
         /\ ExactDice(tA, tB) = DiceOf(tA, tB, (CHOOSE g : ExactFold(tA, tB, g))[DOMAIN tA])
<1>1. SoftDice(tA, tB) = DiceOf(tA, tB, (CHOOSE g : SoftFold(tA, tB, g))[DOMAIN tA])
  BY DEF SoftDice, Dice, Shared, FoldLeft, MapThenFoldSet, SoftFold, DiceOf
<1>2. ExactDice(tA, tB) = DiceOf(tA, tB, (CHOOSE g : ExactFold(tA, tB, g))[DOMAIN tA])
  BY DEF ExactDice, Dice, Shared, FoldLeft, MapThenFoldSet, ExactFold, DiceOf
<1>3. QED BY <1>1, <1>2

LEMMA SelectionIsTaken ==
  ASSUME NEW tB \in Seq(Word), NEW ta \in Word, NEW claimed
  PROVE  /\ LET i == SelectInSeq([j \in 1..Len(tB) |-> j],
                       LAMBDA j : j \notin claimed /\
                          (/\ ta = tB[j] \/ ~CannotReach(ta, tB[j], TokenMatchThreshold)
                           /\ TokenSimilarity(ta, tB[j]) >= TokenMatchThreshold))
            IN (IF i = 0 THEN claimed ELSE claimed \cup {i}) = Take(tB, claimed, ta)
         /\ LET i == SelectInSeq([j \in 1..Len(tB) |-> j],
                       LAMBDA j : j \notin claimed /\ TokenSimilarity(ta, tB[j]) >= TokenMatchThreshold)
            IN (IF i = 0 THEN claimed ELSE claimed \cup {i}) = Take(tB, claimed, ta)
<1>1. PICK w \in Nat : w = Len(tB)
  OBVIOUS
<1>2. PICK seq : seq = [j \in 1..Len(tB) |-> j]
  OBVIOUS
<1>3. Len(seq) = w /\ \A i \in 1..w : seq[i] = i /\ tB[i] \in Word
  BY <1>1, <1>2
<1>4. PICK I : I = Similar(tB, ta) \ claimed
  OBVIOUS
<1> DEFINE Soft == {i \in 1..Len(seq) : seq[i] \notin claimed /\
                      (/\ ta = tB[seq[i]] \/ ~CannotReach(ta, tB[seq[i]], TokenMatchThreshold)
                       /\ TokenSimilarity(ta, tB[seq[i]]) >= TokenMatchThreshold)}
           Exact == {i \in 1..Len(seq) : seq[i] \notin claimed /\
                       TokenSimilarity(ta, tB[seq[i]]) >= TokenMatchThreshold}
<1>5. Exact = I
  BY <1>1, <1>3, <1>4 DEF Similar
<1>6. Soft = I
  <2>1. ASSUME NEW j \in 1..w, TokenSimilarity(ta, tB[j]) >= TokenMatchThreshold
        PROVE  ta = tB[j] \/ ~CannotReach(ta, tB[j], TokenMatchThreshold)
    <3>1. SUFFICES ASSUME ta # tB[j], CannotReach(ta, tB[j], TokenMatchThreshold) PROVE FALSE
      OBVIOUS
    <3>2. PICK b \in Word : b = tB[j]
      BY <1>3
    <3>3. TokenSimilarity(ta, b) < TokenMatchThreshold
      BY <3>1, <3>2, RejectedIsFar DEF TokenMatchThreshold
    <3>4. TokenSimilarity(ta, b) \in Int
      BY SimilarityIsInt
    <3>5. QED BY <2>1, <3>2, <3>3, <3>4 DEF TokenMatchThreshold
  <2>2. QED BY <1>1, <1>3, <1>4, <2>1 DEF Similar
<1>7. Take(tB, claimed, ta) = IF I = {} THEN claimed ELSE claimed \cup {Min(I)}
  BY <1>4 DEF Take
<1>8. I # {} => Min(I) # 0
  <2>1. I \in SUBSET (1..w)
    BY <1>1, <1>4 DEF Similar
  <2>2. I # {} => Min(I) \in 1..w
    BY <2>1, MinIsIn
  <2>3. QED BY <2>2
<1>9. SelectInSeq(seq, LAMBDA j : j \notin claimed /\
                          (/\ ta = tB[j] \/ ~CannotReach(ta, tB[j], TokenMatchThreshold)
                           /\ TokenSimilarity(ta, tB[j]) >= TokenMatchThreshold))
      = IF Soft # {} THEN Min(Soft) ELSE 0
  BY DEF SelectInSeq
<1>10. SelectInSeq(seq, LAMBDA j : j \notin claimed /\ TokenSimilarity(ta, tB[j]) >= TokenMatchThreshold)
      = IF Exact # {} THEN Min(Exact) ELSE 0
  BY DEF SelectInSeq
<1> HIDE DEF Soft, Exact
<1>11. PICK i : i = IF I # {} THEN Min(I) ELSE 0
  OBVIOUS
<1>12. (IF i = 0 THEN claimed ELSE claimed \cup {i}) = Take(tB, claimed, ta)
  BY <1>7, <1>8, <1>11
<1>13. QED BY <1>2, <1>5, <1>6, <1>9, <1>10, <1>11, <1>12

LEMMA DicesAreEqual ==
  ASSUME NEW tA \in Seq(Word), NEW tB \in Seq(Word)
  PROVE  SoftDice(tA, tB) = ExactDice(tA, tB) /\ ExactDice(tA, tB) \in 0..Whole
<1>1. PICK h : /\ SharedFold(tA, tB, h)
               /\ h[DOMAIN tA] \in SUBSET (1..Len(tB))
               /\ Cardinality(h[DOMAIN tA]) <= Len(tA)
  BY SharedExists
<1>2. \A t \in SUBSET (DOMAIN tA) : t # {} => tA[Max(t)] \in Word
  <2>1. DOMAIN tA = 1..Len(tA) /\ Len(tA) \in Nat
    OBVIOUS
  <2>2. \A t \in SUBSET (DOMAIN tA) : t # {} => Max(t) \in DOMAIN tA
    BY <2>1, LastPosition
  <2>3. QED BY <2>2
<1>3. ASSUME NEW g PROVE SoftFold(tA, tB, g) <=> SharedFold(tA, tB, g)
  <2>1. ASSUME NEW t \in SUBSET (DOMAIN tA), t # {}
        PROVE  LET claimed == g[t \ {Max(t)}]
                   ta == tA[Max(t)]
                   i == SelectInSeq([j \in 1..Len(tB) |-> j],
                         LAMBDA j : j \notin claimed /\
                            (/\ ta = tB[j] \/ ~CannotReach(ta, tB[j], TokenMatchThreshold)
                             /\ TokenSimilarity(ta, tB[j]) >= TokenMatchThreshold))
               IN (IF i = 0 THEN claimed ELSE claimed \cup {i}) = Take(tB, claimed, ta)
    BY <1>2, <2>1, SelectionIsTaken
  <2>2. QED BY <2>1 DEF SoftFold, SharedFold
<1>4. ASSUME NEW g PROVE ExactFold(tA, tB, g) <=> SharedFold(tA, tB, g)
  <2>1. ASSUME NEW t \in SUBSET (DOMAIN tA), t # {}
        PROVE  LET claimed == g[t \ {Max(t)}]
                   ta == tA[Max(t)]
                   i == SelectInSeq([j \in 1..Len(tB) |-> j],
                         LAMBDA j : j \notin claimed /\ TokenSimilarity(ta, tB[j]) >= TokenMatchThreshold)
               IN (IF i = 0 THEN claimed ELSE claimed \cup {i}) = Take(tB, claimed, ta)
    BY <1>2, <2>1, SelectionIsTaken
  <2>2. QED BY <2>1 DEF ExactFold, SharedFold
<1>5. PICK c : c = h[DOMAIN tA]
  OBVIOUS
<1>6. (CHOOSE g : SoftFold(tA, tB, g))[DOMAIN tA] = c
  <2>1. PICK g : g = CHOOSE f : SoftFold(tA, tB, f)
    OBVIOUS
  <2>2. SoftFold(tA, tB, g)
    BY <1>1, <1>3, <2>1
  <2>3. SharedFold(tA, tB, g)
    BY <1>3, <2>2
  <2>4. QED BY <1>1, <1>5, <2>1, <2>3, SharedIsUnique
<1>7. (CHOOSE g : ExactFold(tA, tB, g))[DOMAIN tA] = c
  <2>1. PICK g : g = CHOOSE f : ExactFold(tA, tB, f)
    OBVIOUS
  <2>2. ExactFold(tA, tB, g)
    BY <1>1, <1>4, <2>1
  <2>3. SharedFold(tA, tB, g)
    BY <1>4, <2>2
  <2>4. QED BY <1>1, <1>5, <2>1, <2>3, SharedIsUnique
<1>8. SoftDice(tA, tB) = DiceOf(tA, tB, c) /\ ExactDice(tA, tB) = DiceOf(tA, tB, c)
  BY <1>6, <1>7, DicesAreFolds
<1>9. DiceOf(tA, tB, c) \in 0..Whole
  <2>1. PICK w \in Nat : w = Len(tB)
    OBVIOUS
  <2>2. PICK n \in Nat : n = Len(tA)
    OBVIOUS
  <2>3. PICK k \in Nat : k = Cardinality(c) /\ k <= n /\ k <= w
    <3>1. IsFiniteSet(1..w) /\ Cardinality(1..w) = w
      <4>1. 1 \in Int /\ w \in Int
        OBVIOUS
      <4>2. IsFiniteSet(1..w) /\ Cardinality(1..w) = IF 1 > w THEN 0 ELSE w - 1 + 1
        BY <4>1, FS_Interval
      <4>3. QED BY <4>2
    <3>2. c \in SUBSET (1..w) /\ Cardinality(c) <= n
      BY <1>1, <1>5, <2>1, <2>2
    <3>3. IsFiniteSet(c) /\ Cardinality(c) \in Nat /\ Cardinality(c) <= w
      BY <3>1, <3>2, FS_Subset, FS_CardinalityType
    <3>4. QED BY <3>2, <3>3
  <2>4. CASE tA = <<>> \/ tB = <<>>
    BY <2>4 DEF DiceOf, Whole
  <2>5. CASE tA # <<>> /\ tB # <<>>
    <3>1. n + w \in Nat \ {0}
      <4>1. n # 0
        BY <2>2, <2>5
      <4>2. QED BY <4>1
    <3>2. PICK x \in Nat : x = 2 * k * 60
      OBVIOUS
    <3>3. x < 61 * (n + w)
      BY <2>3, <3>1, <3>2
    <3>4. x \div (n + w) < 61 /\ x \div (n + w) \in Int
      BY <3>1, <3>2, <3>3, Quotient
    <3>5. x \div (n + w) >= 0
      BY <3>1, <3>2
    <3>6. DiceOf(tA, tB, c) = x \div (n + w)
      BY <2>1, <2>2, <2>3, <2>5, <3>2 DEF DiceOf, Whole
    <3>7. PICK q : q = x \div (n + w)
      OBVIOUS
    <3>8. q \in Int /\ 0 <= q /\ q <= 60
      BY <3>4, <3>5, <3>7
    <3>9. q \in 0..60
      BY <3>8
    <3>10. QED BY <3>6, <3>7, <3>9 DEF Whole
  <2>6. QED BY <2>4, <2>5
<1>10. QED BY <1>8, <1>9

----------------------------------------------------------------------------
(***************************************************************************)
(* Profiles.                                                               *)
(***************************************************************************)
Profile == [tokens : Seq(Word), brand : Word]

KeptFold(name, g) ==
  g = [t \in SUBSET (DOMAIN name) |->
         IF t = {} THEN <<>>
         ELSE IF name[Max(t)] \in NoiseTokens THEN g[t \ {Max(t)}]
         ELSE Append(g[t \ {Max(t)}], name[Max(t)])]
DistinctFold(tokens, g) ==
  g = [t \in SUBSET (DOMAIN tokens) |->
         IF t = {} THEN <<>>
         ELSE IF Contains(g[t \ {Max(t)}], tokens[Max(t)]) THEN g[t \ {Max(t)}]
         ELSE Append(g[t \ {Max(t)}], tokens[Max(t)])]

LEMMA TokensAreFolds ==
  ASSUME NEW name
  PROVE  /\ SignificantTokens(name) = LET kept == (CHOOSE g : KeptFold(name, g))[DOMAIN name]
                                      IN IF kept = <<>> THEN name ELSE kept
         /\ Distinct(name) = (CHOOSE g : DistinctFold(name, g))[DOMAIN name]
<1>1. SignificantTokens(name) = LET kept == (CHOOSE g : KeptFold(name, g))[DOMAIN name]
                                IN IF kept = <<>> THEN name ELSE kept
  BY DEF SignificantTokens, FoldLeft, MapThenFoldSet, KeptFold
<1>2. Distinct(name) = (CHOOSE g : DistinctFold(name, g))[DOMAIN name]
  BY DEF Distinct, FoldLeft, MapThenFoldSet, DistinctFold
<1>3. QED BY <1>1, <1>2

LEMMA SignificantTokensType ==
  ASSUME NEW name \in Seq(Word), name # <<>>
  PROVE  SignificantTokens(name) \in Seq(Word) \ {<<>>}
<1>1. PICK n \in Nat : n = Len(name)
  OBVIOUS
<1>3. PICK S : S = 1..n /\ DOMAIN name = S
  BY <1>1
<1>4. IsFiniteSet(S) /\ Cardinality(S) = n
  <2>1. 1 \in Int /\ n \in Int
    OBVIOUS
  <2>2. IsFiniteSet(1..n) /\ Cardinality(1..n) = IF 1 > n THEN 0 ELSE n - 1 + 1
    BY <2>1, FS_Interval
  <2>3. QED BY <1>3, <2>2
<1>5. \A t \in SUBSET S : t # {} =>
        /\ Max(t) \in t /\ Max(t) \in S /\ t \ {Max(t)} \in SUBSET S
        /\ Cardinality(t) \in Nat \ {0} /\ Cardinality(t \ {Max(t)}) = Cardinality(t) - 1
  BY <1>3, LastPosition
<1> DEFINE Rows(t) == Seq(Word)
           Start == <<>>
           Op(r, i) == IF name[i] \in NoiseTokens THEN r ELSE Append(r, name[i])
<1>6. Start \in Rows({})
  OBVIOUS
<1>7. ASSUME NEW t \in SUBSET S, t # {}, NEW r \in Rows(t \ {Max(t)})
      PROVE  Op(r, Max(t)) \in Rows(t)
  <2>1. name[Max(t)] \in Word
    <3>1. PICK i \in S : i = Max(t)
      BY <1>5, <1>7
    <3>2. name[i] \in Word
      BY <1>3
    <3>3. QED BY <3>1, <3>2
  <2>2. QED BY <1>7, <2>1
<1>8. \A t \in SUBSET S : Rows(t) \subseteq Seq(Word)
  OBVIOUS
<1>9. PICK pick : pick = [t \in SUBSET S |-> Max(t)]
  OBVIOUS
<1>10. PICK step : step = [y \in Seq(Word) \X S |-> Op(y[1], y[2])]
  OBVIOUS
<1>11. PICK Acc : Acc = [t \in SUBSET S |-> Rows(t)]
  OBVIOUS
<1>12. \A t \in SUBSET S : Acc[t] = Rows(t)
  BY <1>11
<1>13. \A t \in SUBSET S : t # {} => pick[t] = Max(t) /\ pick[t] \in t
  BY <1>5, <1>9
<1>14. \A r \in Seq(Word), j \in S : step[<<r, j>>] = Op(r, j)
  BY <1>10
<1> HIDE DEF Op, Rows, Start
<1>15. Grows(S, Start, step, pick, Acc)
  <2>1. ASSUME NEW t \in SUBSET S, t # {}, NEW r \in Acc[t \ {pick[t]}]
        PROVE  step[<<r, pick[t]>>] \in Acc[t]
    <3>1. pick[t] = Max(t) /\ Max(t) \in S /\ t \ {Max(t)} \in SUBSET S
      BY <1>5, <1>13, <2>1
    <3>2. r \in Rows(t \ {Max(t)}) /\ r \in Seq(Word)
      BY <1>8, <1>12, <2>1, <3>1
    <3>3. Op(r, Max(t)) \in Rows(t)
      BY <1>7, <2>1, <3>2
    <3>4. step[<<r, pick[t]>>] = Op(r, Max(t))
      BY <1>14, <3>1, <3>2
    <3>5. QED BY <1>12, <3>3, <3>4
  <2>2. Start \in Acc[{}]
    BY <1>6, <1>12
  <2>3. QED BY <2>1, <2>2 DEF Grows
<1>16. Picks(S, pick)
  BY <1>13 DEF Picks
<1>17. PICK f : IsFold(S, Start, step, pick, f)
  BY <1>4, <1>16, FoldExists
<1>18. \A t \in SUBSET S : f[t] \in Acc[t]
  BY <1>4, <1>15, <1>16, <1>17, FoldIsTyped
<1>19. f = [t \in SUBSET S |-> IF t = {} THEN Start ELSE Op(f[t \ {Max(t)}], Max(t))]
  <2>1. \A t \in SUBSET S : f[t] \in Seq(Word)
    BY <1>8, <1>12, <1>18
  <2>2. \A t \in SUBSET S : t # {} => f[t \ {Max(t)}] \in Seq(Word) /\ Max(t) \in S
    BY <1>5, <2>1
  <2>3. \A t \in SUBSET S : t # {} =>
          step[<<f[t \ {pick[t]}], pick[t]>>] = Op(f[t \ {Max(t)}], Max(t))
    BY <1>13, <1>14, <2>2
  <2>4. QED BY <1>17, <2>3 DEF IsFold
<1>20. \A g : KeptFold(name, g) <=>
         g = [t \in SUBSET S |-> IF t = {} THEN Start ELSE Op(g[t \ {Max(t)}], Max(t))]
  BY <1>3 DEF KeptFold, Op, Start
<1>21. PICK h : h = CHOOSE g : KeptFold(name, g)
  OBVIOUS
<1>22. h = [t \in SUBSET S |-> IF t = {} THEN Start ELSE Op(h[t \ {Max(t)}], Max(t))]
  <2>1. KeptFold(name, f)
    BY <1>19, <1>20
  <2>2. KeptFold(name, h)
    BY <1>21, <2>1
  <2>3. QED BY <1>20, <2>2
<1>23. PICK Good : Good = {t \in SUBSET S : h[t] \in Rows(t)}
  OBVIOUS
<1>24. Inductive(S, pick, Good)
  <2>1. ASSUME NEW t \in SUBSET S, t # {} => t \ {pick[t]} \in Good PROVE h[t] \in Rows(t)
    <3>1. CASE t = {}
      BY <1>6, <1>22, <3>1
    <3>2. CASE t # {}
      <4>1. h[t \ {Max(t)}] \in Rows(t \ {Max(t)})
        BY <1>13, <1>23, <2>1, <3>2
      <4>2. h[t] = Op(h[t \ {Max(t)}], Max(t))
        BY <1>22, <3>2
      <4>3. QED BY <1>7, <3>2, <4>1, <4>2
    <3>3. QED BY <3>1, <3>2
  <2>2. QED BY <1>23, <2>1 DEF Inductive
<1>25. h[S] \in Rows(S)
  <2>1. SUBSET S \subseteq Good
    BY <1>4, <1>16, <1>24, SubsetInduction
  <2>2. QED BY <1>23, <2>1
<1>26. PICK kept : kept = h[S]
  OBVIOUS
<1>27. kept \in Seq(Word)
  BY <1>25, <1>26 DEF Rows
<1>28. SignificantTokens(name) = IF kept = <<>> THEN name ELSE kept
  BY <1>3, <1>21, <1>26, TokensAreFolds
<1>29. QED BY <1>27, <1>28

NonemptyFrom(t) == {r \in Seq(Word) : t # {} => r # <<>>}

LEMMA DistinctType ==
  ASSUME NEW tokens \in Seq(Word), tokens # <<>>
  PROVE  Distinct(tokens) \in Seq(Word) \ {<<>>}
<1>1. PICK n \in Nat : n = Len(tokens)
  OBVIOUS
<1>3. PICK S : S = 1..n /\ DOMAIN tokens = S
  BY <1>1
<1>4. IsFiniteSet(S) /\ Cardinality(S) = n
  <2>1. 1 \in Int /\ n \in Int
    OBVIOUS
  <2>2. IsFiniteSet(1..n) /\ Cardinality(1..n) = IF 1 > n THEN 0 ELSE n - 1 + 1
    BY <2>1, FS_Interval
  <2>3. QED BY <1>3, <2>2
<1>5. \A t \in SUBSET S : t # {} =>
        /\ Max(t) \in t /\ Max(t) \in S /\ t \ {Max(t)} \in SUBSET S
        /\ Cardinality(t) \in Nat \ {0} /\ Cardinality(t \ {Max(t)}) = Cardinality(t) - 1
  BY <1>3, LastPosition
<1> DEFINE Rows(t) == NonemptyFrom(t)
           Start == <<>>
           Op(r, i) == IF Contains(r, tokens[i]) THEN r ELSE Append(r, tokens[i])
<1>6. Start \in Rows({})
  BY DEF NonemptyFrom
<1>7. ASSUME NEW t \in SUBSET S, t # {}, NEW r \in Rows(t \ {Max(t)})
      PROVE  Op(r, Max(t)) \in Rows(t)
  <2>1. tokens[Max(t)] \in Word /\ r \in Seq(Word)
    <3>1. PICK i \in S : i = Max(t)
      BY <1>5, <1>7
    <3>2. tokens[i] \in Word
      BY <1>3
    <3>3. QED BY <1>7, <3>1, <3>2 DEF NonemptyFrom
  <2>2. CASE Contains(r, tokens[Max(t)])
    <3>1. r # <<>>
      BY <2>1, <2>2 DEF Contains
    <3>2. QED BY <2>1, <2>2, <3>1 DEF NonemptyFrom
  <2>3. CASE ~Contains(r, tokens[Max(t)])
    <3>1. Append(r, tokens[Max(t)]) \in Seq(Word) /\ Append(r, tokens[Max(t)]) # <<>>
      BY <2>1
    <3>2. QED BY <2>3, <3>1 DEF NonemptyFrom
  <2>4. QED BY <2>2, <2>3
<1>8. \A t \in SUBSET S : Rows(t) \subseteq Seq(Word)
  BY DEF NonemptyFrom
<1>9. PICK pick : pick = [t \in SUBSET S |-> Max(t)]
  OBVIOUS
<1>10. PICK step : step = [y \in Seq(Word) \X S |-> Op(y[1], y[2])]
  OBVIOUS
<1>11. PICK Acc : Acc = [t \in SUBSET S |-> Rows(t)]
  OBVIOUS
<1>12. \A t \in SUBSET S : Acc[t] = Rows(t)
  BY <1>11
<1>13. \A t \in SUBSET S : t # {} => pick[t] = Max(t) /\ pick[t] \in t
  BY <1>5, <1>9
<1>14. \A r \in Seq(Word), j \in S : step[<<r, j>>] = Op(r, j)
  BY <1>10
<1> HIDE DEF Op, Rows, Start
<1>15. Grows(S, Start, step, pick, Acc)
  <2>1. ASSUME NEW t \in SUBSET S, t # {}, NEW r \in Acc[t \ {pick[t]}]
        PROVE  step[<<r, pick[t]>>] \in Acc[t]
    <3>1. pick[t] = Max(t) /\ Max(t) \in S /\ t \ {Max(t)} \in SUBSET S
      BY <1>5, <1>13, <2>1
    <3>2. r \in Rows(t \ {Max(t)}) /\ r \in Seq(Word)
      BY <1>8, <1>12, <2>1, <3>1
    <3>3. Op(r, Max(t)) \in Rows(t)
      BY <1>7, <2>1, <3>2
    <3>4. step[<<r, pick[t]>>] = Op(r, Max(t))
      BY <1>14, <3>1, <3>2
    <3>5. QED BY <1>12, <3>3, <3>4
  <2>2. Start \in Acc[{}]
    BY <1>6, <1>12
  <2>3. QED BY <2>1, <2>2 DEF Grows
<1>16. Picks(S, pick)
  BY <1>13 DEF Picks
<1>17. PICK f : IsFold(S, Start, step, pick, f)
  BY <1>4, <1>16, FoldExists
<1>18. \A t \in SUBSET S : f[t] \in Acc[t]
  BY <1>4, <1>15, <1>16, <1>17, FoldIsTyped
<1>19. f = [t \in SUBSET S |-> IF t = {} THEN Start ELSE Op(f[t \ {Max(t)}], Max(t))]
  <2>1. \A t \in SUBSET S : f[t] \in Seq(Word)
    BY <1>8, <1>12, <1>18
  <2>2. \A t \in SUBSET S : t # {} => f[t \ {Max(t)}] \in Seq(Word) /\ Max(t) \in S
    BY <1>5, <2>1
  <2>3. \A t \in SUBSET S : t # {} =>
          step[<<f[t \ {pick[t]}], pick[t]>>] = Op(f[t \ {Max(t)}], Max(t))
    BY <1>13, <1>14, <2>2
  <2>4. QED BY <1>17, <2>3 DEF IsFold
<1>20. \A g : DistinctFold(tokens, g) <=>
         g = [t \in SUBSET S |-> IF t = {} THEN Start ELSE Op(g[t \ {Max(t)}], Max(t))]
  BY <1>3 DEF DistinctFold, Op, Start
<1>21. PICK h : h = CHOOSE g : DistinctFold(tokens, g)
  OBVIOUS
<1>22. h = [t \in SUBSET S |-> IF t = {} THEN Start ELSE Op(h[t \ {Max(t)}], Max(t))]
  <2>1. DistinctFold(tokens, f)
    BY <1>19, <1>20
  <2>2. DistinctFold(tokens, h)
    BY <1>21, <2>1
  <2>3. QED BY <1>20, <2>2
<1>23. PICK Good : Good = {t \in SUBSET S : h[t] \in Rows(t)}
  OBVIOUS
<1>24. Inductive(S, pick, Good)
  <2>1. ASSUME NEW t \in SUBSET S, t # {} => t \ {pick[t]} \in Good PROVE h[t] \in Rows(t)
    <3>1. CASE t = {}
      BY <1>6, <1>22, <3>1
    <3>2. CASE t # {}
      <4>1. h[t \ {Max(t)}] \in Rows(t \ {Max(t)})
        BY <1>13, <1>23, <2>1, <3>2
      <4>2. h[t] = Op(h[t \ {Max(t)}], Max(t))
        BY <1>22, <3>2
      <4>3. QED BY <1>7, <3>2, <4>1, <4>2
    <3>3. QED BY <3>1, <3>2
  <2>2. QED BY <1>23, <2>1 DEF Inductive
<1>25. h[S] \in Rows(S)
  <2>1. SUBSET S \subseteq Good
    BY <1>4, <1>16, <1>24, SubsetInduction
  <2>2. QED BY <1>23, <2>1
<1>26. S # {}
  <2>1. n # 0
    BY <1>1
  <2>2. 1 \in 1..n
    BY <2>1
  <2>3. QED BY <1>3, <2>2
<1>27. h[S] \in Seq(Word) \ {<<>>}
  BY <1>25, <1>26 DEF Rows, NonemptyFrom
<1>28. QED BY <1>3, <1>21, <1>27, TokensAreFolds

LEMMA ProfileType ==
  ASSUME NEW name \in Seq(Word)
  PROVE  MerchantProfile(name) \in Profile
<1>1. CASE name = <<>>
  BY <1>1 DEF MerchantProfile, NoProfile, Profile, Word
<1>2. CASE name # <<>>
  <2>1. PICK tokens : tokens = Distinct(SignificantTokens(name))
    OBVIOUS
  <2>2. tokens \in Seq(Word) /\ tokens # <<>>
    BY <1>2, <2>1, SignificantTokensType, DistinctType
  <2>3. PICK I : I = {i \in 1..Len(tokens) : Len(tokens[i]) >= 3}
    OBVIOUS
  <2>4. SelectInSeq(tokens, LAMBDA t : Len(t) >= 3) = IF I # {} THEN Min(I) ELSE 0
    BY <2>3 DEF SelectInSeq
  <2>5. I # {} => Min(I) \in I
    <3>1. I \in SUBSET (1..Len(tokens)) /\ Len(tokens) \in Nat
      BY <2>2, <2>3
    <3>2. QED BY <3>1, MinIsIn
  <2>6. \A i \in I : tokens[i] \in Word /\ i # 0
    BY <2>2, <2>3
  <2>7. tokens[1] \in Word
    BY <2>2
  <2>8. Brand(tokens) \in Word
    BY <2>4, <2>5, <2>6, <2>7 DEF Brand
  <2>9. MerchantProfile(name) = [tokens |-> tokens, brand |-> Brand(tokens)]
    BY <1>2, <2>1 DEF MerchantProfile
  <2>10. QED BY <2>2, <2>8, <2>9 DEF Profile
<1>3. QED BY <1>1, <1>2

\* For names of any length, the short cuts change nothing at the floor or above.
LEMMA ShortCutsAreExact ==
  ASSUME NEW p \in Profile, NEW r \in Profile, NEW floor \in Nat, 0 < floor
  PROVE  LET quick == ProfileSimilarityAtLeast(p, r, floor)
             exact == ExactSimilarity(p, r) IN
           /\ quick \in Int /\ exact \in Int
           /\ IF exact >= floor THEN quick = exact ELSE quick < floor
<1>1. PICK brand \in Int : brand = TokenSimilarity(p.brand, r.brand)
  BY SimilarityIsInt DEF Profile
<1>2. PICK dice \in 0..60 : dice = SoftDice(p.tokens, r.tokens) /\ dice = ExactDice(p.tokens, r.tokens)
  BY DicesAreEqual DEF Profile, Whole
<1>3. CASE p = NoProfile \/ r = NoProfile
  <2>1. ProfileSimilarityAtLeast(p, r, floor) = 0 /\ ExactSimilarity(p, r) = 0
    BY <1>3 DEF ProfileSimilarityAtLeast, ExactSimilarity
  <2>2. ~(0 >= floor)
    OBVIOUS
  <2>3. QED BY <2>1, <2>2
<1>4. CASE ~(p = NoProfile \/ r = NoProfile)
  <2>1. PICK exact : exact = ExactSimilarity(p, r)
    OBVIOUS
  <2>2. PICK quick : quick = ProfileSimilarityAtLeast(p, r, floor)
    OBVIOUS
  <2>3. exact = 6 * brand + 4 * dice
    BY <1>1, <1>2, <1>4, <2>1 DEF ExactSimilarity, ExactDice, BrandWeight, OverlapWeight
  <2>4. quick = IF 6 * brand + 4 * 60 < floor THEN 0 ELSE 6 * brand + 4 * dice
    <3>1. quick = IF BrandWeight * brand + OverlapWeight * Whole < floor THEN 0
                  ELSE BrandWeight * brand + OverlapWeight * dice
      BY <1>1, <1>2, <1>4, <2>2 DEF ProfileSimilarityAtLeast
    <3>2. BrandWeight = 6 /\ OverlapWeight = 4 /\ Whole = 60
      BY DEF BrandWeight, OverlapWeight, Whole
    <3>3. QED BY <3>1, <3>2
  <2>5. quick \in Int /\ exact \in Int
    BY <2>3, <2>4
  <2>6. IF exact >= floor THEN quick = exact ELSE quick < floor
    BY <2>3, <2>4
  <2>7. QED BY <2>1, <2>2, <2>5, <2>6
<1>5. QED BY <1>3, <1>4

----------------------------------------------------------------------------
(***************************************************************************)
(* The score of a pair is what its reasons are worth.                      *)
(***************************************************************************)
Credits(t) ==
  (IF "amount" \in t THEN 40 ELSE 0) + (IF "date" \in t THEN 35 ELSE 0)
  + (IF "date (pending)" \in t THEN 15 ELSE 0) + (IF "merchant" \in t THEN 25 ELSE 0)
  + (IF "merchant (partial)" \in t THEN 10 ELSE 0)
AllReasons == {"amount", "date", "date (pending)", "merchant", "merchant (partial)"}
Anyone(t) == CHOOSE y \in t : TRUE
ScoreFold(S, g) ==
  g = [t \in SUBSET S |-> IF t = {} THEN 0 ELSE Points(Anyone(t)) + g[t \ {Anyone(t)}]]

LEMMA ScoreIsFold ==
  ASSUME NEW S
  PROVE  MapThenSumSet(Points, S) = (CHOOSE g : ScoreFold(S, g))[S]
BY DEF MapThenSumSet, MapThenFoldSet, ScoreFold, Anyone

LEMMA ReasonsAreFinite == IsFiniteSet(AllReasons)
<1>1. IsFiniteSet({})
  BY FS_EmptySet
<1>2. IsFiniteSet({} \cup {"amount"})
  BY <1>1, FS_AddElement
<1>3. IsFiniteSet(({} \cup {"amount"}) \cup {"date"})
  BY <1>2, FS_AddElement
<1>4. IsFiniteSet((({} \cup {"amount"}) \cup {"date"}) \cup {"date (pending)"})
  BY <1>3, FS_AddElement
<1>5. IsFiniteSet(((({} \cup {"amount"}) \cup {"date"}) \cup {"date (pending)"}) \cup {"merchant"})
  BY <1>4, FS_AddElement
<1>6. IsFiniteSet((((({} \cup {"amount"}) \cup {"date"}) \cup {"date (pending)"}) \cup {"merchant"})
                  \cup {"merchant (partial)"})
  BY <1>5, FS_AddElement
<1>7. AllReasons = (((({} \cup {"amount"}) \cup {"date"}) \cup {"date (pending)"}) \cup {"merchant"})
                   \cup {"merchant (partial)"}
  BY DEF AllReasons
<1>8. QED BY <1>6, <1>7

LEMMA CreditIsNat ==
  ASSUME NEW t
  PROVE  Credits(t) \in Nat
<1>1. PICK a \in Nat : a = IF "amount" \in t THEN 40 ELSE 0
  OBVIOUS
<1>2. PICK b \in Nat : b = IF "date" \in t THEN 35 ELSE 0
  OBVIOUS
<1>3. PICK c \in Nat : c = IF "date (pending)" \in t THEN 15 ELSE 0
  OBVIOUS
<1>4. PICK d \in Nat : d = IF "merchant" \in t THEN 25 ELSE 0
  OBVIOUS
<1>5. PICK e \in Nat : e = IF "merchant (partial)" \in t THEN 10 ELSE 0
  OBVIOUS
<1>6. Credits(t) = a + b + c + d + e
  BY <1>1, <1>2, <1>3, <1>4, <1>5 DEF Credits
<1>7. QED BY <1>6

LEMMA PointIsCredit ==
  ASSUME NEW t \in SUBSET AllReasons, NEW r \in t
  PROVE  Points(r) + Credits(t \ {r}) = Credits(t)
<1>1. PICK a \in Nat : a = IF "amount" \in t THEN 40 ELSE 0
  OBVIOUS
<1>10. PICK b \in Nat : b = IF "date" \in t THEN 35 ELSE 0
  OBVIOUS
<1>11. PICK c \in Nat : c = IF "date (pending)" \in t THEN 15 ELSE 0
  OBVIOUS
<1>12. PICK d \in Nat : d = IF "merchant" \in t THEN 25 ELSE 0
  OBVIOUS
<1>13. PICK e \in Nat : e = IF "merchant (partial)" \in t THEN 10 ELSE 0
  OBVIOUS
<1>2. Credits(t) = a + b + c + d + e
  BY <1>1, <1>10, <1>11, <1>12, <1>13 DEF Credits
<1>3. CASE r = "amount"
  <2>1. Points(r) = 40
    BY <1>3 DEF Points, AmountScore
  <2>2. Credits(t \ {r}) = 0 + b + c + d + e
    BY <1>1, <1>10, <1>11, <1>12, <1>13, <1>3 DEF Credits
  <2>3. a = 40
    BY <1>1, <1>10, <1>11, <1>12, <1>13, <1>3
  <2>4. QED BY <1>2, <2>1, <2>2, <2>3
<1>4. CASE r = "date"
  <2>1. Points(r) = 35
    BY <1>4 DEF Points, DateCloseScore
  <2>2. Credits(t \ {r}) = a + 0 + c + d + e
    BY <1>1, <1>10, <1>11, <1>12, <1>13, <1>4 DEF Credits
  <2>3. b = 35
    BY <1>1, <1>10, <1>11, <1>12, <1>13, <1>4
  <2>4. QED BY <1>2, <2>1, <2>2, <2>3
<1>5. CASE r = "date (pending)"
  <2>1. Points(r) = 15
    BY <1>5 DEF Points, DatePendingScore
  <2>2. Credits(t \ {r}) = a + b + 0 + d + e
    BY <1>1, <1>10, <1>11, <1>12, <1>13, <1>5 DEF Credits
  <2>3. c = 15
    BY <1>1, <1>10, <1>11, <1>12, <1>13, <1>5
  <2>4. QED BY <1>2, <2>1, <2>2, <2>3
<1>6. CASE r = "merchant"
  <2>1. Points(r) = 25
    BY <1>6 DEF Points, MerchantHighScore
  <2>2. Credits(t \ {r}) = a + b + c + 0 + e
    BY <1>1, <1>10, <1>11, <1>12, <1>13, <1>6 DEF Credits
  <2>3. d = 25
    BY <1>1, <1>10, <1>11, <1>12, <1>13, <1>6
  <2>4. QED BY <1>2, <2>1, <2>2, <2>3
<1>7. CASE r = "merchant (partial)"
  <2>1. Points(r) = 10
    BY <1>7 DEF Points, MerchantMediumScore
  <2>2. Credits(t \ {r}) = a + b + c + d + 0
    BY <1>1, <1>10, <1>11, <1>12, <1>13, <1>7 DEF Credits
  <2>3. e = 10
    BY <1>1, <1>10, <1>11, <1>12, <1>13, <1>7
  <2>4. QED BY <1>2, <2>1, <2>2, <2>3
<1>8. QED BY <1>3, <1>4, <1>5, <1>6, <1>7 DEF AllReasons

LEMMA ScoreIsCredits ==
  ASSUME NEW S \in SUBSET AllReasons
  PROVE  MapThenSumSet(Points, S) = Credits(S) /\ Credits(S) \in Nat
<1>4. IsFiniteSet(S)
  BY ReasonsAreFinite, FS_Subset
<1>5. \A t \in SUBSET S : t # {} => Anyone(t) \in t /\ Anyone(t) \in S /\ t \ {Anyone(t)} \in SUBSET S
  BY DEF Anyone
<1> DEFINE Rows(t) == {Credits(t)}
           Start == 0
           Op(r, i) == Points(i) + r
<1>6. Start \in Rows({})
  BY DEF Credits
<1>7. ASSUME NEW t \in SUBSET S, t # {}, NEW r \in Rows(t \ {Anyone(t)})
      PROVE  Op(r, Anyone(t)) \in Rows(t)
  BY <1>5, <1>7, PointIsCredit
<1>8. \A t \in SUBSET S : Rows(t) \subseteq Nat
  BY CreditIsNat
<1>9. PICK pick : pick = [t \in SUBSET S |-> Anyone(t)]
  OBVIOUS
<1>10. PICK step : step = [y \in Nat \X S |-> Op(y[1], y[2])]
  OBVIOUS
<1>11. PICK Acc : Acc = [t \in SUBSET S |-> Rows(t)]
  OBVIOUS
<1>12. \A t \in SUBSET S : Acc[t] = Rows(t)
  BY <1>11
<1>13. \A t \in SUBSET S : t # {} => pick[t] = Anyone(t) /\ pick[t] \in t
  BY <1>5, <1>9
<1>14. \A r \in Nat, j \in S : step[<<r, j>>] = Op(r, j)
  BY <1>10
<1> HIDE DEF Op, Rows, Start
<1>15. Grows(S, Start, step, pick, Acc)
  <2>1. ASSUME NEW t \in SUBSET S, t # {}, NEW r \in Acc[t \ {pick[t]}]
        PROVE  step[<<r, pick[t]>>] \in Acc[t]
    <3>1. pick[t] = Anyone(t) /\ Anyone(t) \in S /\ t \ {Anyone(t)} \in SUBSET S
      BY <1>5, <1>13, <2>1
    <3>2. r \in Rows(t \ {Anyone(t)}) /\ r \in Nat
      BY <1>8, <1>12, <2>1, <3>1
    <3>3. Op(r, Anyone(t)) \in Rows(t)
      BY <1>7, <2>1, <3>2
    <3>4. step[<<r, pick[t]>>] = Op(r, Anyone(t))
      BY <1>14, <3>1, <3>2
    <3>5. QED BY <1>12, <3>3, <3>4
  <2>2. Start \in Acc[{}]
    BY <1>6, <1>12
  <2>3. QED BY <2>1, <2>2 DEF Grows
<1>16. Picks(S, pick)
  BY <1>13 DEF Picks
<1>17. PICK f : IsFold(S, Start, step, pick, f)
  BY <1>4, <1>16, FoldExists
<1>18. \A t \in SUBSET S : f[t] \in Acc[t]
  BY <1>4, <1>15, <1>16, <1>17, FoldIsTyped
<1>19. f = [t \in SUBSET S |-> IF t = {} THEN Start ELSE Op(f[t \ {Anyone(t)}], Anyone(t))]
  <2>1. \A t \in SUBSET S : f[t] \in Nat
    BY <1>8, <1>12, <1>18
  <2>2. \A t \in SUBSET S : t # {} => f[t \ {Anyone(t)}] \in Nat /\ Anyone(t) \in S
    BY <1>5, <2>1
  <2>3. \A t \in SUBSET S : t # {} =>
          step[<<f[t \ {pick[t]}], pick[t]>>] = Op(f[t \ {Anyone(t)}], Anyone(t))
    BY <1>13, <1>14, <2>2
  <2>4. QED BY <1>17, <2>3 DEF IsFold
<1>20. \A g : ScoreFold(S, g) <=>
         g = [t \in SUBSET S |-> IF t = {} THEN Start ELSE Op(g[t \ {Anyone(t)}], Anyone(t))]
  BY DEF ScoreFold, Op, Start
<1>21. PICK h : h = CHOOSE g : ScoreFold(S, g)
  OBVIOUS
<1>22. h = [t \in SUBSET S |-> IF t = {} THEN Start ELSE Op(h[t \ {Anyone(t)}], Anyone(t))]
  <2>1. ScoreFold(S, f)
    BY <1>19, <1>20
  <2>2. ScoreFold(S, h)
    BY <1>21, <2>1
  <2>3. QED BY <1>20, <2>2
<1>23. PICK Good : Good = {t \in SUBSET S : h[t] \in Rows(t)}
  OBVIOUS
<1>24. Inductive(S, pick, Good)
  <2>1. ASSUME NEW t \in SUBSET S, t # {} => t \ {pick[t]} \in Good PROVE h[t] \in Rows(t)
    <3>1. CASE t = {}
      BY <1>6, <1>22, <3>1
    <3>2. CASE t # {}
      <4>1. h[t \ {Anyone(t)}] \in Rows(t \ {Anyone(t)})
        BY <1>13, <1>23, <2>1, <3>2
      <4>2. h[t] = Op(h[t \ {Anyone(t)}], Anyone(t))
        BY <1>22, <3>2
      <4>3. QED BY <1>7, <3>2, <4>1, <4>2
    <3>3. QED BY <3>1, <3>2
  <2>2. QED BY <1>23, <2>1 DEF Inductive
<1>25. h[S] \in Rows(S)
  <2>1. SUBSET S \subseteq Good
    BY <1>4, <1>16, <1>24, SubsetInduction
  <2>2. QED BY <1>23, <2>1
<1>26. h[S] = Credits(S)
  BY <1>25 DEF Rows
<1>27. Credits(S) \in Nat
  BY CreditIsNat
<1>28. QED BY <1>21, <1>26, <1>27, ScoreIsFold

\* The three factors of the panel are added.
SumFold(s, g) ==
  g = [t \in SUBSET (DOMAIN s) |-> IF t = {} THEN 0 ELSE g[t \ {Max(t)}] + s[Max(t)]]
LEMMA SumIsFold ==
  ASSUME NEW s
  PROVE  FoldLeft(+, 0, s) = (CHOOSE g : SumFold(s, g))[DOMAIN s]
BY DEF FoldLeft, MapThenFoldSet, SumFold

OfThree(s, t) ==
  (IF 1 \in t THEN s[1] ELSE 0) + (IF 2 \in t THEN s[2] ELSE 0) + (IF 3 \in t THEN s[3] ELSE 0)

LEMMA SumOfThree ==
  ASSUME NEW a \in Nat, NEW b \in Nat, NEW c \in Nat
  PROVE  FoldLeft(+, 0, <<a, b, c>>) = a + b + c
<1>1. PICK s : s = <<a, b, c>>
  OBVIOUS
<1>2. s[1] = a /\ s[2] = b /\ s[3] = c
  BY <1>1
<1>3. PICK S : S = 1..3 /\ DOMAIN s = S
  BY <1>1
<1>4. IsFiniteSet(S)
  <2>1. 1 \in Int /\ 3 \in Int
    OBVIOUS
  <2>2. QED BY <1>3, <2>1, FS_Interval
<1>5. \A t \in SUBSET S : t # {} => Max(t) \in t /\ Max(t) \in S /\ t \ {Max(t)} \in SUBSET S
  BY <1>3, LastPosition
<1> DEFINE Rows(t) == {OfThree(s, t)}
           Start == 0
           Op(r, i) == r + s[i]
<1>6. Start \in Rows({})
  BY DEF OfThree
<1>7. ASSUME NEW t \in SUBSET S, t # {}, NEW r \in Rows(t \ {Max(t)})
      PROVE  Op(r, Max(t)) \in Rows(t)
  <2>1. PICK i \in S : i = Max(t) /\ i \in t
    BY <1>5, <1>7
  <2>2. i = 1 \/ i = 2 \/ i = 3
    BY <1>3, <2>1
  <2>3. r = OfThree(s, t \ {i})
    BY <1>7, <2>1
  <2>4. r + s[i] = OfThree(s, t)
    BY <1>2, <2>1, <2>2, <2>3 DEF OfThree
  <2>5. QED BY <2>1, <2>4
<1>8. \A t \in SUBSET S : Rows(t) \subseteq Nat
  <2>1. ASSUME NEW t \in SUBSET S PROVE OfThree(s, t) \in Nat
    <3>1. PICK x \in Nat, y \in Nat, z \in Nat :
            /\ x = IF 1 \in t THEN s[1] ELSE 0
            /\ y = IF 2 \in t THEN s[2] ELSE 0
            /\ z = IF 3 \in t THEN s[3] ELSE 0
      BY <1>2
    <3>2. OfThree(s, t) = x + y + z
      BY <3>1 DEF OfThree
    <3>3. QED BY <3>2
  <2>2. QED BY <2>1
<1>9. PICK pick : pick = [t \in SUBSET S |-> Max(t)]
  OBVIOUS
<1>10. PICK step : step = [y \in Nat \X S |-> Op(y[1], y[2])]
  OBVIOUS
<1>11. PICK Acc : Acc = [t \in SUBSET S |-> Rows(t)]
  OBVIOUS
<1>12. \A t \in SUBSET S : Acc[t] = Rows(t)
  BY <1>11
<1>13. \A t \in SUBSET S : t # {} => pick[t] = Max(t) /\ pick[t] \in t
  BY <1>5, <1>9
<1>14. \A r \in Nat, j \in S : step[<<r, j>>] = Op(r, j)
  BY <1>10
<1> HIDE DEF Op, Rows, Start
<1>15. Grows(S, Start, step, pick, Acc)
  <2>1. ASSUME NEW t \in SUBSET S, t # {}, NEW r \in Acc[t \ {pick[t]}]
        PROVE  step[<<r, pick[t]>>] \in Acc[t]
    <3>1. pick[t] = Max(t) /\ Max(t) \in S /\ t \ {Max(t)} \in SUBSET S
      BY <1>5, <1>13, <2>1
    <3>2. r \in Rows(t \ {Max(t)}) /\ r \in Nat
      BY <1>8, <1>12, <2>1, <3>1
    <3>3. Op(r, Max(t)) \in Rows(t)
      BY <1>7, <2>1, <3>2
    <3>4. step[<<r, pick[t]>>] = Op(r, Max(t))
      BY <1>14, <3>1, <3>2
    <3>5. QED BY <1>12, <3>3, <3>4
  <2>2. Start \in Acc[{}]
    BY <1>6, <1>12
  <2>3. QED BY <2>1, <2>2 DEF Grows
<1>16. Picks(S, pick)
  BY <1>13 DEF Picks
<1>17. PICK f : IsFold(S, Start, step, pick, f)
  BY <1>4, <1>16, FoldExists
<1>18. \A t \in SUBSET S : f[t] \in Acc[t]
  BY <1>4, <1>15, <1>16, <1>17, FoldIsTyped
<1>19. f = [t \in SUBSET S |-> IF t = {} THEN Start ELSE Op(f[t \ {Max(t)}], Max(t))]
  <2>1. \A t \in SUBSET S : f[t] \in Nat
    BY <1>8, <1>12, <1>18
  <2>2. \A t \in SUBSET S : t # {} => f[t \ {Max(t)}] \in Nat /\ Max(t) \in S
    BY <1>5, <2>1
  <2>3. \A t \in SUBSET S : t # {} =>
          step[<<f[t \ {pick[t]}], pick[t]>>] = Op(f[t \ {Max(t)}], Max(t))
    BY <1>13, <1>14, <2>2
  <2>4. QED BY <1>17, <2>3 DEF IsFold
<1>20. \A g : SumFold(s, g) <=>
         g = [t \in SUBSET S |-> IF t = {} THEN Start ELSE Op(g[t \ {Max(t)}], Max(t))]
  BY <1>3 DEF SumFold, Op, Start
<1>21. PICK h : h = CHOOSE g : SumFold(s, g)
  OBVIOUS
<1>22. h = [t \in SUBSET S |-> IF t = {} THEN Start ELSE Op(h[t \ {Max(t)}], Max(t))]
  <2>1. SumFold(s, f)
    BY <1>19, <1>20
  <2>2. SumFold(s, h)
    BY <1>21, <2>1
  <2>3. QED BY <1>20, <2>2
<1>23. PICK Good : Good = {t \in SUBSET S : h[t] \in Rows(t)}
  OBVIOUS
<1>24. Inductive(S, pick, Good)
  <2>1. ASSUME NEW t \in SUBSET S, t # {} => t \ {pick[t]} \in Good PROVE h[t] \in Rows(t)
    <3>1. CASE t = {}
      BY <1>6, <1>22, <3>1
    <3>2. CASE t # {}
      <4>1. h[t \ {Max(t)}] \in Rows(t \ {Max(t)})
        BY <1>13, <1>23, <2>1, <3>2
      <4>2. h[t] = Op(h[t \ {Max(t)}], Max(t))
        BY <1>22, <3>2
      <4>3. QED BY <1>7, <3>2, <4>1, <4>2
    <3>3. QED BY <3>1, <3>2
  <2>2. QED BY <1>23, <2>1 DEF Inductive
<1>25. h[S] \in Rows(S)
  <2>1. SUBSET S \subseteq Good
    BY <1>4, <1>16, <1>24, SubsetInduction
  <2>2. QED BY <1>23, <2>1
<1>26. h[S] = OfThree(s, S)
  BY <1>25 DEF Rows
<1>27. OfThree(s, S) = a + b + c
  BY <1>2, <1>3 DEF OfThree
<1>28. FoldLeft(+, 0, s) = h[S]
  BY <1>3, <1>21, SumIsFold
<1>29. QED BY <1>1, <1>26, <1>27, <1>28

----------------------------------------------------------------------------
(***************************************************************************)
(* The pairs that are matched are pairs of the two files.                  *)
(***************************************************************************)
LEMMA PositionsAreFinite ==
  ASSUME NEW n \in Nat, NEW m \in Nat
  PROVE  IsFiniteSet(1..n) /\ IsFiniteSet((1..n) \X (1..m))
<1>1. 1 \in Int /\ n \in Int /\ m \in Int
  OBVIOUS
<1>2. IsFiniteSet(1..n) /\ IsFiniteSet(1..m)
  BY <1>1, FS_Interval
<1>3. QED BY <1>2, FS_Product

LEMMA EarlierIsTotal ==
  ASSUME NEW n \in Nat, NEW m \in Nat
  PROVE  /\ \A p, r \in (1..n) \X (1..m) : p = r \/ Earlier(p, r) \/ Earlier(r, p)
         /\ \A p, q, r \in (1..n) \X (1..m) : Earlier(p, q) /\ Earlier(q, r) => Earlier(p, r)
<1>1. ASSUME NEW p \in (1..n) \X (1..m), NEW r \in (1..n) \X (1..m)
      PROVE  p = r \/ Earlier(p, r) \/ Earlier(r, p)
  <2>1. p[1] \in Nat /\ p[2] \in Nat /\ r[1] \in Nat /\ r[2] \in Nat
    OBVIOUS
  <2>2. p[1] = r[1] /\ p[2] = r[2] => p = r
    OBVIOUS
  <2>3. QED BY <2>1, <2>2 DEF Earlier
<1>2. ASSUME NEW p \in (1..n) \X (1..m), NEW q \in (1..n) \X (1..m), NEW r \in (1..n) \X (1..m),
             Earlier(p, q), Earlier(q, r)
      PROVE  Earlier(p, r)
  <2>1. p[1] \in Nat /\ p[2] \in Nat /\ r[1] \in Nat /\ r[2] \in Nat /\ q[1] \in Nat /\ q[2] \in Nat
    OBVIOUS
  <2>2. QED BY <1>2, <2>1 DEF Earlier
<1>3. QED BY <1>1, <1>2

\* Of some pairs one comes last in the order of their keys, the greatest first.
HasLastByKey(T, key) ==
  \E x \in T : \A y \in T : y = x \/ key[y] > key[x] \/ (key[y] = key[x] /\ Earlier(y, x))

LEMMA LastByKey ==
  ASSUME NEW n \in Nat, NEW m \in Nat, NEW key \in [(1..n) \X (1..m) -> Int],
         NEW T \in SUBSET ((1..n) \X (1..m)), T # {}
  PROVE  HasLastByKey(T, key)
<1>1. PICK S : S = (1..n) \X (1..m)
  OBVIOUS
<1>2. IsFiniteSet(S)
  BY <1>1, PositionsAreFinite
<1>3. PICK R : R = {z \in S \X S : key[z[1]] > key[z[2]] \/ (key[z[1]] = key[z[2]] /\ Earlier(z[1], z[2]))}
  OBVIOUS
<1>4. \A x, y \in S : <<x, y>> \in R <=> (key[x] > key[y] \/ (key[x] = key[y] /\ Earlier(x, y)))
  BY <1>3
<1>5. \A x \in S : key[x] \in Int
  BY <1>1
<1>6. /\ \A p, r \in S : p = r \/ Earlier(p, r) \/ Earlier(r, p)
      /\ \A p, q, r \in S : Earlier(p, q) /\ Earlier(q, r) => Earlier(p, r)
  BY <1>1, EarlierIsTotal
<1>7. \A x, y \in S : x = y \/ <<x, y>> \in R \/ <<y, x>> \in R
  <2>1. ASSUME NEW x \in S, NEW y \in S PROVE x = y \/ <<x, y>> \in R \/ <<y, x>> \in R
    <3>1. key[x] > key[y] \/ key[x] = key[y] \/ key[y] > key[x]
      BY <1>5
    <3>2. QED BY <1>4, <1>6, <3>1
  <2>2. QED BY <2>1
<1>8. \A x, y, z \in S : <<x, y>> \in R /\ <<y, z>> \in R => <<x, z>> \in R
  <2>1. ASSUME NEW x \in S, NEW y \in S, NEW z \in S, <<x, y>> \in R, <<y, z>> \in R
        PROVE  <<x, z>> \in R
    <3>1. key[x] \in Int /\ key[y] \in Int /\ key[z] \in Int
      BY <1>5
    <3>2. key[x] > key[y] \/ (key[x] = key[y] /\ Earlier(x, y))
      BY <1>4, <2>1
    <3>3. key[y] > key[z] \/ (key[y] = key[z] /\ Earlier(y, z))
      BY <1>4, <2>1
    <3>4. key[x] > key[z] \/ (key[x] = key[z] /\ Earlier(x, y) /\ Earlier(y, z))
      BY <3>1, <3>2, <3>3
    <3>5. Earlier(x, y) /\ Earlier(y, z) => Earlier(x, z)
      BY <1>6
    <3>6. QED BY <1>4, <3>4, <3>5
  <2>2. QED BY <2>1
<1>11. T \in SUBSET S
  BY <1>1
<1>9. PICK x \in T : \A y \in T : y = x \/ <<y, x>> \in R
  <2>1. Orders(R, S)
    BY <1>7, <1>8 DEF Orders
  <2>2. HasLast(T, R)
    BY <1>2, <1>11, <2>1, LastExists
  <2>3. QED BY <2>2 DEF HasLast
<1>10. QED BY <1>4, <1>9, <1>11 DEF HasLastByKey

\* The pairs are taken in an order, each unless one of its members is taken.
Compete(p, r) == p[1] = r[1] \/ p[2] = r[2]
Taken(m, p) == IF \E r \in m : Compete(p, r) THEN m ELSE m \cup {p}
GreedyFold(S, pick, g) ==
  g = [t \in SUBSET S |-> IF t = {} THEN {} ELSE Taken(g[t \ {pick[t]}], pick[t])]
\* Matchings of t to which nothing of t can be added.
Matchings(t) ==
  {m \in SUBSET t : /\ \A p, r \in m : Compete(p, r) => p = r
                    /\ \A p \in t : \E r \in m : Compete(p, r)}

LEMMA GreedyExists ==
  ASSUME NEW S, IsFiniteSet(S), NEW pick, Picks(S, pick)
  PROVE  \E g : GreedyFold(S, pick, g)
<1>1. PICK step : step = [y \in (SUBSET S) \X S |-> Taken(y[1], y[2])]
  OBVIOUS
<1>2. \A a \in SUBSET S, x \in S : step[<<a, x>>] = Taken(a, x) /\ Taken(a, x) \in SUBSET S
  BY <1>1 DEF Taken
<1>3. PICK g : IsFold(S, {}, step, pick, g)
  BY FoldExists
<1>4. PICK Acc : Acc = [t \in SUBSET S |-> SUBSET S]
  OBVIOUS
<1>5. Grows(S, {}, step, pick, Acc)
  <2>1. ASSUME NEW t \in SUBSET S, t # {}, NEW a \in Acc[t \ {pick[t]}]
        PROVE  step[<<a, pick[t]>>] \in Acc[t]
    <3>1. pick[t] \in S /\ t \ {pick[t]} \in SUBSET S
      BY <2>1 DEF Picks
    <3>2. a \in SUBSET S /\ Acc[t] = SUBSET S
      BY <1>4, <2>1, <3>1
    <3>3. QED BY <1>2, <3>1, <3>2
  <2>2. {} \in Acc[{}]
    BY <1>4
  <2>3. QED BY <2>1, <2>2 DEF Grows
<1>6. \A t \in SUBSET S : g[t] \in SUBSET S
  BY <1>3, <1>4, <1>5, FoldIsTyped
<1>7. \A t \in SUBSET S : t # {} =>
        step[<<g[t \ {pick[t]}], pick[t]>>] = Taken(g[t \ {pick[t]}], pick[t])
  <2>1. ASSUME NEW t \in SUBSET S, t # {}
        PROVE  pick[t] \in S /\ g[t \ {pick[t]}] \in SUBSET S
    <3>1. pick[t] \in S /\ t \ {pick[t]} \in SUBSET S
      BY <2>1 DEF Picks
    <3>2. QED BY <1>6, <3>1
  <2>2. QED BY <1>2, <2>1
<1>8. GreedyFold(S, pick, g)
  BY <1>3, <1>7 DEF IsFold, GreedyFold
<1>9. QED BY <1>8

\* What is taken greedily is a matching to which no candidate can be added.
LEMMA GreedyIsMaximal ==
  ASSUME NEW S, IsFiniteSet(S), NEW pick, Picks(S, pick), NEW h, GreedyFold(S, pick, h)
  PROVE  h[S] \in Matchings(S)
<1>1. PICK Good : Good = {t \in SUBSET S : h[t] \in Matchings(t)}
  OBVIOUS
<1>2. ASSUME NEW t \in SUBSET S, t # {} => t \ {pick[t]} \in Good PROVE h[t] \in Matchings(t)
  <2>1. CASE t = {}
    <3>1. h[t] = {}
      BY <2>1 DEF GreedyFold
    <3>2. QED BY <2>1, <3>1 DEF Matchings
  <2>2. CASE t # {}
    <3>1. PICK p : p = pick[t]
      OBVIOUS
    <3>2. p \in t
      BY <2>2, <3>1 DEF Picks
    <3>3. PICK m : m = h[t \ {p}]
      OBVIOUS
    <3>4. m \in Matchings(t \ {p})
      BY <1>1, <1>2, <2>2, <3>1, <3>3
    <3>5. h[t] = Taken(m, p)
      BY <2>2, <3>1, <3>3 DEF GreedyFold
    <3>6. Compete(p, p)
      BY DEF Compete
    <3>7. \A r : Compete(p, r) <=> Compete(r, p)
      BY DEF Compete
    <3>8. CASE \E r \in m : Compete(p, r)
      <4>1. h[t] = m
        BY <3>5, <3>8 DEF Taken
      <4>2. QED BY <3>4, <3>8, <4>1 DEF Matchings
    <3>9. CASE ~\E r \in m : Compete(p, r)
      <4>1. h[t] = m \cup {p}
        BY <3>5, <3>9 DEF Taken
      <4>2. m \cup {p} \in SUBSET t
        BY <3>2, <3>4 DEF Matchings
      <4>3. \A r1, r2 \in m \cup {p} : Compete(r1, r2) => r1 = r2
        BY <3>4, <3>7, <3>9 DEF Matchings
      <4>4. \A r1 \in t : \E r2 \in m \cup {p} : Compete(r1, r2)
        BY <3>4, <3>6 DEF Matchings
      <4>5. QED BY <4>1, <4>2, <4>3, <4>4 DEF Matchings
    <3>10. QED BY <3>8, <3>9
  <2>3. QED BY <2>1, <2>2
<1>3. Inductive(S, pick, Good)
  BY <1>1, <1>2 DEF Inductive
<1>4. SUBSET S \subseteq Good
  BY <1>3, SubsetInduction
<1>5. QED BY <1>1, <1>4

\* The order of the matches: the strongest first.
LastMatch(s, ledger, t) == CHOOSE x \in t : \A y \in t : y = x \/ Stronger(s, ledger, y, x)
Signalling(s, ledger) ==
  {p \in (DOMAIN s) \X (DOMAIN ledger) : HasEvidenceSignal(Reasons(s[p[1]], ledger[p[2]]))}
MatchFold(s, ledger, S, g) ==
  g = [t \in SUBSET S |-> IF t = {} THEN {} ELSE
         Taken(g[t \ {LastMatch(s, ledger, t)}], LastMatch(s, ledger, t))]

LEMMA MatchesAreFold ==
  ASSUME NEW s, NEW ledger
  PROVE  MatchTransactions(s, ledger) =
           (CHOOSE g : MatchFold(s, ledger, Signalling(s, ledger), g))[Signalling(s, ledger)]
BY DEF MatchTransactions, FoldInOrder, MapThenFoldSet, MatchFold, Signalling, LastMatch, Taken, Compete

LEMMA ReasonsOfPair ==
  ASSUME NEW x, NEW q
  PROVE  /\ Reasons(x, q) \in SUBSET AllReasons
         /\ ScorePair(x, q) = Credits(Reasons(x, q)) /\ ScorePair(x, q) \in Nat
<1>1. Reasons(x, q) \in SUBSET AllReasons
  BY DEF Reasons, AllReasons
<1>2. QED BY <1>1, ScoreIsCredits DEF ScorePair

\* Only pairs of the two files are matched.
LEMMA MatchesAreCandidates ==
  ASSUME NEW s, NEW ledger, NEW n \in Nat, NEW m \in Nat, DOMAIN s = 1..n, DOMAIN ledger = 1..m
  PROVE  MatchTransactions(s, ledger) \subseteq (DOMAIN s) \X (DOMAIN ledger)
<1>1. PICK S : S = Signalling(s, ledger)
  OBVIOUS
<1>2. S \in SUBSET ((1..n) \X (1..m))
  BY <1>1 DEF Signalling
<1>3. IsFiniteSet(S)
  BY <1>2, PositionsAreFinite, FS_Subset
<1>4. PICK key : key = [p \in (1..n) \X (1..m) |-> ScorePair(s[p[1]], ledger[p[2]])]
  OBVIOUS
<1>5. key \in [(1..n) \X (1..m) -> Int]
  <2>1. \A p \in (1..n) \X (1..m) : ScorePair(s[p[1]], ledger[p[2]]) \in Int
    BY ReasonsOfPair
  <2>2. QED BY <1>4, <2>1
<1>6. \A x, y \in (1..n) \X (1..m) :
        Stronger(s, ledger, y, x) <=> (key[y] > key[x] \/ (key[y] = key[x] /\ Earlier(y, x)))
  BY <1>4 DEF Stronger
<1>7. \A t \in SUBSET S : t # {} => LastMatch(s, ledger, t) \in t
  <2>1. ASSUME NEW t \in SUBSET S, t # {} PROVE LastMatch(s, ledger, t) \in t
    <3>1. t \in SUBSET ((1..n) \X (1..m))
      BY <1>2
    <3>2. PICK x \in t : \A y \in t : y = x \/ key[y] > key[x] \/ (key[y] = key[x] /\ Earlier(y, x))
      <4>1. HasLastByKey(t, key)
        BY <1>5, <2>1, <3>1, LastByKey
      <4>2. QED BY <4>1 DEF HasLastByKey
    <3>3. \A y \in t : y = x \/ Stronger(s, ledger, y, x)
      BY <1>6, <3>1, <3>2
    <3>4. QED BY <3>3 DEF LastMatch
  <2>2. QED BY <2>1
<1>8. PICK pick : pick = [t \in SUBSET S |-> LastMatch(s, ledger, t)]
  OBVIOUS
<1>9. Picks(S, pick)
  BY <1>7, <1>8 DEF Picks
<1>10. \A g : GreedyFold(S, pick, g) <=> MatchFold(s, ledger, S, g)
  BY <1>8 DEF GreedyFold, MatchFold
<1>11. PICK h : h = CHOOSE g : MatchFold(s, ledger, S, g)
  OBVIOUS
<1>12. MatchFold(s, ledger, S, h)
  <2>1. \E g : MatchFold(s, ledger, S, g)
    BY <1>3, <1>9, <1>10, GreedyExists
  <2>2. QED BY <1>11, <2>1
<1>13. h[S] \in Matchings(S)
  BY <1>3, <1>9, <1>10, <1>12, GreedyIsMaximal
<1>14. MatchTransactions(s, ledger) = h[S]
  BY <1>1, <1>11, MatchesAreFold
<1>15. QED BY <1>2, <1>13, <1>14 DEF Matchings

----------------------------------------------------------------------------
(***************************************************************************)
(* The panel gives each reason back once.                                  *)
(***************************************************************************)
LEMMA WordsAreFinite ==
  ASSUME NEW name \in Seq(Seq(STRING))
  PROVE  IsFiniteSet(ToSet(name)) /\ Cardinality(ToSet(name)) \in Nat
<1>1. name \in [1..Len(name) -> ToSet(name)] /\ Len(name) \in Nat /\ DOMAIN name = 1..Len(name)
  BY DEF ToSet
<1>2. name \in Surjection(1..Len(name), ToSet(name))
  BY <1>1 DEF Surjection, ToSet
<1>3. IsFiniteSet(1..Len(name))
  BY <1>1, PositionsAreFinite
<1>4. IsFiniteSet(ToSet(name))
  BY <1>2, <1>3, FS_Surjection
<1>5. QED BY <1>4, FS_CardinalityType

LEMMA ReasonsExclude ==
  ASSUME NEW x, LineOK(x), NEW q, EntryOK(q), Names \subseteq Seq(Seq(STRING))
  PROVE  LET r == Reasons(x, q) IN
           /\ ~("date" \in r /\ "date (pending)" \in r)
           /\ ~("merchant" \in r /\ "merchant (partial)" \in r)
<1>1. PICK gap : gap = Abs(x.day - q.posted)
  OBVIOUS
<1>2. ~("date" \in Reasons(x, q) /\ "date (pending)" \in Reasons(x, q))
  <2>1. "date" \in Reasons(x, q) => gap <= 2
    BY <1>1 DEF Reasons
  <2>2. "date (pending)" \in Reasons(x, q) => gap \in 3..5
    BY <1>1 DEF Reasons
  <2>3. ~(gap <= 2 /\ gap \in 3..5)
    OBVIOUS
  <2>4. QED BY <2>1, <2>2, <2>3
<1>3. x.name \in Seq(Seq(STRING)) /\ q.name \in Seq(Seq(STRING))
  <2>1. x.name \in Names \/ x.name = <<>>
    BY DEF LineOK
  <2>2. <<>> \in Seq(Seq(STRING))
    OBVIOUS
  <2>3. QED BY <2>1, <2>2 DEF EntryOK
<1>4. PICK shared \in Nat : shared = WordsShared(x, q)
  <2>1. IsFiniteSet(ToSet(x.name) \cap ToSet(q.name))
    BY <1>3, WordsAreFinite, FS_Subset
  <2>2. Cardinality(ToSet(x.name) \cap ToSet(q.name)) \in Nat
    BY <2>1, FS_CardinalityType
  <2>3. QED BY <2>2 DEF WordsShared
<1>5. PICK between \in Nat : between = WordsBetween(x, q)
  <2>1. Cardinality(ToSet(x.name)) \in Nat /\ Cardinality(ToSet(q.name)) \in Nat
    BY <1>3, WordsAreFinite
  <2>2. QED BY <2>1 DEF WordsBetween
<1>6. "merchant" \in Reasons(x, q) => 20 * shared > 6 * between
  BY <1>4, <1>5 DEF Reasons
<1>7. "merchant (partial)" \in Reasons(x, q) => 20 * shared <= 6 * between
  BY <1>4, <1>5 DEF Reasons
<1>8. ~(20 * shared > 6 * between /\ 20 * shared <= 6 * between)
  OBVIOUS
<1>9. QED BY <1>2, <1>6, <1>7, <1>8

LEMMA CreditsOf ==
  ASSUME NEW l, NEW full, NEW partial
  PROVE  /\ l = "full" => Credit(l, full, partial) = full
         /\ l # "full" /\ l = "partial" => Credit(l, full, partial) = partial
         /\ l # "full" /\ l # "partial" => Credit(l, full, partial) = 0
BY DEF Credit

\* The panel of a match lists the credits of its reasons.
LEMMA PanelOfMatch ==
  ASSUME NEW x, LineOK(x), NEW ledger, NEW q, EntryOK(ledger[q]), Names \subseteq Seq(Seq(STRING))
  PROVE  FoldLeft(+, 0, FactorBreakdown(MatchOf(x, ledger, q))) = MatchOf(x, ledger, q).confidence
<1>1. PICK match : match = MatchOf(x, ledger, q)
  OBVIOUS
<1>2. PICK R : R = Reasons(x, ledger[q])
  OBVIOUS
<1>3. match.reasons = R /\ match.confidence = Credits(R)
  BY <1>1, <1>2, ReasonsOfPair DEF MatchOf
<1>4. /\ ~("date" \in R /\ "date (pending)" \in R)
      /\ ~("merchant" \in R /\ "merchant (partial)" \in R)
  BY <1>2, ReasonsExclude
<1>5. PICK a \in Nat : a = IF "amount" \in R THEN 40 ELSE 0
  OBVIOUS
<1>6. PICK b \in Nat : b = IF "date" \in R THEN 35 ELSE 0
  OBVIOUS
<1>7. PICK c \in Nat : c = IF "date (pending)" \in R THEN 15 ELSE 0
  OBVIOUS
<1>8. PICK d \in Nat : d = IF "merchant" \in R THEN 25 ELSE 0
  OBVIOUS
<1>9. PICK e \in Nat : e = IF "merchant (partial)" \in R THEN 10 ELSE 0
  OBVIOUS
<1>10. Credits(R) = a + b + c + d + e
  BY <1>5, <1>6, <1>7, <1>8, <1>9 DEF Credits
<1>11. Credit(Factor(match, "amount", "amount"), AmountScore, AmountScore) = a
  BY <1>3, <1>5 DEF Credit, Factor, AmountScore
<1>12. Credit(Factor(match, "date", "date (pending)"), DateCloseScore, DatePendingScore) = b + c
  <2>1. CASE "date" \in R
    <3>1. b = 35 /\ c = 0
      BY <1>4, <1>6, <1>7, <2>1
    <3>2. QED BY <1>3, <2>1, <3>1 DEF Credit, Factor, DateCloseScore
  <2>2. CASE "date" \notin R /\ "date (pending)" \in R
    <3>1. b = 0 /\ c = 15
      BY <1>6, <1>7, <2>2
    <3>2. Factor(match, "date", "date (pending)") = "partial"
      BY <1>3, <2>2 DEF Factor
    <3>3. "partial" # "full"
      OBVIOUS
    <3>4. PICK l : l = Factor(match, "date", "date (pending)")
      OBVIOUS
    <3>5. l = "partial" /\ l # "full"
      BY <3>2, <3>3, <3>4
    <3>6. Credit(l, DateCloseScore, DatePendingScore) = DatePendingScore
      BY <3>5, CreditsOf
    <3>7. b + c = DatePendingScore
      BY <3>1 DEF DatePendingScore
    <3>8. QED BY <3>4, <3>6, <3>7
  <2>3. CASE "date" \notin R /\ "date (pending)" \notin R
    <3>1. b = 0 /\ c = 0
      BY <1>6, <1>7, <2>3
    <3>2. Factor(match, "date", "date (pending)") = "none"
      BY <1>3, <2>3 DEF Factor
    <3>3. "none" # "full" /\ "none" # "partial"
      OBVIOUS
    <3>4. PICK l : l = Factor(match, "date", "date (pending)")
      OBVIOUS
    <3>5. l # "full" /\ l # "partial"
      BY <3>2, <3>3, <3>4
    <3>6. Credit(l, DateCloseScore, DatePendingScore) = 0
      BY <3>5, CreditsOf
    <3>7. b + c = 0
      BY <3>1
    <3>8. QED BY <3>4, <3>6, <3>7
  <2>4. QED BY <2>1, <2>2, <2>3
<1>13. Credit(Factor(match, "merchant", "merchant (partial)"), MerchantHighScore, MerchantMediumScore) = d + e
  <2>1. CASE "merchant" \in R
    <3>1. d = 25 /\ e = 0
      BY <1>4, <1>8, <1>9, <2>1
    <3>2. QED BY <1>3, <2>1, <3>1 DEF Credit, Factor, MerchantHighScore
  <2>2. CASE "merchant" \notin R /\ "merchant (partial)" \in R
    <3>1. d = 0 /\ e = 10
      BY <1>8, <1>9, <2>2
    <3>2. Factor(match, "merchant", "merchant (partial)") = "partial"
      BY <1>3, <2>2 DEF Factor
    <3>3. "partial" # "full"
      OBVIOUS
    <3>4. PICK l : l = Factor(match, "merchant", "merchant (partial)")
      OBVIOUS
    <3>5. l = "partial" /\ l # "full"
      BY <3>2, <3>3, <3>4
    <3>6. Credit(l, MerchantHighScore, MerchantMediumScore) = MerchantMediumScore
      BY <3>5, CreditsOf
    <3>7. d + e = MerchantMediumScore
      BY <3>1 DEF MerchantMediumScore
    <3>8. QED BY <3>4, <3>6, <3>7
  <2>3. CASE "merchant" \notin R /\ "merchant (partial)" \notin R
    <3>1. d = 0 /\ e = 0
      BY <1>8, <1>9, <2>3
    <3>2. Factor(match, "merchant", "merchant (partial)") = "none"
      BY <1>3, <2>3 DEF Factor
    <3>3. "none" # "full" /\ "none" # "partial"
      OBVIOUS
    <3>4. PICK l : l = Factor(match, "merchant", "merchant (partial)")
      OBVIOUS
    <3>5. l # "full" /\ l # "partial"
      BY <3>2, <3>3, <3>4
    <3>6. Credit(l, MerchantHighScore, MerchantMediumScore) = 0
      BY <3>5, CreditsOf
    <3>7. d + e = 0
      BY <3>1
    <3>8. QED BY <3>4, <3>6, <3>7
  <2>4. QED BY <2>1, <2>2, <2>3
<1>14. FactorBreakdown(match) = <<a, b + c, d + e>>
  BY <1>11, <1>12, <1>13 DEF FactorBreakdown
<1>15. FoldLeft(+, 0, <<a, b + c, d + e>>) = a + (b + c) + (d + e)
  <2>1. b + c \in Nat /\ d + e \in Nat
    OBVIOUS
  <2>2. PICK y \in Nat : y = b + c
    BY <2>1
  <2>3. PICK z \in Nat : z = d + e
    BY <2>1
  <2>4. FoldLeft(+, 0, <<a, y, z>>) = a + y + z
    BY SumOfThree
  <2>5. QED BY <2>2, <2>3, <2>4
<1>16. a + (b + c) + (d + e) = a + b + c + d + e
  OBVIOUS
<1>17. FoldLeft(+, 0, FactorBreakdown(match)) = match.confidence
  BY <1>3, <1>10, <1>14, <1>15, <1>16
<1>18. QED BY <1>1, <1>17

\* A match has the confidence that its panel adds up to.
LEMMA PanelsAddUp ==
  ASSUME NEW s, NEW ledger, NEW n \in Nat, NEW m \in Nat, DOMAIN s = 1..n, DOMAIN ledger = 1..m,
         \A i \in DOMAIN s : LineOK(s[i]), \A q \in DOMAIN ledger : EntryOK(ledger[q]),
         Names \subseteq Seq(Seq(STRING)), NEW i \in DOMAIN s, NEW match, match = Matches(s, ledger)[i],
         match # NoPair
  PROVE  FoldLeft(+, 0, FactorBreakdown(match)) = match.confidence
<1>1. PICK taken : taken = MatchTransactions(s, ledger)
  OBVIOUS
<1>2. taken \subseteq (DOMAIN s) \X (DOMAIN ledger)
  BY <1>1, MatchesAreCandidates
<1>3. match = IF \E p \in taken : p[1] = i
              THEN MatchOf(s[i], ledger, (CHOOSE p \in taken : p[1] = i)[2]) ELSE NoPair
  BY <1>1 DEF Matches, MatchesFrom
<1>4. \E p \in taken : p[1] = i
  BY <1>3
<1>5. PICK p : p = CHOOSE r \in taken : r[1] = i
  OBVIOUS
<1>6. p \in taken
  BY <1>4, <1>5
<1>7. p[2] \in DOMAIN ledger
  BY <1>2, <1>6
<1>8. match = MatchOf(s[i], ledger, p[2])
  BY <1>3, <1>4, <1>5
<1>9. QED BY <1>7, <1>8, PanelOfMatch

----------------------------------------------------------------------------
(***************************************************************************)
(* Resemblances are numbers, so that one of some lines is the most similar. *)
(***************************************************************************)
LEMMA ResemblancesAreExact ==
  ASSUME Names \subseteq Seq(Seq(STRING)), NEW x, LineOK(x), NEW y, LineOK(y),
         NEW floor \in {270, MerchantLinkThreshold}
  PROVE  /\ Resemblance(x, y, floor) \in Int
         /\ LET exact == ExactSimilarity(MerchantProfile(x.name), MerchantProfile(y.name)) IN
              IF exact >= floor THEN Resemblance(x, y, floor) = exact
              ELSE Resemblance(x, y, floor) < floor
<1>1. PICK z : z = <<x.name, y.name, floor>>
  OBVIOUS
<1>2. z \in (Names \cup {<<>>}) \X (Names \cup {<<>>}) \X {270, MerchantLinkThreshold}
  BY <1>1 DEF LineOK
<1>3. z[1] = x.name /\ z[2] = y.name /\ z[3] = floor
  BY <1>1
<1>4. Resemblance(x, y, floor) = Resemblances[z]
  BY <1>1 DEF Resemblance
<1>5. Resemblances[z] = ProfileSimilarityAtLeast(MerchantProfile(z[1]), MerchantProfile(z[2]), z[3])
  BY <1>2 DEF Resemblances
<1>6. x.name \in Seq(Word) /\ y.name \in Seq(Word)
  <2>1. Names \cup {<<>>} \subseteq Seq(Word)
    <3>1. <<>> \in Seq(Word)
      OBVIOUS
    <3>2. QED BY <3>1 DEF Word
  <2>2. QED BY <2>1 DEF LineOK
<1>7. MerchantProfile(x.name) \in Profile /\ MerchantProfile(y.name) \in Profile
  BY <1>6, ProfileType
<1>8. floor \in Nat /\ 0 < floor
  BY DEF MerchantLinkThreshold
<1>9. PICK p \in Profile : p = MerchantProfile(x.name)
  BY <1>7
<1>10. PICK r \in Profile : r = MerchantProfile(y.name)
  BY <1>7
<1>11. Resemblance(x, y, floor) = ProfileSimilarityAtLeast(p, r, floor)
  BY <1>3, <1>4, <1>5, <1>9, <1>10
<1>12. /\ ProfileSimilarityAtLeast(p, r, floor) \in Int
       /\ IF ExactSimilarity(p, r) >= floor
          THEN ProfileSimilarityAtLeast(p, r, floor) = ExactSimilarity(p, r)
          ELSE ProfileSimilarityAtLeast(p, r, floor) < floor
  BY <1>8, ShortCutsAreExact
<1>13. QED BY <1>9, <1>10, <1>11, <1>12

LinesOK(s) ==
  /\ \E n \in Nat : DOMAIN s = 1..n
  /\ \A i \in DOMAIN s : LineOK(s[i])

\* The most similar of some lines is one of them.
LEMMA MostSimilarIsOne ==
  ASSUME Names \subseteq Seq(Seq(STRING)), NEW s, LinesOK(s), NEW i \in DOMAIN s,
         NEW floor \in {270, MerchantLinkThreshold}, NEW remain \in SUBSET (DOMAIN s), remain # {}
  PROVE  MostSimilar(s, i, remain, floor) \in remain
<1>1. PICK n \in Nat : DOMAIN s = 1..n
  BY DEF LinesOK
<1>2. PICK key : key = [j \in DOMAIN s |-> Similarity(s, j, i, floor)]
  OBVIOUS
<1>3. \A j \in DOMAIN s : key[j] \in Int /\ key[j] = Similarity(s, j, i, floor) /\ j \in Nat
  <2>1. \A j \in DOMAIN s : Similarity(s, j, i, floor) \in Int
    <3>1. ASSUME NEW j \in DOMAIN s PROVE Similarity(s, j, i, floor) \in Int
      <4>1. LineOK(s[j]) /\ LineOK(s[i])
        BY DEF LinesOK
      <4>2. QED BY <4>1, ResemblancesAreExact DEF Similarity
    <3>2. QED BY <3>1
  <2>2. QED BY <1>1, <1>2, <2>1
<1>4. PICK R : R = {z \in (DOMAIN s) \X (DOMAIN s) :
                     key[z[2]] > key[z[1]] \/ (key[z[2]] = key[z[1]] /\ z[2] < z[1])}
  OBVIOUS
<1>5. \A j, k \in DOMAIN s : <<k, j>> \in R <=> (key[j] > key[k] \/ (key[j] = key[k] /\ j < k))
  BY <1>4
<1>6. Orders(R, DOMAIN s)
  <2>1. ASSUME NEW x \in DOMAIN s, NEW y \in DOMAIN s PROVE x = y \/ <<x, y>> \in R \/ <<y, x>> \in R
    <3>1. key[x] \in Int /\ key[y] \in Int /\ x \in Nat /\ y \in Nat
      BY <1>3
    <3>2. x = y \/ (key[y] > key[x] \/ (key[y] = key[x] /\ y < x))
                \/ (key[x] > key[y] \/ (key[x] = key[y] /\ x < y))
      BY <3>1
    <3>3. QED BY <1>5, <3>2
  <2>2. ASSUME NEW x \in DOMAIN s, NEW y \in DOMAIN s, NEW z \in DOMAIN s, <<x, y>> \in R, <<y, z>> \in R
        PROVE  <<x, z>> \in R
    <3>1. key[x] \in Int /\ key[y] \in Int /\ key[z] \in Int /\ x \in Nat /\ y \in Nat /\ z \in Nat
      BY <1>3
    <3>2. key[y] > key[x] \/ (key[y] = key[x] /\ y < x)
      BY <1>5, <2>2
    <3>3. key[z] > key[y] \/ (key[z] = key[y] /\ z < y)
      BY <1>5, <2>2
    <3>4. key[z] > key[x] \/ (key[z] = key[x] /\ z < x)
      BY <3>1, <3>2, <3>3
    <3>5. QED BY <1>5, <3>4
  <2>3. QED BY <2>1, <2>2 DEF Orders
<1>7. IsFiniteSet(DOMAIN s)
  BY <1>1, PositionsAreFinite
<1>8. HasLast(remain, R)
  BY <1>6, <1>7, LastExists
<1>9. PICK j \in remain : \A k \in remain : k = j \/ <<k, j>> \in R
  BY <1>8 DEF HasLast
<1>10. \A k \in remain : \/ Similarity(s, j, i, floor) > Similarity(s, k, i, floor)
                         \/ Similarity(s, j, i, floor) = Similarity(s, k, i, floor) /\ j <= k
  <2>1. ASSUME NEW k \in remain
        PROVE  key[j] > key[k] \/ (key[j] = key[k] /\ j <= k)
    <3>1. j \in Nat /\ k \in Nat /\ key[j] \in Int /\ key[k] \in Int
      BY <1>3
    <3>2. k = j \/ key[j] > key[k] \/ (key[j] = key[k] /\ j < k)
      BY <1>5, <1>9
    <3>3. QED BY <3>1, <3>2
  <2>2. QED BY <1>3, <2>1
<1>11. QED BY <1>9, <1>10 DEF MostSimilar

----------------------------------------------------------------------------
(***************************************************************************)
(* Reversals and refunds: pairs of lines that cancel out, no line in two.  *)
(***************************************************************************)
Cancels(s, D, c) == \E i \in D : \E j \in D : /\ i # j /\ c = {i, j}
                                              /\ s[i].amount + s[j].amount = 0
CancellingPairs(s, D) ==
  {P \in SUBSET SUBSET D : /\ \A c \in P : Cancels(s, D, c)
                           /\ \A c, d \in P : c \cap d # {} => c = d}

LEMMA PairIsAdded ==
  ASSUME NEW s, NEW D, NEW P \in CancellingPairs(s, D), NEW c, Cancels(s, D, c), c \cap UNION P = {}
  PROVE  P \cup {c} \in CancellingPairs(s, D)
<1>1. c \in SUBSET D
  BY DEF Cancels
<1>2. \A d \in P : c \cap d = {}
  OBVIOUS
<1>3. P \cup {c} \in SUBSET SUBSET D
  BY <1>1 DEF CancellingPairs
<1>4. \A d \in P \cup {c} : Cancels(s, D, d)
  BY DEF CancellingPairs
<1>5. \A d, e \in P \cup {c} : d \cap e # {} => d = e
  <2>1. ASSUME NEW d \in P \cup {c}, NEW e \in P \cup {c}, d \cap e # {} PROVE d = e
    <3>1. CASE d \in P /\ e \in P
      BY <2>1, <3>1 DEF CancellingPairs
    <3>2. CASE d = c /\ e = c
      BY <3>2
    <3>3. CASE d = c /\ e \in P
      BY <1>2, <2>1, <3>3
    <3>4. CASE e = c /\ d \in P
      BY <1>2, <2>1, <3>4
    <3>5. QED BY <3>1, <3>2, <3>3, <3>4
  <2>2. QED BY <2>1
<1>6. QED BY <1>3, <1>4, <1>5 DEF CancellingPairs

LastPair(t) == CHOOSE x \in t : \A y \in t : y = x \/ Earlier(y, x)
Reversed(s, pairs, p) ==
  IF CanReverse(s[p[1]], s[p[2]]) /\ {p[1], p[2]} \cap UNION pairs = {}
  THEN pairs \cup {{p[1], p[2]}} ELSE pairs
ReversalFold(s, S, g) ==
  g = [t \in SUBSET S |-> IF t = {} THEN {} ELSE Reversed(s, g[t \ {LastPair(t)}], LastPair(t))]
PairsOf(s) == {p \in (DOMAIN s) \X (DOMAIN s) : p[1] < p[2]}

LEMMA ReversalsAreFold ==
  ASSUME NEW s
  PROVE  DetectReversals(s) = (CHOOSE g : ReversalFold(s, PairsOf(s), g))[PairsOf(s)]
BY DEF DetectReversals, FoldInOrder, MapThenFoldSet, ReversalFold, PairsOf, LastPair, Reversed

LEMMA LastPairIsOne ==
  ASSUME NEW n \in Nat, NEW m \in Nat, NEW t \in SUBSET ((1..n) \X (1..m)), t # {}
  PROVE  LastPair(t) \in t
<1>1. PICK key : key = [p \in (1..n) \X (1..m) |-> 0]
  OBVIOUS
<1>2. key \in [(1..n) \X (1..m) -> Int]
  BY <1>1
<1>3. HasLastByKey(t, key)
  BY <1>2, LastByKey
<1>4. \A x, y \in t : ~(key[y] > key[x])
  BY <1>1
<1>5. QED BY <1>3, <1>4 DEF HasLastByKey, LastPair

\* Reversals are pairs of lines that cancel out, and no line is in two.
LEMMA ReversalsCancel ==
  ASSUME NEW s, LinesOK(s)
  PROVE  DetectReversals(s) \in CancellingPairs(s, DOMAIN s)
<1>1. PICK n \in Nat : DOMAIN s = 1..n
  BY DEF LinesOK
<1>2. PICK S : S = PairsOf(s)
  OBVIOUS
<1>3. S \in SUBSET ((1..n) \X (1..n)) /\ \A p \in S : p[1] < p[2]
  BY <1>1, <1>2 DEF PairsOf
<1>4. IsFiniteSet(S)
  BY <1>3, PositionsAreFinite, FS_Subset
<1>5. \A t \in SUBSET S : t # {} => LastPair(t) \in t /\ LastPair(t) \in S /\ t \ {LastPair(t)} \in SUBSET S
  <2>1. ASSUME NEW t \in SUBSET S, t # {} PROVE LastPair(t) \in t
    BY <1>3, <2>1, LastPairIsOne
  <2>2. QED BY <2>1
<1> DEFINE Rows(t) == CancellingPairs(s, DOMAIN s)
           Start == {}
           Op(r, p) == Reversed(s, r, p)
<1>6. Start \in Rows({})
  BY DEF CancellingPairs
<1>7. ASSUME NEW t \in SUBSET S, t # {}, NEW r \in Rows(t \ {LastPair(t)})
      PROVE  Op(r, LastPair(t)) \in Rows(t)
  <2>1. PICK p : p = LastPair(t)
    OBVIOUS
  <2>2. p \in S
    BY <1>5, <1>7, <2>1
  <2>3. p[1] \in DOMAIN s /\ p[2] \in DOMAIN s /\ p[1] # p[2]
    BY <1>1, <1>3, <2>2
  <2>4. CASE CanReverse(s[p[1]], s[p[2]]) /\ {p[1], p[2]} \cap UNION r = {}
    <3>1. s[p[1]].amount + s[p[2]].amount = 0
      BY <2>4 DEF CanReverse
    <3>2. Cancels(s, DOMAIN s, {p[1], p[2]})
      BY <2>3, <3>1 DEF Cancels
    <3>3. r \cup {{p[1], p[2]}} \in CancellingPairs(s, DOMAIN s)
      BY <2>4, <3>2, PairIsAdded
    <3>4. QED BY <2>1, <2>4, <3>3 DEF Reversed
  <2>5. CASE ~(CanReverse(s[p[1]], s[p[2]]) /\ {p[1], p[2]} \cap UNION r = {})
    BY <2>1, <2>5 DEF Reversed
  <2>6. QED BY <2>4, <2>5
<1>8. \A t \in SUBSET S : Rows(t) \subseteq SUBSET SUBSET (DOMAIN s)
  BY DEF CancellingPairs
<1>9. PICK pick : pick = [t \in SUBSET S |-> LastPair(t)]
  OBVIOUS
<1>10. PICK step : step = [y \in (SUBSET SUBSET (DOMAIN s)) \X S |-> Op(y[1], y[2])]
  OBVIOUS
<1>11. PICK Acc : Acc = [t \in SUBSET S |-> Rows(t)]
  OBVIOUS
<1>12. \A t \in SUBSET S : Acc[t] = Rows(t)
  BY <1>11
<1>13. \A t \in SUBSET S : t # {} => pick[t] = LastPair(t) /\ pick[t] \in t
  BY <1>5, <1>9
<1>14. \A r \in (SUBSET SUBSET (DOMAIN s)), j \in S : step[<<r, j>>] = Op(r, j)
  BY <1>10
<1> HIDE DEF Op, Rows, Start
<1>15. Grows(S, Start, step, pick, Acc)
  <2>1. ASSUME NEW t \in SUBSET S, t # {}, NEW r \in Acc[t \ {pick[t]}]
        PROVE  step[<<r, pick[t]>>] \in Acc[t]
    <3>1. pick[t] = LastPair(t) /\ LastPair(t) \in S /\ t \ {LastPair(t)} \in SUBSET S
      BY <1>5, <1>13, <2>1
    <3>2. r \in Rows(t \ {LastPair(t)}) /\ r \in (SUBSET SUBSET (DOMAIN s))
      BY <1>8, <1>12, <2>1, <3>1
    <3>3. Op(r, LastPair(t)) \in Rows(t)
      BY <1>7, <2>1, <3>2
    <3>4. step[<<r, pick[t]>>] = Op(r, LastPair(t))
      BY <1>14, <3>1, <3>2
    <3>5. QED BY <1>12, <3>3, <3>4
  <2>2. Start \in Acc[{}]
    BY <1>6, <1>12
  <2>3. QED BY <2>1, <2>2 DEF Grows
<1>16. Picks(S, pick)
  BY <1>13 DEF Picks
<1>17. PICK f : IsFold(S, Start, step, pick, f)
  BY <1>4, <1>16, FoldExists
<1>18. \A t \in SUBSET S : f[t] \in Acc[t]
  BY <1>4, <1>15, <1>16, <1>17, FoldIsTyped
<1>19. f = [t \in SUBSET S |-> IF t = {} THEN Start ELSE Op(f[t \ {LastPair(t)}], LastPair(t))]
  <2>1. \A t \in SUBSET S : f[t] \in (SUBSET SUBSET (DOMAIN s))
    BY <1>8, <1>12, <1>18
  <2>2. \A t \in SUBSET S : t # {} => f[t \ {LastPair(t)}] \in (SUBSET SUBSET (DOMAIN s)) /\ LastPair(t) \in S
    BY <1>5, <2>1
  <2>3. \A t \in SUBSET S : t # {} =>
          step[<<f[t \ {pick[t]}], pick[t]>>] = Op(f[t \ {LastPair(t)}], LastPair(t))
    BY <1>13, <1>14, <2>2
  <2>4. QED BY <1>17, <2>3 DEF IsFold
<1>20. \A g : ReversalFold(s, S, g) <=>
         g = [t \in SUBSET S |-> IF t = {} THEN Start ELSE Op(g[t \ {LastPair(t)}], LastPair(t))]
  BY DEF ReversalFold, Op, Start
<1>21. PICK h : h = CHOOSE g : ReversalFold(s, S, g)
  OBVIOUS
<1>22. h = [t \in SUBSET S |-> IF t = {} THEN Start ELSE Op(h[t \ {LastPair(t)}], LastPair(t))]
  <2>1. ReversalFold(s, S, f)
    BY <1>19, <1>20
  <2>2. ReversalFold(s, S, h)
    BY <1>21, <2>1
  <2>3. QED BY <1>20, <2>2
<1>23. PICK Good : Good = {t \in SUBSET S : h[t] \in Rows(t)}
  OBVIOUS
<1>24. Inductive(S, pick, Good)
  <2>1. ASSUME NEW t \in SUBSET S, t # {} => t \ {pick[t]} \in Good PROVE h[t] \in Rows(t)
    <3>1. CASE t = {}
      BY <1>6, <1>22, <3>1
    <3>2. CASE t # {}
      <4>1. h[t \ {LastPair(t)}] \in Rows(t \ {LastPair(t)})
        BY <1>13, <1>23, <2>1, <3>2
      <4>2. h[t] = Op(h[t \ {LastPair(t)}], LastPair(t))
        BY <1>22, <3>2
      <4>3. QED BY <1>7, <3>2, <4>1, <4>2
    <3>3. QED BY <3>1, <3>2
  <2>2. QED BY <1>23, <2>1 DEF Inductive
<1>25. h[S] \in Rows(S)
  <2>1. SUBSET S \subseteq Good
    BY <1>4, <1>16, <1>24, SubsetInduction
  <2>2. QED BY <1>23, <2>1
<1>26. h[S] \in CancellingPairs(s, DOMAIN s)
  BY <1>25 DEF Rows
<1>27. QED BY <1>2, <1>21, <1>26, ReversalsAreFold

LastOf(t) == CHOOSE x \in t : \A y \in t : y = x \/ y < x
Charges(s, open) == {i \in open : s[i].amount > 0}
Refunded(s, charges, pairs, credit) ==
  IF Refundable(s, credit, charges \ UNION pairs) = {} THEN pairs
  ELSE pairs \cup {{credit, MostSimilar(s, credit, Refundable(s, credit, charges \ UNION pairs),
                                        RefundThreshold(s[credit]))}}
RefundFold(s, charges, S, g) ==
  g = [t \in SUBSET S |-> IF t = {} THEN {} ELSE Refunded(s, charges, g[t \ {LastOf(t)}], LastOf(t))]
CreditsOpen(s, open) == {i \in open : s[i].amount < 0}

LEMMA RefundsAreFold ==
  ASSUME NEW s, NEW reversed
  PROVE  LET open == DOMAIN s \ reversed IN
           DetectRefunds(s, reversed) =
             (CHOOSE g : RefundFold(s, Charges(s, open), CreditsOpen(s, open), g))[CreditsOpen(s, open)]
BY DEF DetectRefunds, FoldInOrder, MapThenFoldSet, RefundFold, Charges, CreditsOpen, LastOf, Refunded

LEMMA LastOfIsOne ==
  ASSUME NEW n \in Nat, NEW t \in SUBSET (1..n), t # {}
  PROVE  LastOf(t) \in t
<1>1. PICK R : R = {z \in (1..n) \X (1..n) : z[1] < z[2]}
  OBVIOUS
<1>2. \A x, y \in 1..n : <<x, y>> \in R <=> x < y
  BY <1>1
<1>3. Orders(R, 1..n)
  <2>1. \A x, y \in 1..n : x = y \/ x < y \/ y < x
    OBVIOUS
  <2>2. \A x, y, z \in 1..n : x < y /\ y < z => x < z
    OBVIOUS
  <2>3. QED BY <1>2, <2>1, <2>2 DEF Orders
<1>4. IsFiniteSet(1..n)
  BY PositionsAreFinite
<1>5. HasLast(t, R)
  BY <1>3, <1>4, LastExists
<1>6. PICK x \in t : \A y \in t : y = x \/ <<y, x>> \in R
  BY <1>5 DEF HasLast
<1>7. \A y \in t : y = x \/ y < x
  BY <1>2, <1>6
<1>8. QED BY <1>7 DEF LastOf

\* Pairs of open lines whose credits are among those looked at.
RefundPairs(s, open, t) ==
  {P \in CancellingPairs(s, open) : \A i \in UNION P : s[i].amount < 0 => i \in t}

LEMMA RefundIsAdded ==
  ASSUME Names \subseteq Seq(Seq(STRING)), NEW s, LinesOK(s), NEW open \in SUBSET (DOMAIN s),
         NEW t \in SUBSET CreditsOpen(s, open), NEW c \in t, NEW P \in RefundPairs(s, open, t \ {c})
  PROVE  Refunded(s, Charges(s, open), P, c) \in RefundPairs(s, open, t)
<1>1. P \in RefundPairs(s, open, t)
  BY DEF RefundPairs
<1>2. PICK possible : possible = Refundable(s, c, Charges(s, open) \ UNION P)
  OBVIOUS
<1>3. CASE possible = {}
  BY <1>1, <1>2, <1>3 DEF Refunded
<1>4. CASE possible # {}
  <2>1. PICK k : k = MostSimilar(s, c, possible, RefundThreshold(s[c]))
    OBVIOUS
  <2>2. Refunded(s, Charges(s, open), P, c) = P \cup {{c, k}}
    BY <1>2, <1>4, <2>1 DEF Refunded
  <2>3. c \in open /\ s[c].amount < 0 /\ c \in DOMAIN s
    BY DEF CreditsOpen
  <2>4. possible \in SUBSET (DOMAIN s)
    BY <1>2 DEF Refundable, Charges
  <2>5. RefundThreshold(s[c]) \in {270, MerchantLinkThreshold}
    BY DEF RefundThreshold
  <2>6. k \in possible
    BY <1>4, <2>1, <2>3, <2>4, <2>5, MostSimilarIsOne
  <2>7. /\ k \in open /\ k \in DOMAIN s /\ s[k].amount > 0 /\ k \notin UNION P
        /\ s[k].amount = -s[c].amount
    BY <1>2, <2>4, <2>6 DEF Refundable, Charges
  <2>8. s[k].amount \in Int /\ s[c].amount \in Int
    BY <2>3, <2>7 DEF LinesOK, LineOK
  <2>9. c # k /\ s[c].amount + s[k].amount = 0 /\ ~(s[k].amount < 0)
    <3>1. PICK x \in Int : x = s[k].amount
      BY <2>8
    <3>2. PICK y \in Int : y = s[c].amount
      BY <2>8
    <3>3. x > 0 /\ y < 0 /\ x = -y
      BY <2>3, <2>7, <3>1, <3>2
    <3>4. y + x = 0 /\ ~(x < 0) /\ x # y
      BY <3>3
    <3>5. QED BY <3>1, <3>2, <3>4
  <2>10. Cancels(s, open, {c, k})
    BY <2>3, <2>7, <2>9 DEF Cancels
  <2>11. c \notin UNION P
    BY <2>3 DEF RefundPairs
  <2>12. {c, k} \cap UNION P = {}
    BY <2>7, <2>11
  <2>13. P \cup {{c, k}} \in CancellingPairs(s, open)
    BY <2>10, <2>12, PairIsAdded DEF RefundPairs
  <2>14. \A i \in UNION (P \cup {{c, k}}) : s[i].amount < 0 => i \in t
    <3>1. ASSUME NEW i \in UNION (P \cup {{c, k}}), s[i].amount < 0 PROVE i \in t
      <4>1. i \in UNION P \/ i = c \/ i = k
        OBVIOUS
      <4>2. CASE i \in UNION P
        BY <1>1, <3>1, <4>2 DEF RefundPairs
      <4>3. CASE i = c
        BY <4>3
      <4>4. CASE i = k
        BY <2>9, <3>1, <4>4
      <4>5. QED BY <4>1, <4>2, <4>3, <4>4
    <3>2. QED BY <3>1
  <2>15. QED BY <2>2, <2>13, <2>14 DEF RefundPairs
<1>5. QED BY <1>3, <1>4

\* So are refunds, among the lines that no reversal has.
LEMMA RefundsCancel ==
  ASSUME Names \subseteq Seq(Seq(STRING)), NEW s, LinesOK(s), NEW reversed
  PROVE  DetectRefunds(s, reversed) \in CancellingPairs(s, DOMAIN s \ reversed)
<1>1. PICK n \in Nat : DOMAIN s = 1..n
  BY DEF LinesOK
<1>2. PICK open : open = DOMAIN s \ reversed
  OBVIOUS
<1>3. PICK S : S = CreditsOpen(s, open)
  OBVIOUS
<1>28. S \in SUBSET (1..n) /\ open \in SUBSET (DOMAIN s) /\ S \in SUBSET open
  BY <1>1, <1>2, <1>3 DEF CreditsOpen
<1>4. IsFiniteSet(S)
  BY <1>28, PositionsAreFinite, FS_Subset
<1>5. \A t \in SUBSET S : t # {} => LastOf(t) \in t /\ LastOf(t) \in S /\ t \ {LastOf(t)} \in SUBSET S
  <2>1. ASSUME NEW t \in SUBSET S, t # {} PROVE LastOf(t) \in t
    <3>1. t \in SUBSET (1..n)
      BY <1>28
    <3>2. QED BY <2>1, <3>1, LastOfIsOne
  <2>2. QED BY <2>1
<1> DEFINE Rows(t) == RefundPairs(s, open, t)
           Start == {}
           Op(r, c) == Refunded(s, Charges(s, open), r, c)
<1>6. Start \in Rows({})
  BY DEF CancellingPairs, RefundPairs
<1>7. ASSUME NEW t \in SUBSET S, t # {}, NEW r \in Rows(t \ {LastOf(t)})
      PROVE  Op(r, LastOf(t)) \in Rows(t)
  <2>1. PICK c : c = LastOf(t)
    OBVIOUS
  <2>2. c \in t
    BY <1>5, <1>7, <2>1
  <2>3. t \in SUBSET CreditsOpen(s, open)
    BY <1>3
  <2>4. r \in RefundPairs(s, open, t \ {c})
    BY <2>1
  <2>5. Refunded(s, Charges(s, open), r, c) \in RefundPairs(s, open, t)
    BY <1>28, <2>2, <2>3, <2>4, RefundIsAdded
  <2>6. QED BY <2>1, <2>5
<1>8. \A t \in SUBSET S : Rows(t) \subseteq SUBSET SUBSET open
  BY DEF CancellingPairs, RefundPairs
<1>9. PICK pick : pick = [t \in SUBSET S |-> LastOf(t)]
  OBVIOUS
<1>10. PICK step : step = [y \in (SUBSET SUBSET open) \X S |-> Op(y[1], y[2])]
  OBVIOUS
<1>11. PICK Acc : Acc = [t \in SUBSET S |-> Rows(t)]
  OBVIOUS
<1>12. \A t \in SUBSET S : Acc[t] = Rows(t)
  BY <1>11
<1>13. \A t \in SUBSET S : t # {} => pick[t] = LastOf(t) /\ pick[t] \in t
  BY <1>5, <1>9
<1>14. \A r \in (SUBSET SUBSET open), j \in S : step[<<r, j>>] = Op(r, j)
  BY <1>10
<1> HIDE DEF Op, Rows, Start
<1>15. Grows(S, Start, step, pick, Acc)
  <2>1. ASSUME NEW t \in SUBSET S, t # {}, NEW r \in Acc[t \ {pick[t]}]
        PROVE  step[<<r, pick[t]>>] \in Acc[t]
    <3>1. pick[t] = LastOf(t) /\ LastOf(t) \in S /\ t \ {LastOf(t)} \in SUBSET S
      BY <1>5, <1>13, <2>1
    <3>2. r \in Rows(t \ {LastOf(t)}) /\ r \in (SUBSET SUBSET open)
      BY <1>8, <1>12, <2>1, <3>1
    <3>3. Op(r, LastOf(t)) \in Rows(t)
      BY <1>7, <2>1, <3>2
    <3>4. step[<<r, pick[t]>>] = Op(r, LastOf(t))
      BY <1>14, <3>1, <3>2
    <3>5. QED BY <1>12, <3>3, <3>4
  <2>2. Start \in Acc[{}]
    BY <1>6, <1>12
  <2>3. QED BY <2>1, <2>2 DEF Grows
<1>16. Picks(S, pick)
  BY <1>13 DEF Picks
<1>17. PICK f : IsFold(S, Start, step, pick, f)
  BY <1>4, <1>16, FoldExists
<1>18. \A t \in SUBSET S : f[t] \in Acc[t]
  BY <1>4, <1>15, <1>16, <1>17, FoldIsTyped
<1>19. f = [t \in SUBSET S |-> IF t = {} THEN Start ELSE Op(f[t \ {LastOf(t)}], LastOf(t))]
  <2>1. \A t \in SUBSET S : f[t] \in (SUBSET SUBSET open)
    BY <1>8, <1>12, <1>18
  <2>2. \A t \in SUBSET S : t # {} => f[t \ {LastOf(t)}] \in (SUBSET SUBSET open) /\ LastOf(t) \in S
    BY <1>5, <2>1
  <2>3. \A t \in SUBSET S : t # {} =>
          step[<<f[t \ {pick[t]}], pick[t]>>] = Op(f[t \ {LastOf(t)}], LastOf(t))
    BY <1>13, <1>14, <2>2
  <2>4. QED BY <1>17, <2>3 DEF IsFold
<1>20. \A g : RefundFold(s, Charges(s, open), S, g) <=>
         g = [t \in SUBSET S |-> IF t = {} THEN Start ELSE Op(g[t \ {LastOf(t)}], LastOf(t))]
  BY DEF RefundFold, Op, Start
<1>21. PICK h : h = CHOOSE g : RefundFold(s, Charges(s, open), S, g)
  OBVIOUS
<1>22. h = [t \in SUBSET S |-> IF t = {} THEN Start ELSE Op(h[t \ {LastOf(t)}], LastOf(t))]
  <2>1. RefundFold(s, Charges(s, open), S, f)
    BY <1>19, <1>20
  <2>2. RefundFold(s, Charges(s, open), S, h)
    BY <1>21, <2>1
  <2>3. QED BY <1>20, <2>2
<1>23. PICK Good : Good = {t \in SUBSET S : h[t] \in Rows(t)}
  OBVIOUS
<1>24. Inductive(S, pick, Good)
  <2>1. ASSUME NEW t \in SUBSET S, t # {} => t \ {pick[t]} \in Good PROVE h[t] \in Rows(t)
    <3>1. CASE t = {}
      BY <1>6, <1>22, <3>1
    <3>2. CASE t # {}
      <4>1. h[t \ {LastOf(t)}] \in Rows(t \ {LastOf(t)})
        BY <1>13, <1>23, <2>1, <3>2
      <4>2. h[t] = Op(h[t \ {LastOf(t)}], LastOf(t))
        BY <1>22, <3>2
      <4>3. QED BY <1>7, <3>2, <4>1, <4>2
    <3>3. QED BY <3>1, <3>2
  <2>2. QED BY <1>23, <2>1 DEF Inductive
<1>25. h[S] \in Rows(S)
  <2>1. SUBSET S \subseteq Good
    BY <1>4, <1>16, <1>24, SubsetInduction
  <2>2. QED BY <1>23, <2>1
<1>26. h[S] \in CancellingPairs(s, open)
  BY <1>25 DEF Rows, RefundPairs
<1>27. QED BY <1>2, <1>3, <1>21, <1>26, RefundsAreFold

----------------------------------------------------------------------------
(***************************************************************************)
(* Each line of a reversal or a refund is told of the other.               *)
(***************************************************************************)
OtherOf(pair, i) == CHOOSE k \in pair : k # i
\* i and j are the two lines of one pair, seen from each.
Partners(s, P, i, j) ==
  /\ i # j /\ j \in UNION P /\ PartOf(P, i) = {i, j} /\ PartOf(P, j) = {i, j}
  /\ OtherOf({i, j}, i) = j /\ OtherOf({i, j}, j) = i
  /\ s[i].amount + s[j].amount = 0 \/ s[j].amount + s[i].amount = 0

LEMMA PartsOfPair ==
  ASSUME NEW s, NEW D, NEW P \in CancellingPairs(s, D), NEW i \in UNION P
  PROVE  \E j \in D : Partners(s, P, i, j)
<1>1. PICK c \in P : i \in c
  OBVIOUS
<1>2. PICK a \in D : \E b \in D : a # b /\ c = {a, b} /\ s[a].amount + s[b].amount = 0
  BY <1>1 DEF CancellingPairs, Cancels
<1>3. PICK b \in D : a # b /\ c = {a, b} /\ s[a].amount + s[b].amount = 0
  BY <1>2
<1>4. ASSUME NEW k \in c PROVE PartOf(P, k) = c
  <2>1. \A d \in P : k \in d => d = c
    BY <1>1, <1>4 DEF CancellingPairs
  <2>2. QED BY <1>1, <1>4, <2>1 DEF PartOf
<1>5. CASE i = a
  <2>1. OtherOf({i, b}, i) = b /\ OtherOf({i, b}, b) = i
    BY <1>3, <1>5 DEF OtherOf
  <2>2. Partners(s, P, i, b)
    BY <1>1, <1>3, <1>4, <1>5, <2>1 DEF Partners
  <2>3. QED BY <2>2
<1>6. CASE i = b
  <2>1. c = {i, a}
    BY <1>3, <1>6
  <2>2. OtherOf({i, a}, i) = a /\ OtherOf({i, a}, a) = i
    BY <1>3, <1>6 DEF OtherOf
  <2>3. Partners(s, P, i, a)
    BY <1>1, <1>3, <1>4, <1>6, <2>1, <2>2 DEF Partners
  <2>4. QED BY <2>3
<1>7. QED BY <1>1, <1>3, <1>5, <1>6

LEMMA ReversalAt ==
  ASSUME NEW s, NEW R, NEW F, NEW G, NEW L, NEW i \in DOMAIN s, i \in UNION R
  PROVE  DetectionsFrom(s, R, F, G, L)[i] = ReversalFinding(s, PartOf(R, i), i)
BY DEF DetectionsFrom

LEMMA RefundAt ==
  ASSUME NEW s, NEW R, NEW F, NEW G, NEW L, NEW i \in DOMAIN s, i \notin UNION R, i \in UNION F
  PROVE  DetectionsFrom(s, R, F, G, L)[i] = RefundFinding(s, PartOf(F, i), i)
BY DEF DetectionsFrom

LEMMA OtherwiseAt ==
  ASSUME NEW s, NEW R, NEW F, NEW G, NEW L, NEW i \in DOMAIN s, i \notin UNION R, i \notin UNION F
  PROVE  \/ DetectionsFrom(s, R, F, G, L)[i] = SplitFinding(PartOf(G, i), i)
         \/ DetectionsFrom(s, R, F, G, L)[i] = MerchantFinding(s, i, L[i])
         \/ DetectionsFrom(s, R, F, G, L)[i] = NoFinding
BY DEF DetectionsFrom

LEMMA PairedFindings ==
  ASSUME NEW s, NEW pair, NEW i
  PROVE  /\ ReversalFinding(s, pair, i).kind = "reversal"
         /\ ReversalFinding(s, pair, i).related = {OtherOf(pair, i)}
         /\ RefundFinding(s, pair, i).kind = "refund"
         /\ RefundFinding(s, pair, i).related = {OtherOf(pair, i)}
BY DEF ReversalFinding, RefundFinding, Finding, OtherOf

\* The finding of a reversal or refund is that of its other line as well.
LEMMA FindingsArePaired ==
  ASSUME Names \subseteq Seq(Seq(STRING)), NEW s, LinesOK(s), NEW i \in DOMAIN s,
         BuildDetections(s)[i].kind \in {"reversal", "refund"}
  PROVE  \E j \in DOMAIN s :
           /\ BuildDetections(s)[i].related = {j} /\ s[i].amount + s[j].amount = 0
           /\ BuildDetections(s)[j].kind = BuildDetections(s)[i].kind
           /\ BuildDetections(s)[j].related = {i}
<1>1. PICK R : R = DetectReversals(s)
  OBVIOUS
<1>2. PICK F : F = RefundsBesideReversals(s)
  OBVIOUS
<1>3. PICK G : G = DetectSplitGroups(s, UNION DetectReversals(s))
  OBVIOUS
<1>4. PICK L : L = DetectMerchantLinks(s)
  OBVIOUS
<1>5. PICK found : found = DetectionsFrom(s, R, F, G, L)
  OBVIOUS
<1>6. BuildDetections(s) = found
  BY <1>1, <1>2, <1>3, <1>4, <1>5 DEF BuildDetections
<1>7. R \in CancellingPairs(s, DOMAIN s)
  BY <1>1, ReversalsCancel
<1>8. F \in CancellingPairs(s, DOMAIN s \ UNION R)
  BY <1>1, <1>2, RefundsCancel DEF RefundsBesideReversals
<1>9. \A a, b \in DOMAIN s : s[b].amount + s[a].amount = 0 => s[a].amount + s[b].amount = 0
  <2>1. ASSUME NEW a \in DOMAIN s, NEW b \in DOMAIN s, s[b].amount + s[a].amount = 0
        PROVE  s[a].amount + s[b].amount = 0
    <3>1. s[a].amount \in Int /\ s[b].amount \in Int
      BY DEF LinesOK, LineOK
    <3>2. QED BY <2>1, <3>1
  <2>2. QED BY <2>1
<1>10. CASE i \in UNION R
  <2>1. PICK D : D = DOMAIN s
    OBVIOUS
  <2>2. R \in CancellingPairs(s, D) /\ i \in UNION R
    BY <1>7, <1>8, <1>10, <2>1
  <2>3. PICK j \in D : Partners(s, R, i, j)
    BY <2>2, PartsOfPair
  <2>4. j \in DOMAIN s /\ j \in UNION R
    BY <2>1, <2>3 DEF Partners
  <2>5. found[i] = ReversalFinding(s, PartOf(R, i), i) /\ found[j] = ReversalFinding(s, PartOf(R, j), j)
    BY <1>5, <1>10, <2>4, ReversalAt
  <2>6. found[i] = ReversalFinding(s, {i, j}, i) /\ found[j] = ReversalFinding(s, {i, j}, j)
    BY <2>3, <2>5 DEF Partners
  <2>7. OtherOf({i, j}, i) = j /\ OtherOf({i, j}, j) = i
    BY <2>3 DEF Partners
  <2>8. found[i].kind = "reversal" /\ found[j].kind = "reversal"
    BY <2>6, PairedFindings
  <2>12. found[i].related = {OtherOf({i, j}, i)} /\ found[j].related = {OtherOf({i, j}, j)}
    BY <2>6, PairedFindings
  <2>9. found[i].related = {j} /\ found[j].related = {i}
    BY <2>7, <2>12
  <2>10. s[i].amount + s[j].amount = 0
    BY <1>9, <2>3, <2>4 DEF Partners
  <2>11. QED BY <1>6, <2>4, <2>8, <2>9, <2>10
<1>11. CASE i \notin UNION R /\ i \in UNION F
  <2>1. PICK D : D = DOMAIN s \ UNION R
    OBVIOUS
  <2>2. F \in CancellingPairs(s, D) /\ i \in UNION F
    BY <1>7, <1>8, <1>11, <2>1
  <2>3. PICK j \in D : Partners(s, F, i, j)
    BY <2>2, PartsOfPair
  <2>4. j \in DOMAIN s /\ j \notin UNION R /\ j \in UNION F
    BY <2>1, <2>3 DEF Partners
  <2>5. found[i] = RefundFinding(s, PartOf(F, i), i) /\ found[j] = RefundFinding(s, PartOf(F, j), j)
    BY <1>5, <1>11, <2>4, RefundAt
  <2>6. found[i] = RefundFinding(s, {i, j}, i) /\ found[j] = RefundFinding(s, {i, j}, j)
    BY <2>3, <2>5 DEF Partners
  <2>7. OtherOf({i, j}, i) = j /\ OtherOf({i, j}, j) = i
    BY <2>3 DEF Partners
  <2>8. found[i].kind = "refund" /\ found[j].kind = "refund"
    BY <2>6, PairedFindings
  <2>12. found[i].related = {OtherOf({i, j}, i)} /\ found[j].related = {OtherOf({i, j}, j)}
    BY <2>6, PairedFindings
  <2>9. found[i].related = {j} /\ found[j].related = {i}
    BY <2>7, <2>12
  <2>10. s[i].amount + s[j].amount = 0
    BY <1>9, <2>3, <2>4 DEF Partners
  <2>11. QED BY <1>6, <2>4, <2>8, <2>9, <2>10
<1>12. CASE i \notin UNION R /\ i \notin UNION F
  <2>1. PICK kind : kind = found[i].kind
    OBVIOUS
  <2>2. \/ found[i] = SplitFinding(PartOf(G, i), i)
        \/ found[i] = MerchantFinding(s, i, L[i])
        \/ found[i] = NoFinding
    BY <1>5, <1>12, OtherwiseAt
  <2>3. kind = "split" \/ kind = "merchant" \/ kind = "none"
    BY <2>1, <2>2 DEF SplitFinding, MerchantFinding, NoFinding, Finding
  <2>4. kind = "reversal" \/ kind = "refund"
    BY <1>6, <2>1
  <2>5. QED BY <2>3, <2>4
<1>13. QED BY <1>10, <1>11, <1>12

----------------------------------------------------------------------------
(***************************************************************************)
(* The comparison: a matching to which no pair can be added, and what it   *)
(* leaves over.                                                            *)
(***************************************************************************)
RankOf(s, ledger, p) == Rank(ClassifyPair(s[p[1]], ledger[p[2]]))
Preferred(s, ledger, p, r) ==
  \/ RankOf(s, ledger, p) > RankOf(s, ledger, r)
  \/ RankOf(s, ledger, p) = RankOf(s, ledger, r) /\ Earlier(p, r)
LastPreferred(s, ledger, t) == CHOOSE x \in t : \A y \in t : y = x \/ Preferred(s, ledger, y, x)
Comparable(s, ledger, lines, entries) ==
  {p \in lines \X entries : ClassifyPair(s[p[1]], ledger[p[2]]) # "none"}
PairFold(s, ledger, S, g) ==
  g = [t \in SUBSET S |-> IF t = {} THEN {} ELSE
         Taken(g[t \ {LastPreferred(s, ledger, t)}], LastPreferred(s, ledger, t))]

LEMMA PairsAreFold ==
  ASSUME NEW s, NEW ledger, NEW lines, NEW entries
  PROVE  Pairs(s, ledger, lines, entries) =
           (CHOOSE g : PairFold(s, ledger, Comparable(s, ledger, lines, entries), g))
             [Comparable(s, ledger, lines, entries)]
BY DEF Pairs, FoldInOrder, MapThenFoldSet, PairFold, Comparable, LastPreferred, Preferred, RankOf,
       Taken, Compete

\* The pairs of a comparison are a matching, and none can be added.
LEMMA PairsAreMatching ==
  ASSUME NEW s, NEW ledger, NEW n \in Nat, NEW m \in Nat,
         NEW lines \in SUBSET (1..n), NEW entries \in SUBSET (1..m)
  PROVE  Pairs(s, ledger, lines, entries) \in Matchings(Comparable(s, ledger, lines, entries))
<1>1. PICK S : S = Comparable(s, ledger, lines, entries)
  OBVIOUS
<1>2. S \in SUBSET ((1..n) \X (1..m))
  BY <1>1 DEF Comparable
<1>3. IsFiniteSet(S)
  BY <1>2, PositionsAreFinite, FS_Subset
<1>4. PICK key : key = [p \in (1..n) \X (1..m) |-> RankOf(s, ledger, p)]
  OBVIOUS
<1>5. key \in [(1..n) \X (1..m) -> Int]
  <2>1. \A p \in (1..n) \X (1..m) : RankOf(s, ledger, p) \in Int
    BY DEF RankOf, Rank
  <2>2. QED BY <1>4, <2>1
<1>6. \A x, y \in (1..n) \X (1..m) :
        Preferred(s, ledger, y, x) <=> (key[y] > key[x] \/ (key[y] = key[x] /\ Earlier(y, x)))
  BY <1>4 DEF Preferred
<1>7. \A t \in SUBSET S : t # {} => LastPreferred(s, ledger, t) \in t
  <2>1. ASSUME NEW t \in SUBSET S, t # {} PROVE LastPreferred(s, ledger, t) \in t
    <3>1. t \in SUBSET ((1..n) \X (1..m))
      BY <1>2
    <3>2. HasLastByKey(t, key)
      BY <1>5, <2>1, <3>1, LastByKey
    <3>3. PICK x \in t : \A y \in t : y = x \/ key[y] > key[x] \/ (key[y] = key[x] /\ Earlier(y, x))
      BY <3>2 DEF HasLastByKey
    <3>4. \A y \in t : y = x \/ Preferred(s, ledger, y, x)
      BY <1>6, <3>1, <3>3
    <3>5. QED BY <3>4 DEF LastPreferred
  <2>2. QED BY <2>1
<1>8. PICK pick : pick = [t \in SUBSET S |-> LastPreferred(s, ledger, t)]
  OBVIOUS
<1>9. Picks(S, pick)
  BY <1>7, <1>8 DEF Picks
<1>10. \A g : GreedyFold(S, pick, g) <=> PairFold(s, ledger, S, g)
  BY <1>8 DEF GreedyFold, PairFold
<1>11. PICK h : h = CHOOSE g : PairFold(s, ledger, S, g)
  OBVIOUS
<1>12. PairFold(s, ledger, S, h)
  <2>1. \E g : PairFold(s, ledger, S, g)
    BY <1>3, <1>9, <1>10, GreedyExists
  <2>2. QED BY <1>11, <2>1
<1>13. h[S] \in Matchings(S)
  BY <1>3, <1>9, <1>10, <1>12, GreedyIsMaximal
<1>14. Pairs(s, ledger, lines, entries) = h[S]
  BY <1>1, <1>11, PairsAreFold
<1>15. QED BY <1>1, <1>13, <1>14

\* Groups of free lines, no line in two, that hold every line with the amount of
\* one of the entries.
Covered(groups) == UNION {g.lines : g \in groups}
CopyGroups(s, ledger, free, t) ==
  {D \in SUBSET [entry : t, lines : SUBSET free] :
     /\ \A g, h \in D : g.lines \cap h.lines # {} => g = h
     /\ \A q \in t, i \in free : SameAmount(s[i], ledger[q]) => i \in Covered(D)}
Copies(s, ledger, free, groups, q) == {i \in free \ Covered(groups) : SameAmount(s[i], ledger[q])}
Grouped(s, ledger, free, groups, q) ==
  IF Copies(s, ledger, free, groups, q) = {} THEN groups
  ELSE groups \cup {[entry |-> q, lines |-> Copies(s, ledger, free, groups, q)]}
CopyFold(s, ledger, free, S, g) ==
  g = [t \in SUBSET S |-> IF t = {} THEN {} ELSE Grouped(s, ledger, free, g[t \ {LastOf(t)}], LastOf(t))]

LEMMA DuplicatesAreFold ==
  ASSUME NEW s, NEW ledger, NEW taken, NEW free
  PROVE  Duplicates(s, ledger, taken, free) =
           (CHOOSE g : CopyFold(s, ledger, free, {p[2] : p \in taken}, g))[{p[2] : p \in taken}]
BY DEF Duplicates, FoldInOrder, MapThenFoldSet, CopyFold, LastOf, Grouped, Copies, Covered

LEMMA GroupIsAdded ==
  ASSUME NEW s, NEW ledger, NEW free, NEW t, NEW q \in t,
         NEW D \in CopyGroups(s, ledger, free, t \ {q})
  PROVE  Grouped(s, ledger, free, D, q) \in CopyGroups(s, ledger, free, t)
<1>1. PICK copies : copies = Copies(s, ledger, free, D, q)
  OBVIOUS
<1>2. D \in SUBSET [entry : t, lines : SUBSET free]
  <2>1. D \in SUBSET [entry : t \ {q}, lines : SUBSET free]
    BY DEF CopyGroups
  <2>2. [entry : t \ {q}, lines : SUBSET free] \subseteq [entry : t, lines : SUBSET free]
    OBVIOUS
  <2>3. QED BY <2>1, <2>2
<1>3. \A g, h \in D : g.lines \cap h.lines # {} => g = h
  BY DEF CopyGroups
<1>4. \A r \in t \ {q}, i \in free : SameAmount(s[i], ledger[r]) => i \in Covered(D)
  BY DEF CopyGroups
<1>5. \A i \in free : SameAmount(s[i], ledger[q]) => i \in Covered(D) \/ i \in copies
  BY <1>1 DEF Copies
<1>6. CASE copies = {}
  <2>1. Grouped(s, ledger, free, D, q) = D
    BY <1>1, <1>6 DEF Grouped
  <2>2. \A r \in t, i \in free : SameAmount(s[i], ledger[r]) => i \in Covered(D)
    BY <1>4, <1>5, <1>6
  <2>3. QED BY <1>2, <1>3, <2>1, <2>2 DEF CopyGroups
<1>7. CASE copies # {}
  <2>1. PICK k : k = [entry |-> q, lines |-> copies]
    OBVIOUS
  <2>2. k.lines = copies /\ k.entry = q
    BY <2>1
  <2>3. Grouped(s, ledger, free, D, q) = D \cup {k}
    BY <1>1, <1>7, <2>1 DEF Grouped
  <2>4. copies \in SUBSET free /\ copies \cap Covered(D) = {}
    BY <1>1 DEF Copies
  <2>5. k \in [entry : t, lines : SUBSET free]
    BY <2>1, <2>4
  <2>6. \A g \in D : g.lines \cap copies = {}
    BY <2>4 DEF Covered
  <2>7. Covered(D \cup {k}) = Covered(D) \cup copies
    BY <2>2 DEF Covered
  <2>8. \A g, h \in D \cup {k} : g.lines \cap h.lines # {} => g = h
    <3>1. ASSUME NEW g \in D \cup {k}, NEW h \in D \cup {k}, g.lines \cap h.lines # {} PROVE g = h
      <4>1. CASE g \in D /\ h \in D
        BY <1>3, <3>1, <4>1
      <4>2. CASE g = k /\ h = k
        BY <4>2
      <4>3. CASE g = k /\ h \in D
        BY <2>2, <2>6, <3>1, <4>3
      <4>4. CASE h = k /\ g \in D
        BY <2>2, <2>6, <3>1, <4>4
      <4>5. QED BY <4>1, <4>2, <4>3, <4>4
    <3>2. QED BY <3>1
  <2>9. \A r \in t, i \in free : SameAmount(s[i], ledger[r]) => i \in Covered(D \cup {k})
    BY <1>4, <1>5, <2>7
  <2>10. D \cup {k} \in SUBSET [entry : t, lines : SUBSET free]
    BY <1>2, <2>5
  <2>11. QED BY <2>3, <2>8, <2>9, <2>10 DEF CopyGroups
<1>8. QED BY <1>6, <1>7

\* Each free line with the amount of a taken entry is in one group.
LEMMA DuplicatesAreGroups ==
  ASSUME NEW s, NEW ledger, NEW m \in Nat, NEW taken, NEW S, S = {p[2] : p \in taken},
         S \in SUBSET (1..m), NEW free
  PROVE  Duplicates(s, ledger, taken, free) \in CopyGroups(s, ledger, free, S)
<1>4. IsFiniteSet(S)
  BY PositionsAreFinite, FS_Subset
<1>5. \A t \in SUBSET S : t # {} => LastOf(t) \in t /\ LastOf(t) \in S /\ t \ {LastOf(t)} \in SUBSET S
  <2>1. ASSUME NEW t \in SUBSET S, t # {} PROVE LastOf(t) \in t
    <3>1. t \in SUBSET (1..m)
      OBVIOUS
    <3>2. QED BY <2>1, <3>1, LastOfIsOne
  <2>2. QED BY <2>1
<1> DEFINE Rows(t) == CopyGroups(s, ledger, free, t)
           Start == {}
           Op(r, q) == Grouped(s, ledger, free, r, q)
<1>6. Start \in Rows({})
  BY DEF CopyGroups
<1>7. ASSUME NEW t \in SUBSET S, t # {}, NEW r \in Rows(t \ {LastOf(t)})
      PROVE  Op(r, LastOf(t)) \in Rows(t)
  <2>1. PICK q : q = LastOf(t)
    OBVIOUS
  <2>2. q \in t
    BY <1>5, <1>7, <2>1
  <2>3. r \in CopyGroups(s, ledger, free, t \ {q})
    BY <2>1
  <2>4. Grouped(s, ledger, free, r, q) \in CopyGroups(s, ledger, free, t)
    BY <2>2, <2>3, GroupIsAdded
  <2>5. QED BY <2>1, <2>4
<1>28. PICK U : U = SUBSET [entry : S, lines : SUBSET free]
  OBVIOUS
<1>8. \A t \in SUBSET S : Rows(t) \subseteq U
  <2>1. ASSUME NEW t \in SUBSET S PROVE Rows(t) \subseteq U
    <3>1. [entry : t, lines : SUBSET free] \subseteq [entry : S, lines : SUBSET free]
      OBVIOUS
    <3>2. QED BY <1>28, <3>1 DEF CopyGroups
  <2>2. QED BY <2>1
<1>9. PICK pick : pick = [t \in SUBSET S |-> LastOf(t)]
  OBVIOUS
<1>10. PICK step : step = [y \in U \X S |-> Op(y[1], y[2])]
  OBVIOUS
<1>11. PICK Acc : Acc = [t \in SUBSET S |-> Rows(t)]
  OBVIOUS
<1>12. \A t \in SUBSET S : Acc[t] = Rows(t)
  BY <1>11
<1>13. \A t \in SUBSET S : t # {} => pick[t] = LastOf(t) /\ pick[t] \in t
  BY <1>5, <1>9
<1>14. \A r \in U, j \in S : step[<<r, j>>] = Op(r, j)
  BY <1>10
<1> HIDE DEF Op, Rows, Start
<1>15. Grows(S, Start, step, pick, Acc)
  <2>1. ASSUME NEW t \in SUBSET S, t # {}, NEW r \in Acc[t \ {pick[t]}]
        PROVE  step[<<r, pick[t]>>] \in Acc[t]
    <3>1. pick[t] = LastOf(t) /\ LastOf(t) \in S /\ t \ {LastOf(t)} \in SUBSET S
      BY <1>5, <1>13, <2>1
    <3>2. r \in Rows(t \ {LastOf(t)}) /\ r \in U
      BY <1>8, <1>12, <2>1, <3>1
    <3>3. Op(r, LastOf(t)) \in Rows(t)
      BY <1>7, <2>1, <3>2
    <3>4. step[<<r, pick[t]>>] = Op(r, LastOf(t))
      BY <1>14, <3>1, <3>2
    <3>5. QED BY <1>12, <3>3, <3>4
  <2>2. Start \in Acc[{}]
    BY <1>6, <1>12
  <2>3. QED BY <2>1, <2>2 DEF Grows
<1>16. Picks(S, pick)
  BY <1>13 DEF Picks
<1>17. PICK f : IsFold(S, Start, step, pick, f)
  BY <1>4, <1>16, FoldExists
<1>18. \A t \in SUBSET S : f[t] \in Acc[t]
  BY <1>4, <1>15, <1>16, <1>17, FoldIsTyped
<1>19. f = [t \in SUBSET S |-> IF t = {} THEN Start ELSE Op(f[t \ {LastOf(t)}], LastOf(t))]
  <2>1. \A t \in SUBSET S : f[t] \in U
    BY <1>8, <1>12, <1>18
  <2>2. \A t \in SUBSET S : t # {} => f[t \ {LastOf(t)}] \in U /\ LastOf(t) \in S
    BY <1>5, <2>1
  <2>3. \A t \in SUBSET S : t # {} =>
          step[<<f[t \ {pick[t]}], pick[t]>>] = Op(f[t \ {LastOf(t)}], LastOf(t))
    BY <1>13, <1>14, <2>2
  <2>4. QED BY <1>17, <2>3 DEF IsFold
<1>20. \A g : CopyFold(s, ledger, free, S, g) <=>
         g = [t \in SUBSET S |-> IF t = {} THEN Start ELSE Op(g[t \ {LastOf(t)}], LastOf(t))]
  BY DEF CopyFold, Op, Start
<1>21. PICK h : h = CHOOSE g : CopyFold(s, ledger, free, S, g)
  OBVIOUS
<1>22. h = [t \in SUBSET S |-> IF t = {} THEN Start ELSE Op(h[t \ {LastOf(t)}], LastOf(t))]
  <2>1. CopyFold(s, ledger, free, S, f)
    BY <1>19, <1>20
  <2>2. CopyFold(s, ledger, free, S, h)
    BY <1>21, <2>1
  <2>3. QED BY <1>20, <2>2
<1>23. PICK Good : Good = {t \in SUBSET S : h[t] \in Rows(t)}
  OBVIOUS
<1>24. Inductive(S, pick, Good)
  <2>1. ASSUME NEW t \in SUBSET S, t # {} => t \ {pick[t]} \in Good PROVE h[t] \in Rows(t)
    <3>1. CASE t = {}
      BY <1>6, <1>22, <3>1
    <3>2. CASE t # {}
      <4>1. h[t \ {LastOf(t)}] \in Rows(t \ {LastOf(t)})
        BY <1>13, <1>23, <2>1, <3>2
      <4>2. h[t] = Op(h[t \ {LastOf(t)}], LastOf(t))
        BY <1>22, <3>2
      <4>3. QED BY <1>7, <3>2, <4>1, <4>2
    <3>3. QED BY <3>1, <3>2
  <2>2. QED BY <1>23, <2>1 DEF Inductive
<1>25. h[S] \in Rows(S)
  <2>1. SUBSET S \subseteq Good
    BY <1>4, <1>16, <1>24, SubsetInduction
  <2>2. QED BY <1>23, <2>1
<1>26. h[S] \in CopyGroups(s, ledger, free, S)
  BY <1>25 DEF Rows
<1>27. QED BY <1>21, <1>26, DuplicatesAreFold

LEMMA OneOrNone ==
  ASSUME NEW T, \A x, y \in T : x = y
  PROVE  Cardinality(T) = (IF T = {} THEN 0 ELSE 1)
<1>1. CASE T = {}
  BY <1>1, FS_EmptySet
<1>2. CASE T # {}
  <2>1. PICK x : x \in T
    BY <1>2
  <2>2. T = {x}
    BY <2>1
  <2>3. Cardinality({x}) = 1
    BY FS_Singleton
  <2>4. QED BY <1>2, <2>2, <2>3
<1>3. QED BY <1>1, <1>2

PlacesIn(pairs, groups, unmatched, i) ==
  Cardinality({p \in pairs : p[1] = i}) + Cardinality({g \in groups : i \in g.lines})
  + (IF i \in unmatched THEN 1 ELSE 0)

\* Exactly one of the lists has i.
LEMMA PlacedOnce ==
  ASSUME NEW pairs, NEW groups, NEW unmatched, NEW i,
         \A p, r \in pairs : p[1] = r[1] => p = r,
         \A g, h \in groups : g.lines \cap h.lines # {} => g = h,
         (\E p \in pairs : p[1] = i) \/ i \in Covered(groups) \/ i \in unmatched,
         ~((\E p \in pairs : p[1] = i) /\ i \in Covered(groups)),
         ~((\E p \in pairs : p[1] = i) /\ i \in unmatched),
         ~(i \in Covered(groups) /\ i \in unmatched)
  PROVE  PlacesIn(pairs, groups, unmatched, i) = 1
<1>1. PICK P : P = {p \in pairs : p[1] = i}
  OBVIOUS
<1>2. PICK G : G = {g \in groups : i \in g.lines}
  OBVIOUS
<1>3. P # {} <=> \E p \in pairs : p[1] = i
  BY <1>1
<1>4. G # {} <=> i \in Covered(groups)
  BY <1>2 DEF Covered
<1>5. Cardinality(P) = (IF P = {} THEN 0 ELSE 1)
  <2>1. \A x, y \in P : x = y
    BY <1>1
  <2>2. QED BY <2>1, OneOrNone
<1>6. Cardinality(G) = (IF G = {} THEN 0 ELSE 1)
  <2>1. \A x, y \in G : x = y
    BY <1>2
  <2>2. QED BY <2>1, OneOrNone
<1>7. PlacesIn(pairs, groups, unmatched, i) =
        Cardinality(P) + Cardinality(G) + (IF i \in unmatched THEN 1 ELSE 0)
  BY <1>1, <1>2 DEF PlacesIn
<1>8. CASE P # {}
  <2>1. G = {} /\ i \notin unmatched
    BY <1>3, <1>4, <1>8
  <2>2. QED BY <1>5, <1>6, <1>7, <1>8, <2>1
<1>9. CASE P = {} /\ G # {}
  <2>1. i \notin unmatched
    BY <1>4, <1>9
  <2>2. QED BY <1>5, <1>6, <1>7, <1>9, <2>1
<1>10. CASE P = {} /\ G = {}
  <2>1. i \in unmatched
    BY <1>3, <1>4, <1>10
  <2>2. QED BY <1>5, <1>6, <1>7, <1>10, <2>1
<1>11. QED BY <1>8, <1>9, <1>10

\* What the first stage gives.
FreeLines(lines, taken) == lines \ {p[1] : p \in taken}
FirstStage(s, ledger, lines, entries, first, taken) ==
  /\ first.matches \cup first.mismatches = taken
  /\ taken \in Matchings(Comparable(s, ledger, lines, entries))
  /\ first.duplicates \in CopyGroups(s, ledger, FreeLines(lines, taken), {p[2] : p \in taken})
  /\ first.unmatched = FreeLines(lines, taken) \ Covered(first.duplicates)
  /\ first.missing = entries \ {p[2] : p \in taken}

LEMMA ComparisonFields ==
  ASSUME NEW s, NEW ledger, NEW filter, NEW lines, NEW entries, NEW taken, NEW first,
         lines = KeptLines(s, filter), entries = KeptEntries(ledger, filter),
         taken = Pairs(s, ledger, lines, entries), first = CompareBankToQb(s, ledger, filter)
  PROVE  /\ first.matches = {p \in taken : ClassifyPair(s[p[1]], ledger[p[2]]) # "amount_mismatch"}
         /\ first.mismatches = {p \in taken : ClassifyPair(s[p[1]], ledger[p[2]]) = "amount_mismatch"}
         /\ first.duplicates = Duplicates(s, ledger, taken, FreeLines(lines, taken))
         /\ first.unmatched = FreeLines(lines, taken) \ Covered(first.duplicates)
         /\ first.missing = entries \ {p[2] : p \in taken}
BY DEF CompareBankToQb, FreeLines, Covered

\* The first stage of a comparison splits both files.
LEMMA FirstStageHolds ==
  ASSUME NEW s, NEW ledger, NEW n \in Nat, NEW m \in Nat, DOMAIN s = 1..n, DOMAIN ledger = 1..m,
         NEW filter, NEW lines, NEW entries, NEW taken, NEW first,
         lines = KeptLines(s, filter), entries = KeptEntries(ledger, filter),
         taken = Pairs(s, ledger, lines, entries), first = CompareBankToQb(s, ledger, filter)
  PROVE  /\ FirstStage(s, ledger, lines, entries, first, taken)
         /\ lines \in SUBSET (1..n) /\ entries \in SUBSET (1..m)
<1>1. lines \in SUBSET (1..n) /\ entries \in SUBSET (1..m)
  BY DEF KeptLines, KeptEntries
<1>2. taken \in Matchings(Comparable(s, ledger, lines, entries))
  BY <1>1, PairsAreMatching
<1>3. first.matches \cup first.mismatches = taken
  BY ComparisonFields
<1>4. PICK S : S = {p[2] : p \in taken}
  OBVIOUS
<1>5. S \in SUBSET (1..m)
  <2>1. taken \subseteq lines \X entries
    BY <1>2 DEF Matchings, Comparable
  <2>2. QED BY <1>1, <1>4, <2>1
<1>6. Duplicates(s, ledger, taken, FreeLines(lines, taken)) \in CopyGroups(s, ledger, FreeLines(lines, taken), S)
  BY <1>4, <1>5, DuplicatesAreGroups
<1>7. first.duplicates \in CopyGroups(s, ledger, FreeLines(lines, taken), {p[2] : p \in taken})
  <2>1. first.duplicates = Duplicates(s, ledger, taken, FreeLines(lines, taken))
    BY ComparisonFields
  <2>2. QED BY <1>4, <1>6, <2>1
<1>8. first.unmatched = FreeLines(lines, taken) \ Covered(first.duplicates)
  BY ComparisonFields
<1>9. first.missing = entries \ {p[2] : p \in taken}
  BY ComparisonFields
<1>10. QED BY <1>1, <1>2, <1>3, <1>7, <1>8, <1>9 DEF FirstStage

\* Each line has one place after the first stage.
LEMMA FirstPlaces ==
  ASSUME NEW s, NEW ledger, NEW lines, NEW entries, NEW first, NEW taken,
         FirstStage(s, ledger, lines, entries, first, taken), NEW i \in lines
  PROVE  PlacesIn(taken, first.duplicates, first.unmatched, i) = 1
<1>1. \A p, r \in taken : p[1] = r[1] => p = r
  BY DEF FirstStage, Matchings, Compete
<1>2. \A g, h \in first.duplicates : g.lines \cap h.lines # {} => g = h
  BY DEF FirstStage, CopyGroups
<1>3. Covered(first.duplicates) \subseteq FreeLines(lines, taken)
  <2>1. \A g \in first.duplicates : g.lines \subseteq FreeLines(lines, taken)
    BY DEF FirstStage, CopyGroups
  <2>2. QED BY <2>1 DEF Covered
<1>4. first.unmatched = FreeLines(lines, taken) \ Covered(first.duplicates)
  BY DEF FirstStage
<1>5. i \in FreeLines(lines, taken) <=> ~\E p \in taken : p[1] = i
  BY DEF FreeLines
<1>6. /\ (\E p \in taken : p[1] = i) \/ i \in Covered(first.duplicates) \/ i \in first.unmatched
      /\ ~((\E p \in taken : p[1] = i) /\ i \in Covered(first.duplicates))
      /\ ~((\E p \in taken : p[1] = i) /\ i \in first.unmatched)
      /\ ~(i \in Covered(first.duplicates) /\ i \in first.unmatched)
  BY <1>3, <1>4, <1>5
<1>7. QED BY <1>1, <1>2, <1>6, PlacedOnce

\* Each entry is taken by one line or missing.
LEMMA FirstTakers ==
  ASSUME NEW s, NEW ledger, NEW lines, NEW entries, NEW first, NEW taken,
         FirstStage(s, ledger, lines, entries, first, taken), NEW q \in entries
  PROVE  Cardinality({p \in taken : p[2] = q}) = (IF q \in first.missing THEN 0 ELSE 1)
<1>1. PICK T : T = {p \in taken : p[2] = q}
  OBVIOUS
<1>2. \A x, y \in T : x = y
  <2>1. \A p, r \in taken : p[2] = r[2] => p = r
    BY DEF FirstStage, Matchings, Compete
  <2>2. QED BY <1>1, <2>1
<1>3. Cardinality(T) = (IF T = {} THEN 0 ELSE 1)
  BY <1>2, OneOrNone
<1>4. q \in first.missing <=> T = {}
  BY <1>1 DEF FirstStage
<1>5. QED BY <1>1, <1>3, <1>4

\* An unmatched line has the amount of no entry.
LEMMA UnmatchedHasNoEntry ==
  ASSUME NEW s, NEW ledger, NEW lines, NEW entries, NEW first, NEW taken,
         FirstStage(s, ledger, lines, entries, first, taken),
         NEW i \in first.unmatched, NEW q \in entries
  PROVE  ~SameAmount(s[i], ledger[q])
<1>1. SUFFICES ASSUME SameAmount(s[i], ledger[q]) PROVE FALSE
  OBVIOUS
<1>2. i \in lines /\ i \in FreeLines(lines, taken) /\ i \notin Covered(first.duplicates)
  BY DEF FirstStage, FreeLines
<1>3. ClassifyPair(s[i], ledger[q]) # "none"
  BY <1>1 DEF ClassifyPair
<1>4. PICK p : p = <<i, q>>
  OBVIOUS
<1>5. p[1] = i /\ p[2] = q /\ p \in lines \X entries
  BY <1>2, <1>4
<1>6. p \in Comparable(s, ledger, lines, entries)
  BY <1>3, <1>5 DEF Comparable
<1>7. PICK r \in taken : Compete(p, r)
  BY <1>6 DEF FirstStage, Matchings
<1>8. r[1] # i
  BY <1>2 DEF FreeLines
<1>9. r[2] = q
  BY <1>5, <1>7, <1>8 DEF Compete
<1>10. q \in {x[2] : x \in taken}
  BY <1>9
<1>11. i \in Covered(first.duplicates)
  BY <1>1, <1>2, <1>10 DEF FirstStage, CopyGroups
<1>12. QED BY <1>2, <1>11

\* What the answers of the model add.
IsResult(r) ==
  r = [matches |-> r.matches, mismatches |-> r.mismatches, duplicates |-> r.duplicates,
       unmatched |-> r.unmatched, worthALook |-> r.worthALook, missing |-> r.missing]
LEMMA FirstIsResult ==
  ASSUME NEW s, NEW ledger, NEW filter
  PROVE  IsResult(CompareBankToQb(s, ledger, filter))
BY DEF IsResult, CompareBankToQb

Resolved(first, answer) == {i \in first.unmatched : answer[i] # NoEntry}
ByAnswer(first, answer) == {<<i, answer[i]>> : i \in Resolved(first, answer)}

LEMMA SecondFields ==
  ASSUME NEW first, IsResult(first), NEW answer
  PROVE  LET result == CompareBankToQbWithAI(first, answer) IN
           /\ result.matches = first.matches \cup ByAnswer(first, answer)
           /\ result.mismatches = first.mismatches /\ result.duplicates = first.duplicates
           /\ result.unmatched = first.unmatched \ Resolved(first, answer)
           /\ result.missing = first.missing \ {answer[i] : i \in Resolved(first, answer)}
BY DEF CompareBankToQbWithAI, IsResult, ByAnswer, Resolved

LEMMA AnsweredPairs ==
  ASSUME NEW first, NEW answer \in Answers(first)
  PROVE  /\ \A p \in ByAnswer(first, answer) :
              /\ p[1] \in Resolved(first, answer) /\ p[2] = answer[p[1]] /\ p = <<p[1], p[2]>>
              /\ p[2] \in first.missing /\ p[1] \in first.unmatched
         /\ \A i \in Resolved(first, answer) : \E p \in ByAnswer(first, answer) : p[1] = i /\ p[2] = answer[i]
         /\ \A p, r \in ByAnswer(first, answer) : p[1] = r[1] => p = r
         /\ Resolved(first, answer) \subseteq first.unmatched
<1>1. \A i \in Resolved(first, answer) : answer[i] \in first.missing /\ i \in first.unmatched
  BY DEF Resolved, Answers
<1>2. ASSUME NEW p \in ByAnswer(first, answer)
      PROVE  /\ p[1] \in Resolved(first, answer) /\ p[2] = answer[p[1]] /\ p = <<p[1], p[2]>>
             /\ p[2] \in first.missing /\ p[1] \in first.unmatched
  <2>1. PICK i \in Resolved(first, answer) : p = <<i, answer[i]>>
    BY DEF ByAnswer
  <2>2. QED BY <1>1, <2>1
<1>3. ASSUME NEW i \in Resolved(first, answer)
      PROVE  \E p \in ByAnswer(first, answer) : p[1] = i /\ p[2] = answer[i]
  <2>1. PICK p : p = <<i, answer[i]>>
    OBVIOUS
  <2>2. p \in ByAnswer(first, answer) /\ p[1] = i /\ p[2] = answer[i]
    BY <2>1 DEF ByAnswer
  <2>3. QED BY <2>2
<1>4. ASSUME NEW p \in ByAnswer(first, answer), NEW r \in ByAnswer(first, answer), p[1] = r[1]
      PROVE  p = r
  BY <1>2, <1>4
<1>5. Resolved(first, answer) \subseteq first.unmatched
  BY DEF Resolved
<1>6. QED BY <1>2, <1>3, <1>4, <1>5

\* The answers of the model move a line from one list to another.
LEMMA SecondPlaces ==
  ASSUME NEW s, NEW ledger, NEW lines, NEW entries, NEW first, NEW taken,
         FirstStage(s, ledger, lines, entries, first, taken), NEW i \in lines,
         NEW answer \in Answers(first)
  PROVE  PlacesIn(taken \cup ByAnswer(first, answer), first.duplicates,
                  first.unmatched \ Resolved(first, answer), i) = 1
<1>1. PICK more : more = ByAnswer(first, answer)
  OBVIOUS
<1>2. PICK resolved : resolved = Resolved(first, answer)
  OBVIOUS
<1>3. /\ \A p \in more : p[1] \in resolved /\ p[1] \in first.unmatched
      /\ \A k \in resolved : \E p \in more : p[1] = k
      /\ \A p, r \in more : p[1] = r[1] => p = r
      /\ resolved \subseteq first.unmatched
  BY <1>1, <1>2, AnsweredPairs
<1>4. first.unmatched = FreeLines(lines, taken) \ Covered(first.duplicates)
  BY DEF FirstStage
<1>5. \A p \in taken : p[1] \notin first.unmatched
  BY <1>4 DEF FreeLines
<1>6. \A p, r \in taken \cup more : p[1] = r[1] => p = r
  <2>1. \A p, r \in taken : p[1] = r[1] => p = r
    BY DEF FirstStage, Matchings, Compete
  <2>2. QED BY <1>3, <1>5, <2>1
<1>7. \A g, h \in first.duplicates : g.lines \cap h.lines # {} => g = h
  BY DEF FirstStage, CopyGroups
<1>8. Covered(first.duplicates) \subseteq FreeLines(lines, taken)
  <2>1. \A g \in first.duplicates : g.lines \subseteq FreeLines(lines, taken)
    BY DEF FirstStage, CopyGroups
  <2>2. QED BY <2>1 DEF Covered
<1>9. i \in FreeLines(lines, taken) <=> ~\E p \in taken : p[1] = i
  BY DEF FreeLines
<1>10. (\E p \in taken \cup more : p[1] = i) <=> i \notin FreeLines(lines, taken) \/ i \in resolved
  BY <1>3, <1>9
<1>11. /\ (\E p \in taken \cup more : p[1] = i) \/ i \in Covered(first.duplicates)
          \/ i \in first.unmatched \ resolved
       /\ ~((\E p \in taken \cup more : p[1] = i) /\ i \in Covered(first.duplicates))
       /\ ~((\E p \in taken \cup more : p[1] = i) /\ i \in first.unmatched \ resolved)
       /\ ~(i \in Covered(first.duplicates) /\ i \in first.unmatched \ resolved)
  BY <1>3, <1>4, <1>8, <1>10
<1>12. PlacesIn(taken \cup more, first.duplicates, first.unmatched \ resolved, i) = 1
  BY <1>6, <1>7, <1>11, PlacedOnce
<1>13. QED BY <1>1, <1>2, <1>12

StillMissing(first, answer) == first.missing \ {answer[i] : i \in Resolved(first, answer)}
TakenOrMissing(pairs, missing, q) == Cardinality({p \in pairs : p[2] = q}) = 0 <=> q \in missing

\* An entry that an answer names is missing no more.
LEMMA SecondTakers ==
  ASSUME NEW s, NEW ledger, NEW lines, NEW entries, NEW first, NEW taken,
         NEW n \in Nat, NEW m \in Nat, lines \in SUBSET (1..n), entries \in SUBSET (1..m),
         FirstStage(s, ledger, lines, entries, first, taken), NEW q \in entries,
         NEW answer \in Answers(first)
  PROVE  TakenOrMissing(taken \cup ByAnswer(first, answer), StillMissing(first, answer), q)
<1>1. PICK more : more = ByAnswer(first, answer)
  OBVIOUS
<1>2. PICK resolved : resolved = Resolved(first, answer)
  OBVIOUS
<1>3. /\ \A p \in more : /\ p[1] \in resolved /\ p[2] = answer[p[1]] /\ p = <<p[1], p[2]>>
                         /\ p[2] \in first.missing /\ p[1] \in first.unmatched
      /\ \A k \in resolved : \E p \in more : p[1] = k /\ p[2] = answer[k]
  BY <1>1, <1>2, AnsweredPairs
<1>4. PICK T : T = {p \in taken \cup more : p[2] = q}
  OBVIOUS
<1>5. first.missing = entries \ {p[2] : p \in taken} /\ first.unmatched \subseteq lines
  BY DEF FirstStage, FreeLines
<1>6. IsFiniteSet(T)
  <2>1. taken \subseteq lines \X entries
    BY DEF FirstStage, Matchings, Comparable
  <2>2. more \subseteq lines \X entries
    <3>1. ASSUME NEW p \in more PROVE p \in lines \X entries
      <4>1. p = <<p[1], p[2]>> /\ p[1] \in lines /\ p[2] \in entries
        BY <1>3, <1>5
      <4>2. QED BY <4>1
    <3>2. QED BY <3>1
  <2>3. T \in SUBSET ((1..n) \X (1..m))
    BY <1>4, <2>1, <2>2
  <2>4. QED BY <2>3, PositionsAreFinite, FS_Subset
<1>7. Cardinality(T) = 0 <=> T = {}
  BY <1>6, FS_EmptySet
<1>8. T = {} <=> q \in first.missing \ {answer[i] : i \in resolved}
  <2>1. T = {} <=> (~\E p \in taken : p[2] = q) /\ (~\E p \in more : p[2] = q)
    BY <1>4
  <2>2. (~\E p \in taken : p[2] = q) <=> q \in first.missing
    BY <1>5
  <2>3. (\E p \in more : p[2] = q) <=> q \in {answer[i] : i \in resolved}
    BY <1>3
  <2>4. QED BY <2>1, <2>2, <2>3
<1>9. QED BY <1>1, <1>2, <1>4, <1>7, <1>8 DEF TakenOrMissing, StillMissing

----------------------------------------------------------------------------
(***************************************************************************)
(* What is learned was decided.  A request between the log of a decision   *)
(* and the count of it is owed one; what a category earned beyond what is  *)
(* owed never shrinks.                                                     *)
(***************************************************************************)
Prefs == [category : Categories, count : Nat]
LearnerCalls ==
  [step : {"idle", "recording", "reading", "bumping", "defaulting"},
   left : Seq(Categories \cup {NoCategory}),
   found : Prefs \cup {NoPreference, ARow}, default : Categories \cup {NoCategory}]

LearnerOK(x) ==
  /\ x \in LearnerCalls
  /\ x.step \in {"recording", "reading", "bumping"} => x.left # <<>>
  /\ x.step \in {"reading", "bumping"} => Head(x.left) \in Categories
  /\ x.step = "bumping" => x.found \in Prefs \cup {NoPreference}
  /\ x.step = "defaulting" => x.default \in Categories

LearnersOK ==
  /\ learner = [p \in Learners |-> learner[p]]
  /\ \A p \in Learners : LearnerOK(learner[p])

TablesOK ==
  /\ preference \in Prefs \cup {NoPreference}
  /\ decided \in [Categories -> Nat] /\ defaulted \subseteq Categories

Bumps(x, c) == x.step \in {"reading", "bumping"} /\ Head(x.left) = c
Counting(c) == {p \in Learners : Bumps(learner[p], c)}

CountingOK ==
  \A c \in Categories : IsFiniteSet(Counting(c)) /\ Cardinality(Counting(c)) <= decided[c]

PreferenceBacked ==
  \A c \in Categories : preference # NoPreference /\ preference.category = c =>
    preference.count + Cardinality(Counting(c)) <= Earned(c)

FoundBacked ==
  \A p \in Learners : \A c \in Categories :
    /\ learner[p].step = "bumping" /\ learner[p].found # NoPreference
    /\ learner[p].found.category = c
    => learner[p].found.count + Cardinality(Counting(c)) <= Earned(c)

LearningOK == LearnersOK /\ TablesOK /\ CountingOK /\ PreferenceBacked /\ FoundBacked

SlackGrows ==
  \A c \in Categories : \A k \in Nat :
    k + Cardinality(Counting(c)) <= Earned(c) => k + Cardinality(Counting(c)') <= Earned(c)'

\* Nothing is learned or owed at first.
LEMMA LearningInit == PreferenceInit => LearningOK
<1> SUFFICES ASSUME PreferenceInit PROVE LearningOK
  OBVIOUS
<1>1. AtRest \in LearnerCalls /\ AtRest.step = "idle"
  BY DEF AtRest, LearnerCalls
<1>2. LearnerOK(AtRest)
  BY <1>1 DEF LearnerOK
<1>3. learner = [p \in Learners |-> AtRest]
  BY DEF PreferenceInit
<1>4. \A p \in Learners : learner[p] = AtRest
  BY <1>3
<1>5. LearnersOK
  BY <1>2, <1>3, <1>4 DEF LearnersOK
<1>6. TablesOK
  BY DEF PreferenceInit, TablesOK
<1>7. ASSUME NEW c \in Categories PROVE Counting(c) = {}
  BY <1>1, <1>4 DEF Counting, Bumps
<1>8. CountingOK
  <2>1. ASSUME NEW c \in Categories
        PROVE  IsFiniteSet(Counting(c)) /\ Cardinality(Counting(c)) <= decided[c]
    <3>1. IsFiniteSet({}) /\ Cardinality({}) = 0
      BY FS_EmptySet
    <3>2. decided[c] = 0
      BY DEF PreferenceInit
    <3>3. QED BY <1>7, <3>1, <3>2
  <2>2. QED BY <2>1 DEF CountingOK
<1>9. PreferenceBacked
  BY DEF PreferenceInit, PreferenceBacked
<1>10. FoundBacked
  BY <1>1, <1>4 DEF FoundBacked
<1>11. QED BY <1>5, <1>6, <1>8, <1>9, <1>10 DEF LearningOK

\* A step of one request changes its record only.
LEMMA LearnerMoves ==
  ASSUME LearnersOK, NEW p \in Learners, NEW x, LearnerOK(x), learner' = [learner EXCEPT ![p] = x]
  PROVE  /\ LearnersOK'
         /\ learner'[p] = x /\ \A q \in Learners \ {p} : learner'[q] = learner[q]
         /\ \A c : Counting(c)' = IF Bumps(x, c) THEN Counting(c) \cup {p} ELSE Counting(c) \ {p}
<1>1. learner'[p] = x /\ \A q \in Learners \ {p} : learner'[q] = learner[q]
  BY DEF LearnersOK
<1>2. learner' = [q \in Learners |-> learner'[q]]
  BY DEF LearnersOK
<1>3. \A q \in Learners : LearnerOK(learner'[q])
  BY <1>1 DEF LearnersOK
<1>4. LearnersOK'
  BY <1>2, <1>3 DEF LearnersOK
<1>5. ASSUME NEW c
      PROVE  Counting(c)' = IF Bumps(x, c) THEN Counting(c) \cup {p} ELSE Counting(c) \ {p}
  <2>1. Counting(c)' = {q \in Learners : Bumps(learner'[q], c)}
    BY DEF Counting, Bumps
  <2>2. \A q \in Learners : q \in Counting(c) <=> Bumps(learner[q], c)
    BY DEF Counting
  <2>3. Counting(c) \subseteq Learners
    BY DEF Counting
  <2>4. CASE Bumps(x, c)
    BY <1>1, <2>1, <2>2, <2>3, <2>4
  <2>5. CASE ~Bumps(x, c)
    BY <1>1, <2>1, <2>2, <2>3, <2>5
  <2>6. QED BY <2>4, <2>5
<1>6. QED BY <1>1, <1>4, <1>5

\* Nothing more is owed.
LEMMA NothingMoreOwed ==
  ASSUME LearningOK, NEW p \in Learners, NEW x, LearnerOK(x), learner' = [learner EXCEPT ![p] = x],
         decided' = decided, defaulted \subseteq defaulted', defaulted' \subseteq Categories,
         \A c \in Categories : Bumps(x, c) => Bumps(learner[p], c)
  PROVE  LearnersOK' /\ CountingOK' /\ SlackGrows
<1>1. ASSUME NEW c \in Categories PROVE Counting(c)' \in SUBSET Counting(c)
  <2>1. Counting(c)' = IF Bumps(x, c) THEN Counting(c) \cup {p} ELSE Counting(c) \ {p}
    BY LearnerMoves DEF LearningOK
  <2>2. Bumps(x, c) => p \in Counting(c)
    BY DEF Counting
  <2>3. QED BY <2>1, <2>2
<1>2. ASSUME NEW c \in Categories
      PROVE  /\ IsFiniteSet(Counting(c)') /\ Cardinality(Counting(c)') <= Cardinality(Counting(c))
             /\ Cardinality(Counting(c)') \in Nat /\ Cardinality(Counting(c)) \in Nat
  <2>1. IsFiniteSet(Counting(c))
    BY DEF LearningOK, CountingOK
  <2>2. QED BY <1>1, <2>1, FS_Subset, FS_CardinalityType
<1>3. CountingOK'
  <2>1. ASSUME NEW c \in Categories PROVE Cardinality(Counting(c)') <= decided'[c]
    <3>1. Cardinality(Counting(c)) <= decided[c] /\ decided[c] \in Nat
      BY DEF LearningOK, CountingOK, TablesOK
    <3>2. QED BY <1>2, <3>1
  <2>2. QED BY <1>2, <2>1 DEF CountingOK
<1>4. SlackGrows
  <2>1. ASSUME NEW c \in Categories, NEW k \in Nat, k + Cardinality(Counting(c)) <= Earned(c)
        PROVE  k + Cardinality(Counting(c)') <= Earned(c)'
    <3>1. PICK d \in Nat : d = decided[c] /\ d = decided'[c]
      BY DEF LearningOK, TablesOK
    <3>2. Earned(c) = d + (IF c \in defaulted THEN 3 ELSE 0)
      BY <3>1 DEF Earned, DefaultCount
    <3>3. Earned(c)' = d + (IF c \in defaulted' THEN 3 ELSE 0)
      BY <3>1 DEF Earned, DefaultCount
    <3>4. PICK e \in Nat : e = Earned(c)
      BY <3>2
    <3>5. PICK f \in Nat : f = Earned(c)'
      BY <3>3
    <3>6. e <= f
      BY <3>2, <3>3, <3>4, <3>5
    <3>7. QED BY <1>2, <2>1, <3>4, <3>5, <3>6
  <2>2. QED BY <2>1 DEF SlackGrows
<1>5. LearnersOK'
  BY LearnerMoves DEF LearningOK
<1>6. QED BY <1>3, <1>4, <1>5

\* A decision is logged: one more is earned, and owed.
LEMMA OneMoreOwed ==
  ASSUME LearningOK, NEW p \in Learners, NEW x, LearnerOK(x), learner' = [learner EXCEPT ![p] = x],
         NEW category \in Categories, \A c : Bumps(x, c) <=> c = category,
         \A c : ~Bumps(learner[p], c),
         decided' = [decided EXCEPT ![category] = @ + 1], defaulted' = defaulted
  PROVE  LearnersOK' /\ CountingOK' /\ SlackGrows
<1>1. ASSUME NEW c \in Categories
      PROVE  /\ IsFiniteSet(Counting(c)') /\ Cardinality(Counting(c)') \in Nat
             /\ Cardinality(Counting(c)) \in Nat
             /\ Cardinality(Counting(c)') = Cardinality(Counting(c)) + (IF c = category THEN 1 ELSE 0)
             /\ decided'[c] = decided[c] + (IF c = category THEN 1 ELSE 0) /\ decided[c] \in Nat
  <2>1. Counting(c)' = IF Bumps(x, c) THEN Counting(c) \cup {p} ELSE Counting(c) \ {p}
    BY LearnerMoves DEF LearningOK
  <2>2. p \notin Counting(c)
    BY DEF Counting
  <2>3. IsFiniteSet(Counting(c))
    BY DEF LearningOK, CountingOK
  <2>4. decided[c] \in Nat /\ decided'[c] = decided[c] + (IF c = category THEN 1 ELSE 0)
    BY DEF LearningOK, TablesOK
  <2>5. CASE c = category
    <3>1. Counting(c)' = Counting(c) \cup {p}
      BY <2>1, <2>5
    <3>2. IsFiniteSet(Counting(c) \cup {p}) /\ Cardinality(Counting(c) \cup {p}) = Cardinality(Counting(c)) + 1
      BY <2>2, <2>3, FS_AddElement
    <3>3. Cardinality(Counting(c)) \in Nat
      BY <2>3, FS_CardinalityType
    <3>4. QED BY <2>4, <2>5, <3>1, <3>2, <3>3
  <2>6. CASE c # category
    <3>1. Counting(c)' = Counting(c)
      BY <2>1, <2>2, <2>6
    <3>2. Cardinality(Counting(c)) \in Nat
      BY <2>3, FS_CardinalityType
    <3>3. QED BY <2>3, <2>4, <2>6, <3>1, <3>2
  <2>7. QED BY <2>5, <2>6
<1>2. CountingOK'
  <2>1. ASSUME NEW c \in Categories PROVE Cardinality(Counting(c)') <= decided'[c]
    <3>1. Cardinality(Counting(c)) <= decided[c]
      BY DEF LearningOK, CountingOK
    <3>2. PICK a \in Nat : a = Cardinality(Counting(c))
      BY <1>1
    <3>3. PICK d \in Nat : d = decided[c]
      BY <1>1
    <3>4. PICK z \in Nat : z = IF c = category THEN 1 ELSE 0
      OBVIOUS
    <3>5. a + z <= d + z
      BY <3>1, <3>2, <3>3
    <3>6. QED BY <1>1, <3>2, <3>3, <3>4, <3>5
  <2>2. QED BY <1>1, <2>1 DEF CountingOK
<1>3. SlackGrows
  <2>1. ASSUME NEW c \in Categories, NEW k \in Nat, k + Cardinality(Counting(c)) <= Earned(c)
        PROVE  k + Cardinality(Counting(c)') <= Earned(c)'
    <3>2. PICK a \in Nat : a = Cardinality(Counting(c))
      BY <1>1
    <3>3. PICK d \in Nat : d = decided[c]
      BY <1>1
    <3>4. PICK z \in Nat : z = IF c = category THEN 1 ELSE 0
      OBVIOUS
    <3>5. PICK y \in Nat : y = IF c \in defaulted THEN 3 ELSE 0
      OBVIOUS
    <3>6. Earned(c) = d + y
      BY <3>3, <3>5 DEF Earned, DefaultCount
    <3>7. Earned(c)' = d + z + y
      BY <1>1, <3>3, <3>4, <3>5 DEF Earned, DefaultCount
    <3>8. Cardinality(Counting(c)') = a + z
      BY <1>1, <3>2, <3>4
    <3>9. k + a <= d + y
      BY <2>1, <3>2, <3>6
    <3>10. k + (a + z) <= d + z + y
      BY <3>9
    <3>11. QED BY <3>7, <3>8, <3>10
  <2>2. QED BY <2>1 DEF SlackGrows
<1>4. LearnersOK'
  BY LearnerMoves DEF LearningOK
<1>5. QED BY <1>2, <1>3, <1>4

\* What covers a record before such a step covers it after.
LEMMA BackingStays ==
  ASSUME LearningOK, SlackGrows, NEW r \in Prefs, NEW c \in Categories,
         r.count + Cardinality(Counting(c)) <= Earned(c)
  PROVE  r.count + Cardinality(Counting(c)') <= Earned(c)'
<1>1. r.count \in Nat
  BY DEF Prefs
<1>2. QED BY <1>1 DEF SlackGrows

\* What the other requests read stays covered.
LEMMA OthersStayBacked ==
  ASSUME LearningOK, SlackGrows, NEW p \in Learners, NEW x, LearnerOK(x),
         learner' = [learner EXCEPT ![p] = x],
         x.step = "bumping" => x.found = preference \/ (x = learner[p])
  PROVE  FoundBacked'
<1>1. learner'[p] = x /\ \A q \in Learners \ {p} : learner'[q] = learner[q]
  BY LearnerMoves DEF LearningOK
<1>2. ASSUME NEW q \in Learners, NEW c \in Categories, learner'[q].step = "bumping",
             learner'[q].found # NoPreference, learner'[q].found.category = c
      PROVE  learner'[q].found.count + Cardinality(Counting(c)') <= Earned(c)'
  <2>1. PICK r : r = learner'[q].found
    OBVIOUS
  <2>2. LearnerOK(learner'[q])
    BY <1>1 DEF LearningOK, LearnersOK
  <2>3. r \in Prefs
    BY <1>2, <2>1, <2>2 DEF LearnerOK
  <2>4. r.count + Cardinality(Counting(c)) <= Earned(c)
    <3>1. CASE learner'[q] = learner[q]
      BY <1>2, <2>1, <3>1 DEF LearningOK, FoundBacked
    <3>2. CASE learner'[q] # learner[q]
      <4>1. q = p /\ r = preference
        BY <1>1, <1>2, <2>1, <3>2
      <4>2. QED BY <1>2, <2>1, <4>1 DEF LearningOK, PreferenceBacked
    <3>3. QED BY <3>1, <3>2
  <2>5. QED BY <2>1, <2>3, <2>4, BackingStays
<1>3. QED BY <1>2 DEF FoundBacked

\* A preference that is not written stays covered.
LEMMA PreferenceStaysBacked ==
  ASSUME LearningOK, SlackGrows, preference' = preference
  PROVE  PreferenceBacked'
<1>1. ASSUME NEW c \in Categories, preference # NoPreference, preference.category = c
      PROVE  preference.count + Cardinality(Counting(c)') <= Earned(c)'
  <2>1. preference \in Prefs
    BY <1>1 DEF LearningOK, TablesOK
  <2>2. preference.count + Cardinality(Counting(c)) <= Earned(c)
    BY <1>1 DEF LearningOK, PreferenceBacked
  <2>3. PICK r \in Prefs : r = preference
    BY <2>1
  <2>4. r.count + Cardinality(Counting(c)') <= Earned(c)'
    BY <2>2, <2>3, BackingStays
  <2>5. QED BY <2>3, <2>4
<1>2. QED BY <1>1 DEF PreferenceBacked

\* What a request goes on with after a decision.
LEMMA ProceedMoves ==
  ASSUME LearnersOK, NEW p \in Learners, learner[p].step \in {"recording", "bumping"}, Proceed(p)
  PROVE  \E x : LearnerOK(x) /\ learner' = [learner EXCEPT ![p] = x] /\ x.step \in {"idle", "recording"}
<1>1. LearnerOK(learner[p]) /\ learner[p].left \in Seq(Categories \cup {NoCategory})
      /\ learner[p].left # <<>>
  BY DEF LearnersOK, LearnerOK, LearnerCalls
<1>2. AtRest \in LearnerCalls /\ AtRest.step = "idle" /\ LearnerOK(AtRest)
  BY DEF AtRest, LearnerCalls, LearnerOK
<1>3. CASE Len(learner[p].left) = 1
  <2>1. learner' = [learner EXCEPT ![p] = AtRest]
    BY <1>3 DEF Proceed, Settle
  <2>2. QED BY <1>2, <2>1
<1>4. CASE Len(learner[p].left) # 1
  <2>1. PICK x : x = [AtRest EXCEPT !.step = "recording", !.left = Tail(learner[p].left)]
    OBVIOUS
  <2>2. learner' = [learner EXCEPT ![p] = x]
    BY <1>4, <2>1 DEF Proceed
  <2>3. PICK rest : rest = Tail(learner[p].left)
    OBVIOUS
  <2>4. rest \in Seq(Categories \cup {NoCategory}) /\ rest # <<>>
    <3>1. Len(rest) = Len(learner[p].left) - 1 /\ rest \in Seq(Categories \cup {NoCategory})
      BY <1>1, <2>3
    <3>2. Len(learner[p].left) \in Nat /\ Len(learner[p].left) # 0
      BY <1>1
    <3>3. Len(rest) # 0
      BY <1>4, <3>1, <3>2
    <3>4. CASE rest = <<>>
      BY <3>3, <3>4
    <3>5. QED BY <3>1, <3>4
  <2>5. x = [step |-> "recording", left |-> rest, found |-> NoPreference, default |-> NoCategory]
    BY <2>1, <2>3 DEF AtRest
  <2>6. LearnerOK(x)
    <3>1. x \in LearnerCalls /\ x.step = "recording" /\ x.left # <<>>
      BY <2>4, <2>5 DEF LearnerCalls
    <3>2. QED BY <3>1 DEF LearnerOK
  <2>7. x.step = "recording"
    BY <2>5
  <2>8. QED BY <2>2, <2>6, <2>7
<1>5. QED BY <1>3, <1>4

\* A step that leaves the tables alone and owes nothing more.
LEMMA QuietStep ==
  ASSUME LearningOK, NEW p \in Learners, NEW x, LearnerOK(x), learner' = [learner EXCEPT ![p] = x],
         UNCHANGED <<preference, decided, defaulted>>,
         \A c \in Categories : Bumps(x, c) => Bumps(learner[p], c),
         x.step = "bumping" => x.found = preference
  PROVE  LearningOK'
<1>1. defaulted' \subseteq Categories
  BY DEF LearningOK, TablesOK
<1>2. LearnersOK' /\ CountingOK' /\ SlackGrows
  BY <1>1, NothingMoreOwed
<1>3. TablesOK'
  BY DEF LearningOK, TablesOK
<1>4. PreferenceBacked'
  BY <1>2, PreferenceStaysBacked
<1>5. FoundBacked'
  BY <1>2, OthersStayBacked
<1>6. QED BY <1>2, <1>3, <1>4, <1>5 DEF LearningOK

\* A request starts to log what it approved.
LEMMA LogsKeep ==
  ASSUME LearningOK, NEW p \in Learners, NEW batch \in Batches, LogApprovals(p, batch)
  PROVE  LearningOK'
<1>1. PICK x : x = [AtRest EXCEPT !.step = "recording", !.left = batch]
  OBVIOUS
<1>2. x = [step |-> "recording", left |-> batch, found |-> NoPreference, default |-> NoCategory]
  BY <1>1 DEF AtRest
<1>3. learner' = [learner EXCEPT ![p] = x] /\ UNCHANGED <<preference, decided, defaulted>>
  BY <1>1 DEF LogApprovals
<1>4. batch \in Seq(Categories \cup {NoCategory}) /\ batch # <<>>
  <2>1. PICK n \in 1..MaxBatch : batch \in [1..n -> Categories \cup {NoCategory}]
    BY DEF Batches
  <2>2. n \in Nat /\ n # 0
    OBVIOUS
  <2>3. batch \in Seq(Categories \cup {NoCategory}) /\ Len(batch) = n
    BY <2>1, <2>2
  <2>4. QED BY <2>2, <2>3
<1>5. LearnerOK(x) /\ x.step = "recording"
  <2>1. x \in LearnerCalls /\ x.step = "recording" /\ x.left # <<>>
    BY <1>2, <1>4 DEF LearnerCalls
  <2>2. QED BY <2>1 DEF LearnerOK
<1>6. \A c : ~Bumps(x, c)
  BY <1>5 DEF Bumps
<1>7. QED BY <1>3, <1>5, <1>6, QuietStep

LEMMA FailureKeeps ==
  ASSUME LearningOK, NEW p \in Learners, CallFails(p)
  PROVE  LearningOK'
<1>1. learner' = [learner EXCEPT ![p] = AtRest] /\ UNCHANGED <<preference, decided, defaulted>>
  BY DEF CallFails, Settle
<1>2. LearnerOK(AtRest) /\ AtRest.step = "idle"
  BY DEF AtRest, LearnerCalls, LearnerOK
<1>3. \A c : ~Bumps(AtRest, c)
  BY <1>2 DEF Bumps
<1>4. QED BY <1>1, <1>2, <1>3, QuietStep

LEMMA DefaultReadKeeps ==
  ASSUME LearningOK, NEW p \in Learners, NEW category \in Categories, ReadDefault(p, category)
  PROVE  LearningOK'
<1>1. PICK x : x = [AtRest EXCEPT !.step = "defaulting", !.default = category,
                                  !.found = IF preference = NoPreference THEN @ ELSE ARow]
  OBVIOUS
<1>2. learner' = [learner EXCEPT ![p] = x] /\ UNCHANGED <<preference, decided, defaulted>>
  BY <1>1 DEF ReadDefault
<1>3. x = [step |-> "defaulting", left |-> <<>>, default |-> category,
           found |-> IF preference = NoPreference THEN NoPreference ELSE ARow]
  BY <1>1 DEF AtRest
<1>4. x \in LearnerCalls /\ x.step = "defaulting" /\ x.default \in Categories
  <2>1. PICK f \in {NoPreference, ARow} : x.found = f
    BY <1>3
  <2>2. x = [step |-> "defaulting", left |-> <<>>, default |-> category, found |-> f]
    BY <1>3, <2>1
  <2>3. QED BY <2>2 DEF LearnerCalls
<1>5. LearnerOK(x)
  BY <1>4 DEF LearnerOK
<1>6. \A c : ~Bumps(x, c)
  BY <1>4 DEF Bumps
<1>7. QED BY <1>2, <1>4, <1>5, <1>6, QuietStep

\* A request reads the preference that it will count on.
LEMMA ReadKeeps ==
  ASSUME LearningOK, NEW p \in Learners, ReadPreference(p)
  PROVE  LearningOK'
<1>1. PICK work : work = learner[p]
  OBVIOUS
<1>2. work \in LearnerCalls /\ work.step = "reading" /\ work.left # <<>> /\ Head(work.left) \in Categories
  BY <1>1 DEF LearningOK, LearnersOK, LearnerOK, ReadPreference, IsAt
<1>3. PICK x : x = [step |-> "bumping", left |-> work.left, found |-> preference, default |-> work.default]
  OBVIOUS
<1>4. [[work EXCEPT !.step = "bumping"] EXCEPT !.found = preference] = x
  <2>1. work = [step |-> work.step, left |-> work.left, found |-> work.found, default |-> work.default]
    BY <1>2 DEF LearnerCalls
  <2>2. PICK y : y = [work EXCEPT !.step = "bumping"]
    OBVIOUS
  <2>3. y = [step |-> "bumping", left |-> work.left, found |-> work.found, default |-> work.default]
    BY <2>1, <2>2
  <2>4. [y EXCEPT !.found = preference] = x
    BY <1>3, <2>3
  <2>5. QED BY <2>2, <2>4
<1>5. learner' = [learner EXCEPT ![p] = x] /\ UNCHANGED <<preference, decided, defaulted>>
  BY <1>1, <1>4 DEF ReadPreference, LearningOK, LearnersOK
<1>6. preference \in Prefs \cup {NoPreference}
  BY DEF LearningOK, TablesOK
<1>7. x \in LearnerCalls /\ x.step = "bumping" /\ x.left = work.left /\ x.found = preference
  BY <1>2, <1>3, <1>6 DEF LearnerCalls
<1>8. LearnerOK(x)
  BY <1>2, <1>6, <1>7 DEF LearnerOK
<1>9. \A c : Bumps(x, c) => Bumps(learner[p], c)
  BY <1>1, <1>2, <1>7 DEF Bumps
<1>10. QED BY <1>5, <1>7, <1>8, <1>9, QuietStep

\* One decision is logged, and its count owed.
LEMMA DecisionKeeps ==
  ASSUME LearningOK, NEW p \in Learners, RecordDecision(p)
  PROVE  LearningOK'
<1>1. PICK work : work = learner[p]
  OBVIOUS
<1>2. work \in LearnerCalls /\ work.step = "recording" /\ work.left # <<>>
  BY <1>1 DEF LearningOK, LearnersOK, LearnerOK, RecordDecision, IsAt
<1>3. PICK category : category = Head(work.left)
  OBVIOUS
<1>4. CASE category = NoCategory
  <2>1. Proceed(p) /\ UNCHANGED <<preference, decided, defaulted>>
    BY <1>1, <1>3, <1>4 DEF RecordDecision
  <2>2. PICK x : LearnerOK(x) /\ learner' = [learner EXCEPT ![p] = x] /\ x.step \in {"idle", "recording"}
    BY <1>1, <1>2, <2>1, ProceedMoves DEF LearningOK
  <2>3. \A c : ~Bumps(x, c)
    BY <2>2 DEF Bumps
  <2>4. x.step # "bumping"
    BY <2>2
  <2>5. QED BY <2>1, <2>2, <2>3, <2>4, QuietStep
<1>5. CASE category # NoCategory
  <2>1. /\ decided' = [decided EXCEPT ![category] = @ + 1]
        /\ learner' = [learner EXCEPT ![p].step = "reading"] /\ UNCHANGED <<preference, defaulted>>
    BY <1>1, <1>3, <1>5 DEF RecordDecision
  <2>2. category \in Categories
    <3>1. work.left \in Seq(Categories \cup {NoCategory})
      BY <1>2 DEF LearnerCalls
    <3>2. Head(work.left) \in Categories \cup {NoCategory}
      BY <1>2, <3>1
    <3>3. QED BY <1>3, <1>5, <3>2
  <2>3. PICK x : x = [step |-> "reading", left |-> work.left, found |-> work.found, default |-> work.default]
    OBVIOUS
  <2>4. [work EXCEPT !.step = "reading"] = x
    BY <1>2, <2>3 DEF LearnerCalls
  <2>5. learner' = [learner EXCEPT ![p] = x]
    BY <1>1, <2>1, <2>4 DEF LearningOK, LearnersOK
  <2>6. x \in LearnerCalls /\ x.step = "reading" /\ x.left = work.left
    BY <1>2, <2>3 DEF LearnerCalls
  <2>7. LearnerOK(x)
    BY <1>2, <1>3, <2>2, <2>6 DEF LearnerOK
  <2>8. \A c : Bumps(x, c) <=> c = category
    BY <1>3, <2>6 DEF Bumps
  <2>9. \A c : ~Bumps(learner[p], c)
    BY <1>1, <1>2 DEF Bumps
  <2>10. LearnersOK' /\ CountingOK' /\ SlackGrows
    BY <2>1, <2>2, <2>5, <2>7, <2>8, <2>9, OneMoreOwed
  <2>11. TablesOK'
    <3>1. decided \in [Categories -> Nat]
      BY DEF LearningOK, TablesOK
    <3>2. PICK d \in Nat : d = decided[category] + 1
      BY <2>2, <3>1
    <3>3. decided' = [decided EXCEPT ![category] = d]
      BY <2>1, <3>2
    <3>4. decided' \in [Categories -> Nat]
      BY <3>1, <3>3
    <3>5. QED BY <2>1, <3>4 DEF LearningOK, TablesOK
  <2>12. PreferenceBacked'
    BY <2>1, <2>10, PreferenceStaysBacked
  <2>13. FoundBacked'
    BY <2>5, <2>6, <2>7, <2>10, OthersStayBacked
  <2>14. QED BY <2>10, <2>11, <2>12, <2>13 DEF LearningOK
<1>6. QED BY <1>4, <1>5

\* A request writes the count it owes, from the row it read before.
LEMMA BumpKeeps ==
  ASSUME LearningOK, NEW p \in Learners, BumpMerchantPreference(p)
  PROVE  LearningOK'
<1>1. PICK work : work = learner[p]
  OBVIOUS
<1>2. /\ work \in LearnerCalls /\ work.step = "bumping" /\ Head(work.left) \in Categories
      /\ work.found \in Prefs \cup {NoPreference}
  BY <1>1 DEF LearningOK, LearnersOK, LearnerOK, BumpMerchantPreference, IsAt
<1>3. PICK category \in Categories : category = Head(work.left)
  BY <1>2
<1>4. PICK count : count = NextCount(work.found, category)
  OBVIOUS
<1>5. /\ preference' = [category |-> category, count |-> count]
      /\ Proceed(p) /\ UNCHANGED <<decided, defaulted>>
  BY <1>1, <1>3, <1>4 DEF BumpMerchantPreference
<1>6. PICK x : LearnerOK(x) /\ learner' = [learner EXCEPT ![p] = x] /\ x.step \in {"idle", "recording"}
  BY <1>1, <1>2, <1>5, ProceedMoves DEF LearningOK
<1>7. (\A c : ~Bumps(x, c)) /\ x.step # "bumping"
  BY <1>6 DEF Bumps
<1>8. LearnersOK' /\ CountingOK' /\ SlackGrows
  <2>1. defaulted' \subseteq Categories
    BY <1>5 DEF LearningOK, TablesOK
  <2>2. QED BY <1>5, <1>6, <1>7, <2>1, NothingMoreOwed
<1>9. FoundBacked'
  BY <1>6, <1>7, <1>8, OthersStayBacked
<1>10. PICK a \in Nat : a = Cardinality(Counting(category))
  BY FS_CardinalityType DEF LearningOK, CountingOK
<1>11. Cardinality(Counting(category)') = a - 1 /\ a - 1 \in Nat
  <2>1. Counting(category)' = Counting(category) \ {p}
    BY <1>6, <1>7, LearnerMoves DEF LearningOK
  <2>2. p \in Counting(category)
    BY <1>1, <1>2, <1>3 DEF Counting, Bumps
  <2>3. IsFiniteSet(Counting(category))
    BY DEF LearningOK, CountingOK
  <2>4. Cardinality(Counting(category) \ {p}) = a - 1 /\ IsFiniteSet(Counting(category) \ {p})
    BY <1>10, <2>2, <2>3, FS_RemoveElement
  <2>5. Cardinality(Counting(category) \ {p}) \in Nat
    BY <2>4, FS_CardinalityType
  <2>6. QED BY <2>1, <2>4, <2>5
<1>12. PICK e \in Nat : e = Earned(category) /\ e = Earned(category)' /\ a <= e
  <2>1. PICK d \in Nat : d = decided[category] /\ a <= d
    BY <1>10 DEF LearningOK, TablesOK, CountingOK
  <2>2. PICK y \in Nat : y = IF category \in defaulted THEN 3 ELSE 0
    OBVIOUS
  <2>3. Earned(category) = d + y /\ Earned(category)' = d + y
    BY <1>5, <2>1, <2>2 DEF Earned, DefaultCount
  <2>4. d + y \in Nat /\ a <= d + y
    BY <2>1
  <2>5. QED BY <2>3, <2>4
<1>13. count \in Nat /\ count + (a - 1) <= e
  <2>1. CASE work.found # NoPreference /\ work.found.category = category
    <3>1. PICK k \in Nat : k = work.found.count
      BY <1>2, <2>1 DEF Prefs
    <3>2. k + a <= e
      BY <1>1, <1>2, <1>10, <1>12, <2>1, <3>1 DEF LearningOK, FoundBacked
    <3>3. count = k + 1
      BY <1>4, <2>1, <3>1 DEF NextCount
    <3>4. QED BY <1>11, <3>2, <3>3
  <2>2. CASE ~(work.found # NoPreference /\ work.found.category = category)
    <3>1. count = 1
      BY <1>4, <2>2 DEF NextCount
    <3>2. QED BY <1>11, <1>12, <3>1
  <2>3. QED BY <2>1, <2>2
<1>14. TablesOK'
  <2>1. [category |-> category, count |-> count] \in Prefs
    BY <1>13 DEF Prefs
  <2>2. QED BY <1>5, <2>1 DEF LearningOK, TablesOK
<1>15. PreferenceBacked'
  <2>1. preference'.category = category /\ preference'.count = count
    BY <1>5
  <2>2. count + Cardinality(Counting(category)') <= Earned(category)'
    BY <1>11, <1>12, <1>13
  <2>3. QED BY <2>1, <2>2 DEF PreferenceBacked
<1>16. QED BY <1>8, <1>9, <1>14, <1>15 DEF LearningOK

\* A default is worth three decisions.
LEMMA DefaultKeeps ==
  ASSUME LearningOK, NEW p \in Learners, SetMerchantDefault(p)
  PROVE  LearningOK'
<1>1. PICK work : work = learner[p]
  OBVIOUS
<1>2. work \in LearnerCalls /\ work.step = "defaulting" /\ work.default \in Categories
  BY <1>1 DEF LearningOK, LearnersOK, LearnerOK, SetMerchantDefault, IsAt
<1>3. PICK category \in Categories : category = work.default
  BY <1>2
<1>4. /\ preference' = [category |-> category, count |-> 3]
      /\ defaulted' = defaulted \cup {category} /\ decided' = decided
      /\ learner' = [learner EXCEPT ![p] = AtRest]
  BY <1>1, <1>3 DEF SetMerchantDefault, Settle, DefaultCount
<1>5. LearnerOK(AtRest) /\ AtRest.step = "idle"
  BY DEF AtRest, LearnerCalls, LearnerOK
<1>6. \A c : ~Bumps(AtRest, c)
  BY <1>5 DEF Bumps
<1>7. defaulted' \subseteq Categories
  BY <1>4 DEF LearningOK, TablesOK
<1>8. LearnersOK' /\ CountingOK' /\ SlackGrows
  BY <1>4, <1>5, <1>6, <1>7, NothingMoreOwed
<1>9. FoundBacked'
  BY <1>4, <1>5, <1>8, OthersStayBacked
<1>10. TablesOK'
  <2>1. [category |-> category, count |-> 3] \in Prefs
    BY DEF Prefs
  <2>2. QED BY <1>4, <1>7, <2>1 DEF LearningOK, TablesOK
<1>11. PreferenceBacked'
  <2>1. preference'.category = category /\ preference'.count = 3
    BY <1>4
  <2>2. PICK d \in Nat : d = decided'[category]
    BY <1>4 DEF LearningOK, TablesOK
  <2>3. Earned(category)' = d + 3
    BY <1>4, <2>2 DEF Earned, DefaultCount
  <2>4. PICK a \in Nat : a = Cardinality(Counting(category)') /\ a <= d
    <3>1. IsFiniteSet(Counting(category)') /\ Cardinality(Counting(category)') <= decided'[category]
      BY <1>8 DEF CountingOK
    <3>2. Cardinality(Counting(category)') \in Nat
      BY <3>1, FS_CardinalityType
    <3>3. QED BY <2>2, <3>1, <3>2
  <2>5. 3 + a <= d + 3
    BY <2>4
  <2>6. 3 + Cardinality(Counting(category)') <= Earned(category)'
    BY <2>3, <2>4, <2>5
  <2>7. QED BY <2>1, <2>6 DEF PreferenceBacked
<1>12. QED BY <1>8, <1>9, <1>10, <1>11 DEF LearningOK

\* No step of any request breaks what was learned.
LEMMA LearningStep ==
  ASSUME LearningOK, PreferenceNext \/ UNCHANGED preferenceVars
  PROVE  LearningOK'
<1>1. CASE PreferenceNext
  <2>1. PICK p \in Learners :
          \/ \E batch \in Batches : LogApprovals(p, batch)
          \/ RecordDecision(p) \/ ReadPreference(p) \/ BumpMerchantPreference(p)
          \/ \E category \in Categories : ReadDefault(p, category)
          \/ SetMerchantDefault(p) \/ CallFails(p)
    BY <1>1 DEF PreferenceNext
  <2>2. QED BY <2>1, LogsKeep, DecisionKeeps, ReadKeeps, BumpKeeps, DefaultReadKeeps, DefaultKeeps,
               FailureKeeps
<1>2. CASE UNCHANGED preferenceVars
  <2>1. UNCHANGED <<preference, decided, defaulted, learner>>
    BY <1>2 DEF preferenceVars
  <2>2. LearnersOK' /\ TablesOK'
    BY <2>1 DEF LearningOK, LearnersOK, TablesOK
  <2>3. CountingOK' /\ PreferenceBacked' /\ FoundBacked'
    BY <2>1 DEF LearningOK, CountingOK, PreferenceBacked, FoundBacked, Counting, Earned, Bumps
  <2>4. QED BY <2>2, <2>3 DEF LearningOK
<1>3. QED BY <1>1, <1>2

----------------------------------------------------------------------------
(***************************************************************************)
(* What is shown was made from the files of a case and from what is        *)
(* learned now: nothing is learned while it is shown.                      *)
(***************************************************************************)
LearnedNames == [n \in Names |-> IF n = Merchant THEN Learned ELSE NoAccount]
BoardRows(c) == BuildReviewRows(c.lines, c.ledger, Matches(c.lines, c.ledger), LearnedNames, Classified)

ShowsBoard == \E c \in Cases : shown = Board(c, BoardRows(c))
ShowsComparison ==
  \E c \in Cases, filter \in Filters :
    \E answer \in Answers(CompareBankToQb(c.lines, c.ledger, filter)) :
      shown = Comparison(c, filter, CompareBankToQb(c.lines, c.ledger, filter),
                         CompareBankToQbWithAI(CompareBankToQb(c.lines, c.ledger, filter), answer))
PageOK == shown = NothingShown \/ ShowsBoard \/ ShowsComparison
ReviewInv == LearningOK /\ PageOK

LEMMA ReviewInvInit == ReviewInit => ReviewInv
BY LearningInit DEF ReviewInit, ReviewInv, PageOK

\* A page is left before anything more is learned.
LEMMA PageStep == ASSUME PageOK, [ReviewNext]_reviewVars PROVE PageOK'
<1>1. ASSUME NEW c \in LookedAt PROVE c \in Cases
  BY StatementAssumption DEF LookedAt
<1>2. CASE PreferenceNext /\ shown' = NothingShown
  BY <1>2 DEF PageOK
<1>3. ASSUME NEW c \in LookedAt, ShowBoard(c) PROVE PageOK'
  <2>1. shown' = Board(c, BoardRows(c)) /\ UNCHANGED preferenceVars
    BY <1>3 DEF ShowBoard, BoardRows, LearnedNames
  <2>2. BoardRows(c)' = BoardRows(c)
    BY <2>1 DEF BoardRows, LearnedNames, Learned, preferenceVars
  <2>3. ShowsBoard'
    BY <1>1, <2>1, <2>2 DEF ShowsBoard
  <2>4. QED BY <2>3 DEF PageOK
<1>4. ASSUME NEW c \in LookedAt, NEW filter \in Filters, Compare(c, filter) PROVE PageOK'
  <2>1. ShowsComparison'
    BY <1>1, <1>4 DEF Compare, ShowsComparison
  <2>2. QED BY <2>1 DEF PageOK
<1>5. CASE Leave
  BY <1>5 DEF Leave, PageOK
<1>6. CASE UNCHANGED reviewVars
  <2>1. shown' = shown /\ UNCHANGED preferenceVars
    BY <1>6 DEF reviewVars
  <2>2. LearnedNames' = LearnedNames
    BY <2>1 DEF LearnedNames, Learned, preferenceVars
  <2>3. ASSUME NEW c PROVE BoardRows(c)' = BoardRows(c)
    BY <2>2 DEF BoardRows
  <2>4. ShowsBoard => ShowsBoard'
    BY <2>1, <2>3 DEF ShowsBoard
  <2>5. ShowsComparison => ShowsComparison'
    BY <2>1 DEF ShowsComparison
  <2>6. QED BY <2>1, <2>4, <2>5 DEF PageOK
<1>7. QED BY <1>2, <1>3, <1>4, <1>5, <1>6 DEF ReviewNext

LEMMA ReviewInvStep == ReviewInv /\ [ReviewNext]_reviewVars => ReviewInv'
<1> SUFFICES ASSUME ReviewInv, [ReviewNext]_reviewVars PROVE ReviewInv'
  OBVIOUS
<1>1. PreferenceNext \/ UNCHANGED preferenceVars
  BY DEF ReviewNext, ShowBoard, Compare, Leave, reviewVars
<1>2. LearningOK'
  BY <1>1, LearningStep DEF ReviewInv
<1>3. PageOK'
  BY PageStep DEF ReviewInv
<1>4. QED BY <1>2, <1>3 DEF ReviewInv

\* Every reachable page shows what its files and what was learned give, and what
\* was learned is covered by the decisions that were logged.
THEOREM StatementInvariant == ReviewSpec => []ReviewInv
BY ReviewInvInit, ReviewInvStep, PTL DEF ReviewSpec

----------------------------------------------------------------------------
\* The files of a case are what a parser returns.
LEMMA FilesAreRead ==
  ASSUME NEW c \in Cases
  PROVE  /\ \E n \in Nat : DOMAIN c.lines = 1..n
         /\ \E m \in Nat : DOMAIN c.ledger = 1..m
         /\ \A i \in DOMAIN c.lines : LineOK(c.lines[i])
         /\ \A q \in DOMAIN c.ledger : EntryOK(c.ledger[q])
         /\ Names \subseteq Seq(Seq(STRING))
<1>1. PICK lines : lines = c.lines
  OBVIOUS
<1>2. PICK ledger : ledger = c.ledger
  OBVIOUS
<1>3. /\ lines \in Seq(ToSet(lines)) /\ \A x \in ToSet(lines) : LineOK(x)
      /\ ledger \in Seq(ToSet(ledger)) /\ \A q \in ToSet(ledger) : EntryOK(q)
      /\ Names \subseteq Seq(Seq(STRING))
  BY <1>1, <1>2, StatementAssumption
<1>4. \A i \in DOMAIN lines : lines[i] \in ToSet(lines)
  BY DEF ToSet
<1>5. \A q \in DOMAIN ledger : ledger[q] \in ToSet(ledger)
  BY DEF ToSet
<1>6. Len(lines) \in Nat /\ DOMAIN lines = 1..Len(lines)
  <2>1. PICK T : T = ToSet(lines)
    OBVIOUS
  <2>2. lines \in Seq(T)
    BY <1>3, <2>1
  <2>3. QED BY <2>2
<1>7. Len(ledger) \in Nat /\ DOMAIN ledger = 1..Len(ledger)
  <2>1. PICK T : T = ToSet(ledger)
    OBVIOUS
  <2>2. ledger \in Seq(T)
    BY <1>3, <2>1
  <2>3. QED BY <2>2
<1>8. QED BY <1>1, <1>2, <1>3, <1>4, <1>5, <1>6, <1>7

LEMMA RowFields ==
  ASSUME NEW s, NEW ledger, NEW matches, NEW learned, NEW classified, NEW i \in DOMAIN s, NEW rows,
         rows = BuildReviewRows(s, ledger, matches, learned, classified)
  PROVE  /\ DOMAIN rows = DOMAIN s
         /\ rows[i].finding = BuildDetections(s)[i]
         /\ rows[i].match = matches[i]
         /\ rows[i].category = SuggestCategory(s, ledger, matches, i, learned, classified)
BY DEF BuildReviewRows, RowsFrom, Row

\* What a board shows.
LEMMA BoardIsMade ==
  ASSUME PageOK, IsBoard
  PROVE  \E c \in Cases :
           /\ shown.files = c /\ DOMAIN shown.rows = DOMAIN c.lines
           /\ \A i \in DOMAIN c.lines :
                /\ shown.rows[i].finding = BuildDetections(c.lines)[i]
                /\ shown.rows[i].match = Matches(c.lines, c.ledger)[i]
                /\ shown.rows[i].category =
                     SuggestCategory(c.lines, c.ledger, Matches(c.lines, c.ledger), i, LearnedNames, Classified)
<1>1. ~ShowsComparison
  BY DEF ShowsComparison, Comparison, IsBoard
<1>2. PICK c \in Cases : shown = Board(c, BoardRows(c))
  BY <1>1 DEF PageOK, IsBoard, ShowsBoard
<1>3. PICK rows : rows = BoardRows(c)
  OBVIOUS
<1>4. shown.files = c /\ shown.rows = rows
  BY <1>2, <1>3 DEF Board
<1>5. DOMAIN rows = DOMAIN c.lines
  BY <1>3 DEF BoardRows, BuildReviewRows, RowsFrom
<1>6. ASSUME NEW i \in DOMAIN c.lines
      PROVE  /\ rows[i].finding = BuildDetections(c.lines)[i]
             /\ rows[i].match = Matches(c.lines, c.ledger)[i]
             /\ rows[i].category =
                  SuggestCategory(c.lines, c.ledger, Matches(c.lines, c.ledger), i, LearnedNames, Classified)
  BY <1>3, RowFields DEF BoardRows
<1>7. QED BY <1>4, <1>5, <1>6

LEMMA BoardsExplainOnce == PageOK => PatternsExplainOnce
<1> SUFFICES ASSUME PageOK, IsBoard, NEW i \in DOMAIN shown.rows,
                    shown.rows[i].finding.kind \in {"reversal", "refund"}
             PROVE  \E j \in shown.rows[i].finding.related :
                      /\ shown.rows[i].finding.related = {j}
                      /\ shown.files.lines[i].amount + shown.files.lines[j].amount = 0
                      /\ shown.rows[j].finding # NoFinding
                      /\ shown.rows[j].finding.kind = shown.rows[i].finding.kind
                      /\ shown.rows[j].finding.related = {i}
  BY DEF PatternsExplainOnce
<1>1. PICK c \in Cases :
        /\ shown.files = c /\ DOMAIN shown.rows = DOMAIN c.lines
        /\ \A k \in DOMAIN c.lines : shown.rows[k].finding = BuildDetections(c.lines)[k]
  BY BoardIsMade
<1>2. PICK s : s = c.lines
  OBVIOUS
<1>3. LinesOK(s) /\ Names \subseteq Seq(Seq(STRING)) /\ i \in DOMAIN s
  BY <1>1, <1>2, FilesAreRead DEF LinesOK
<1>4. \A k \in DOMAIN s : shown.rows[k].finding = BuildDetections(s)[k]
  BY <1>1, <1>2
<1>5. PICK j \in DOMAIN s :
        /\ BuildDetections(s)[i].related = {j} /\ s[i].amount + s[j].amount = 0
        /\ BuildDetections(s)[j].kind = BuildDetections(s)[i].kind
        /\ BuildDetections(s)[j].related = {i}
  <2>1. BuildDetections(s)[i].kind \in {"reversal", "refund"}
    BY <1>3, <1>4
  <2>2. QED BY <1>3, <2>1, FindingsArePaired
<1>6. shown.rows[j].finding # NoFinding
  <2>1. PICK kind \in {"reversal", "refund"} : shown.rows[j].finding.kind = kind
    BY <1>3, <1>4, <1>5
  <2>2. NoFinding.kind = "none"
    BY DEF NoFinding, Finding
  <2>3. kind # "none"
    OBVIOUS
  <2>4. QED BY <2>1, <2>2, <2>3
<1>7. QED BY <1>1, <1>2, <1>3, <1>4, <1>5, <1>6

LEMMA BoardsAddUp == PageOK => PanelAddsUp
<1> SUFFICES ASSUME PageOK, IsBoard, NEW i \in DOMAIN shown.rows, shown.rows[i].match # NoPair
             PROVE  FoldLeft(+, 0, FactorBreakdown(shown.rows[i].match)) = shown.rows[i].match.confidence
  BY DEF PanelAddsUp
<1>1. PICK c \in Cases :
        /\ DOMAIN shown.rows = DOMAIN c.lines
        /\ \A k \in DOMAIN c.lines : shown.rows[k].match = Matches(c.lines, c.ledger)[k]
  BY BoardIsMade
<1>2. PICK s : s = c.lines
  OBVIOUS
<1>3. PICK ledger : ledger = c.ledger
  OBVIOUS
<1>4. PICK n \in Nat : DOMAIN s = 1..n
  BY <1>2, FilesAreRead
<1>5. PICK m \in Nat : DOMAIN ledger = 1..m
  BY <1>3, FilesAreRead
<1>6. /\ \A k \in DOMAIN s : LineOK(s[k]) /\ \A q \in DOMAIN ledger : EntryOK(ledger[q])
      /\ Names \subseteq Seq(Seq(STRING)) /\ i \in DOMAIN s
  BY <1>1, <1>2, <1>3, FilesAreRead
<1>7. PICK match : match = shown.rows[i].match
  OBVIOUS
<1>8. match = Matches(s, ledger)[i] /\ match # NoPair
  BY <1>1, <1>2, <1>3, <1>6, <1>7
<1>9. FoldLeft(+, 0, FactorBreakdown(match)) = match.confidence
  BY <1>4, <1>5, <1>6, <1>8, PanelsAddUp
<1>10. QED BY <1>7, <1>9

LEMMA BoardsAreExact == PageOK => EarlyExitIsExact
<1> SUFFICES ASSUME PageOK, IsBoard, NEW i \in DOMAIN shown.files.lines,
                    NEW j \in DOMAIN shown.files.lines, NEW floor \in {270, MerchantLinkThreshold}
             PROVE  LET p == MerchantProfile(shown.files.lines[i].name)
                        r == MerchantProfile(shown.files.lines[j].name)
                        quick == Resemblance(shown.files.lines[i], shown.files.lines[j], floor)
                    IN IF ExactSimilarity(p, r) >= floor THEN quick = ExactSimilarity(p, r)
                       ELSE quick < floor
  BY DEF EarlyExitIsExact
<1>1. PICK c \in Cases : shown.files = c
  BY BoardIsMade
<1>2. PICK x : x = shown.files.lines[i]
  OBVIOUS
<1>3. PICK y : y = shown.files.lines[j]
  OBVIOUS
<1>4. LineOK(x) /\ LineOK(y) /\ Names \subseteq Seq(Seq(STRING))
  BY <1>1, <1>2, <1>3, FilesAreRead
<1>5. LET exact == ExactSimilarity(MerchantProfile(x.name), MerchantProfile(y.name)) IN
        IF exact >= floor THEN Resemblance(x, y, floor) = exact ELSE Resemblance(x, y, floor) < floor
  BY <1>4, ResemblancesAreExact
<1>6. QED BY <1>2, <1>3, <1>5

LEMMA ComparisonsAreComplete == PageOK => ComparisonIsComplete
<1> SUFFICES ASSUME PageOK, IsComparison PROVE ComparisonIsComplete
  BY DEF ComparisonIsComplete
<1>1. ~ShowsBoard
  BY DEF ShowsBoard, Board, IsComparison
<1>2. PICK c \in Cases, filter \in Filters :
        \E answer \in Answers(CompareBankToQb(c.lines, c.ledger, filter)) :
          shown = Comparison(c, filter, CompareBankToQb(c.lines, c.ledger, filter),
                             CompareBankToQbWithAI(CompareBankToQb(c.lines, c.ledger, filter), answer))
  BY <1>1 DEF PageOK, IsComparison, ShowsComparison
<1>3. PICK s : s = c.lines
  OBVIOUS
<1>4. PICK ledger : ledger = c.ledger
  OBVIOUS
<1>5. PICK first : first = CompareBankToQb(s, ledger, filter)
  OBVIOUS
<1>6. PICK answer \in Answers(first) :
        shown = Comparison(c, filter, first, CompareBankToQbWithAI(first, answer))
  BY <1>2, <1>3, <1>4, <1>5
<1>7. PICK result : result = CompareBankToQbWithAI(first, answer)
  OBVIOUS
<1>8. /\ shown.files.lines = s /\ shown.files.ledger = ledger /\ shown.filter = filter
      /\ shown.first = first /\ shown.result = result
  BY <1>3, <1>4, <1>6, <1>7 DEF Comparison
<1>9. PICK n \in Nat : DOMAIN s = 1..n
  BY <1>3, FilesAreRead
<1>10. PICK m \in Nat : DOMAIN ledger = 1..m
  BY <1>4, FilesAreRead
<1>11. PICK lines : lines = KeptLines(s, filter)
  OBVIOUS
<1>12. PICK entries : entries = KeptEntries(ledger, filter)
  OBVIOUS
<1>13. PICK taken : taken = Pairs(s, ledger, lines, entries)
  OBVIOUS
<1>14. /\ FirstStage(s, ledger, lines, entries, first, taken)
       /\ lines \in SUBSET (1..n) /\ entries \in SUBSET (1..m)
  BY <1>5, <1>9, <1>10, <1>11, <1>12, <1>13, FirstStageHolds
<1>15. first.matches \cup first.mismatches = taken
  BY <1>14 DEF FirstStage
<1>16. /\ result.matches = first.matches \cup ByAnswer(first, answer)
       /\ result.mismatches = first.mismatches /\ result.duplicates = first.duplicates
       /\ result.unmatched = first.unmatched \ Resolved(first, answer)
       /\ result.missing = first.missing \ {answer[i] : i \in Resolved(first, answer)}
  <2>1. IsResult(first)
    BY <1>5, FirstIsResult
  <2>2. QED BY <1>7, <2>1, SecondFields
<1>17. result.matches \cup result.mismatches = taken \cup ByAnswer(first, answer)
  BY <1>15, <1>16
<1>18. ASSUME NEW i \in lines
       PROVE  /\ PlacesIn(first.matches \cup first.mismatches, first.duplicates, first.unmatched, i) = 1
              /\ PlacesIn(result.matches \cup result.mismatches, result.duplicates, result.unmatched, i) = 1
  <2>1. PlacesIn(taken, first.duplicates, first.unmatched, i) = 1
    BY <1>14, FirstPlaces
  <2>2. PlacesIn(taken \cup ByAnswer(first, answer), first.duplicates,
                 first.unmatched \ Resolved(first, answer), i) = 1
    BY <1>14, SecondPlaces
  <2>3. QED BY <1>15, <1>16, <1>17, <2>1, <2>2
<1>19. ASSUME NEW q \in entries
       PROVE  /\ Cardinality({p \in first.matches \cup first.mismatches : p[2] = q})
                   = (IF q \in first.missing THEN 0 ELSE 1)
              /\ (Cardinality({p \in result.matches \cup result.mismatches : p[2] = q}) = 0)
                   = (q \in result.missing)
  <2>1. Cardinality({p \in taken : p[2] = q}) = (IF q \in first.missing THEN 0 ELSE 1)
    BY <1>14, FirstTakers
  <2>2. TakenOrMissing(taken \cup ByAnswer(first, answer), StillMissing(first, answer), q)
    BY <1>14, SecondTakers
  <2>3. result.missing = StillMissing(first, answer)
    BY <1>16 DEF StillMissing
  <2>4. TakenOrMissing(result.matches \cup result.mismatches, result.missing, q)
    BY <1>17, <2>2, <2>3
  <2>5. (Cardinality({p \in result.matches \cup result.mismatches : p[2] = q}) = 0) \in BOOLEAN
        /\ (q \in result.missing) \in BOOLEAN
    OBVIOUS
  <2>6. QED BY <1>15, <2>1, <2>4, <2>5 DEF TakenOrMissing
<1>20. \A i \in first.unmatched, q \in entries : ~SameAmount(s[i], ledger[q])
  BY <1>14, UnmatchedHasNoEntry
<1>21. QED BY <1>8, <1>11, <1>12, <1>18, <1>19, <1>20 DEF ComparisonIsComplete, PlacesIn

\* What a category earned covers the count of its preference.
LEMMA CountIsEarned ==
  ASSUME LearningOK, preference # NoPreference
  PROVE  /\ preference.count \in Nat /\ Earned(preference.category) \in Nat
         /\ preference.count <= Earned(preference.category)
<1>1. PICK c \in Categories : c = preference.category
  BY DEF LearningOK, TablesOK, Prefs
<1>2. PICK k \in Nat : k = preference.count
  BY DEF LearningOK, TablesOK, Prefs
<1>3. PICK a \in Nat : a = Cardinality(Counting(c))
  BY FS_CardinalityType DEF LearningOK, CountingOK
<1>4. PICK e \in Nat : e = Earned(c)
  <2>1. PICK d \in Nat : d = decided[c]
    BY DEF LearningOK, TablesOK
  <2>2. QED BY <2>1 DEF Earned, DefaultCount
<1>5. k + a <= e
  BY <1>1, <1>2, <1>3, <1>4 DEF LearningOK, PreferenceBacked
<1>6. QED BY <1>1, <1>2, <1>4, <1>5

\* The tier tells where a category comes from.
LEMMA OnlyLearnedIsCalledLearned ==
  ASSUME NEW s, NEW ledger, NEW matches, NEW i, NEW learned, NEW classified,
         SuggestCategory(s, ledger, matches, i, learned, classified).tier = "learned"
  PROVE  /\ learned[s[i].name] # NoAccount /\ s[i].name # <<>>
         /\ SuggestCategory(s, ledger, matches, i, learned, classified).category = learned[s[i].name]
BY DEF SuggestCategory, Suggestion

LEMMA CategoriesAreEarned == ReviewInv => LearnedIsEarned
<1> SUFFICES ASSUME ReviewInv PROVE LearnedIsEarned
  OBVIOUS
<1>1. preference # NoPreference => preference.count <= Earned(preference.category)
  BY CountIsEarned DEF ReviewInv
<1>2. ASSUME IsBoard, NEW i \in DOMAIN shown.rows, shown.rows[i].category.tier = "learned"
      PROVE  Earned(shown.rows[i].category.category) >= LearnedCount
  <2>1. PICK c \in Cases :
          /\ DOMAIN shown.rows = DOMAIN c.lines
          /\ \A k \in DOMAIN c.lines : shown.rows[k].category =
               SuggestCategory(c.lines, c.ledger, Matches(c.lines, c.ledger), k, LearnedNames, Classified)
    BY <1>2, BoardIsMade DEF ReviewInv
  <2>2. PICK name : name = c.lines[i].name
    OBVIOUS
  <2>3. /\ LearnedNames[name] # NoAccount /\ name # <<>>
        /\ shown.rows[i].category.category = LearnedNames[name]
    BY <1>2, <2>1, <2>2, OnlyLearnedIsCalledLearned
  <2>4. name \in Names
    BY <1>2, <2>1, <2>2, <2>3, FilesAreRead DEF LineOK
  <2>5. LearnedNames[name] = Learned /\ Learned # NoCategory
    BY <2>3, <2>4, StatementAssumption DEF LearnedNames
  <2>6. /\ preference # NoPreference /\ preference.count >= LearnedCount
        /\ Learned = preference.category
    BY <2>5 DEF Learned
  <2>7. PICK k : k = preference.count
    OBVIOUS
  <2>8. PICK e : e = Earned(preference.category)
    OBVIOUS
  <2>9. k \in Nat /\ e \in Nat /\ k <= e /\ k >= 3
    BY <2>6, <2>7, <2>8, CountIsEarned DEF ReviewInv, LearnedCount
  <2>10. e >= 3
    BY <2>9
  <2>11. QED BY <2>3, <2>5, <2>6, <2>8, <2>10 DEF LearnedCount
<1>3. QED BY <1>1, <1>2 DEF LearnedIsEarned

\* A board never explains a line by two events: a reversal or a refund is the
\* same finding for both of its lines, which cancel out and name each other,
\* however many lines of that amount the statement has (buildDetections).
THEOREM PatternsAreExplainedOnce == ReviewSpec => []PatternsExplainOnce
<1>1. ReviewInv => PatternsExplainOnce
  BY BoardsExplainOnce DEF ReviewInv
<1>2. QED BY <1>1, StatementInvariant, PTL

\* The factors that the panel lists for a match add up to the confidence that
\* scorePair gave it, for every statement and ledger.
THEOREM PanelsAreExact == ReviewSpec => []PanelAddsUp
<1>1. ReviewInv => PanelAddsUp
  BY BoardsAddUp DEF ReviewInv
<1>2. QED BY <1>1, StatementInvariant, PTL

\* Leaving the comparison of two names early changes no outcome at the floors
\* that the detectors use (merchant-similarity.ts), for names of any length.
THEOREM ShortCutsChangeNothing == ReviewSpec => []EarlyExitIsExact
<1>1. ReviewInv => EarlyExitIsExact
  BY BoardsAreExact DEF ReviewInv
<1>2. QED BY <1>1, StatementInvariant, PTL

\* A comparison of two files puts each line into exactly one list, takes each
\* entry or lists it as missing, and calls no line unmatched for which the ledger
\* has an entry of its amount, with and without the answers of the model.
THEOREM NothingIsLost == ReviewSpec => []ComparisonIsComplete
<1>1. ReviewInv => ComparisonIsComplete
  BY ComparisonsAreComplete DEF ReviewInv
<1>2. QED BY <1>1, StatementInvariant, PTL

\* A category that the board calls learned was decided three times for its
\* merchant or set as its default, however many requests count at once.
THEOREM LearningIsEarned == ReviewSpec => []LearnedIsEarned
<1>1. QED BY CategoriesAreEarned, StatementInvariant, PTL
==============================================================================
