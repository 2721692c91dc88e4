------------------------ MODULE PostingIntake_proofs ------------------------
(***************************************************************************)
(* The safety of PostingIntake for every set of keys, intents, approvals   *)
(* and calls: an inductive invariant and what follows from it.             *)
(***************************************************************************)
EXTENDS PostingIntake, TLAPS

\* The points at which a call works on an operation it claimed.
WorkPoints == {"load", "evaluate", "permit", "move"}
Works(c) == caller[c].pc \in WorkPoints

\* A running call has an intent, what it works on is its own operation, which it
\* found in a state that is left to intake, and it decides on what it has read.
OwnsOperation(c) ==
  /\ caller[c].pc # "idle" => caller[c].intent \in Intents
  /\ Works(c) => claimed[KeyOf(c)] = caller[c].intent /\ caller[c].seen \notin PassiveRetryStates
  /\ caller[c].pc = "evaluate" => caller[c].core \in Verdicts
  /\ caller[c].pc \in {"evaluate", "permit"} => caller[c].presented \in Standings
  /\ caller[c].pc = "move" /\ caller[c].target = "VALIDATED" => caller[c].presented \in Standings
  /\ caller[c].presented \in Standings /\ caller[c].approval = NoApproval
       => caller[c].presented = "none"
CallsOwnTheirOperation == \A c \in Callers : OwnsOperation(c)

\* What a call is about to ask of transition_posting_operation_v1 was decided
\* and recorded before.
Grounds(c) ==
  LET recorded == decisions[KeyOf(c)] IN
  /\ caller[c].target = "VALIDATED" => \E d \in recorded : d.by = "core" /\ d.verdict = "ALLOW"
  /\ caller[c].target = "REVIEW" => \E d \in recorded : d.verdict = "REVIEW"
  /\ caller[c].target = "DENIED" => \E d \in recorded : d.verdict = "DENY"
  /\ caller[c].target = "AUTHORIZED" =>
       /\ \E d \in recorded : /\ d.by = "permission" /\ d.verdict = "ALLOW"
                              /\ d.approval = caller[c].approval
       /\ Approves[caller[c].approval] = caller[c].intent.content
MovesHaveGrounds == \A c \in Callers : caller[c].pc = "move" => Grounds(c)

\* What nobody claimed was never moved.
UnclaimedIsNew == \A k \in Keys : ~Exists(k) => state[k] = "PROPOSED"

IInv ==
  /\ TypeOK
  /\ CallsOwnTheirOperation
  /\ MovesHaveGrounds
  /\ UnclaimedIsNew
  /\ OneOperationPerClaim
  /\ DecisionsExplain

----------------------------------------------------------------------------
(***************************************************************************)
(* Type correctness.                                                       *)
(***************************************************************************)

\* What a call may become.
LEMMA IdleTyped == Idle \in Call
BY DEF Idle, Call, Points, States, Verdicts, Standings, IntakeTargets

LEMMA EvaluateTyped ==
  ASSUME NEW c, NEW i \in Intents, NEW a \in Approvals \cup {NoApproval}, NEW s \in States,
         NEW n \in 0..3
  PROVE  Evaluate(c, i, a, s, n) \in Call
BY DEF Evaluate, Idle, Call, Points, States, Verdicts, Standings, IntakeTargets

LEMMA LoadTyped ==
  ASSUME NEW r \in Call, NEW p \in Points
  PROVE  /\ \A v \in Verdicts : [r EXCEPT !.core = v, !.pc = p] \in Call
         /\ \A s \in Standings : [r EXCEPT !.presented = s, !.pc = p] \in Call
         /\ \A s \in States : [r EXCEPT !.pc = p, !.seen = s] \in Call
         /\ [r EXCEPT !.pc = p, !.core = "unread"] \in Call
         /\ \A t \in IntakeTargets :
              /\ [r EXCEPT !.pc = p, !.core = "unread", !.target = t] \in Call
              /\ [r EXCEPT !.pc = p, !.presented = "unread", !.target = t] \in Call
BY DEF Call

LEMMA SetTyped ==
  ASSUME TypeOK, NEW c \in Callers, NEW r \in Call, Set(c, r)
  PROVE  caller' \in [Callers -> Call]
BY DEF Set, TypeOK

LEMMA ReturnTyped ==
  ASSUME TypeOK, NEW c \in Callers, Return(c)
  PROVE  caller' \in [Callers -> Call]
BY IdleTyped, SetTyped DEF Return

LEMMA TargetTyped ==
  ASSUME NEW v \in Verdicts, NEW t \in IntakeTargets
  PROVE  Target(v, t) \in IntakeTargets
BY DEF Target, IntakeTargets

LEMMA DecideTyped ==
  ASSUME TypeOK, NEW k \in Keys, NEW v \in Verdicts, NEW a \in Approvals \cup {NoApproval},
         NEW by \in {"core", "permission", "dispatch", "refresh"}, Decide(k, by, v, a)
  PROVE  decisions' \in [Keys -> SUBSET Decision]
<1>1. [by |-> by, verdict |-> v, approval |-> a] \in Decision
  BY DEF Decision
<1> QED BY <1>1 DEF Decide, TypeOK

LEMMA IntentsHaveKeys == \A i \in Intents : i.key \in Keys
BY ConstantsAssumption DEF Intent

\* Each disjunct of Next keeps every variable in its type.
LEMMA TypeOKStep == TypeOK /\ CallsOwnTheirOperation /\ [Next]_vars => TypeOK'
<1> SUFFICES ASSUME TypeOK, CallsOwnTheirOperation, [Next]_vars PROVE TypeOK'
  OBVIOUS
<1> USE DEF store, world
<1>a. \A c \in Callers : caller[c] \in Call
  BY DEF TypeOK
<1>b. \A c \in Callers : /\ caller[c].approval \in Approvals \cup {NoApproval}
                         /\ caller[c].target \in IntakeTargets
                         /\ caller[c].tries \in 0..3
  BY <1>a DEF Call
<1>c. \A c \in Callers : caller[c].pc # "idle" => caller[c].intent \in Intents /\ KeyOf(c) \in Keys
  BY IntentsHaveKeys DEF CallsOwnTheirOperation, OwnsOperation, KeyOf
<1>p. "idle" \in Points /\ "insert" \in Points /\ "load" \in Points /\ "evaluate" \in Points
      /\ "permit" \in Points /\ "move" \in Points
  BY DEF Points
<1>1. ASSUME NEW c \in Callers, NEW i \in Intents, NEW a \in Presented, Submit(c, i, a)
      PROVE TypeOK'
  <2>0. a \in Approvals \cup {NoApproval} /\ i.key \in Keys
    BY ConstantsAssumption, IntentsHaveKeys
  <2>1. CASE Resume(c, i, a)
    <3>1. Evaluate(c, i, a, state[i.key], 0) \in Call
      BY <2>0, EvaluateTyped DEF TypeOK
    <3>2. caller' \in [Callers -> Call]
      BY <2>1, <3>1, SetTyped DEF Resume
    <3> QED BY <2>1, <3>2 DEF Resume, TypeOK
  <2>2. CASE LookupNothing(c, i, a)
    <3>1. [Idle EXCEPT !.pc = "insert", !.intent = i, !.approval = a] \in Call
      BY <2>0, <1>p, IdleTyped DEF Call
    <3>2. caller' \in [Callers -> Call]
      BY <2>2, <3>1, SetTyped DEF LookupNothing
    <3> QED BY <2>2, <3>2 DEF LookupNothing, TypeOK
  <2> QED BY <1>1, <2>1, <2>2 DEF Submit
<1>2. ASSUME NEW c \in Callers, InsertClaim(c) PROVE TypeOK'
  <2>0. caller[c].intent \in Intents /\ KeyOf(c) \in Keys
    BY <1>2, <1>c DEF InsertClaim, Insert, InsertLost, At
  <2>1. \A s \in States : Evaluate(c, caller[c].intent, caller[c].approval, s, 0) \in Call
    BY <1>b, <2>0, EvaluateTyped
  <2>2. CASE Insert(c)
    <3>1. "PROPOSED" \in States
      BY DEF States
    <3>2. caller' \in [Callers -> Call]
      BY <2>1, <2>2, <3>1, SetTyped DEF Insert
    <3> QED BY <2>0, <2>2, <3>2 DEF Insert, TypeOK
  <2>3. CASE InsertLost(c)
    <3>1. state[KeyOf(c)] \in States
      BY <2>0 DEF TypeOK
    <3>2. caller' \in [Callers -> Call]
      BY <2>1, <2>3, <3>1, SetTyped, ReturnTyped DEF InsertLost
    <3> QED BY <2>3, <3>2 DEF InsertLost, TypeOK
  <2> QED BY <1>2, <2>2, <2>3 DEF InsertClaim
<1>3. ASSUME NEW c \in Callers, Load(c) PROVE TypeOK'
  <2>1. CASE LoadCore(c)
    <3>1. caller' \in [Callers -> Call]
      BY <1>a, <1>p, <2>1, LoadTyped, SetTyped DEF LoadCore, TypeOK
    <3> QED BY <2>1, <3>1 DEF LoadCore, TypeOK
  <2>2. CASE LoadApproval(c)
    <3>1. (IF caller[c].approval = NoApproval THEN "none" ELSE standing[caller[c].approval])
            \in Standings
      BY <1>b DEF TypeOK, Standings
    <3>2. caller' \in [Callers -> Call]
      BY <1>a, <1>p, <2>2, <3>1, LoadTyped, SetTyped DEF LoadApproval
    <3> QED BY <2>2, <3>2 DEF LoadApproval, TypeOK
  <2> QED BY <1>3, <2>1, <2>2 DEF Load
<1>4. ASSUME NEW c \in Callers, EvaluateCore(c) PROVE TypeOK'
  <2>1. KeyOf(c) \in Keys /\ caller[c].core \in Verdicts
    BY <1>4, <1>c DEF EvaluateCore, CallsOwnTheirOperation, OwnsOperation, At
  <2>2. decisions' \in [Keys -> SUBSET Decision]
    BY <1>4, <2>1, DecideTyped DEF EvaluateCore
  <2>3. Target(caller[c].core, "VALIDATED") \in IntakeTargets
    BY <2>1, TargetTyped DEF IntakeTargets
  <2>4. caller' \in [Callers -> Call]
    BY <1>4, <1>a, <1>p, <2>3, LoadTyped, SetTyped, ReturnTyped DEF EvaluateCore
  <2> QED BY <1>4, <2>2, <2>4 DEF EvaluateCore, TypeOK
<1>5. ASSUME NEW c \in Callers, EvaluatePermission(c) PROVE TypeOK'
  <2>1. KeyOf(c) \in Keys
    BY <1>5, <1>c DEF EvaluatePermission, At
  <2>2. PermissionVerdict(c) \in Verdicts
    BY DEF PermissionVerdict, Verdicts
  <2>3. decisions' \in [Keys -> SUBSET Decision]
    BY <1>5, <1>b, <2>1, <2>2, DecideTyped DEF EvaluatePermission
  <2>4. Target(PermissionVerdict(c), "AUTHORIZED") \in IntakeTargets
    BY <2>2, TargetTyped DEF IntakeTargets
  <2>5. caller' \in [Callers -> Call]
    BY <1>5, <1>a, <1>p, <2>4, LoadTyped, SetTyped DEF EvaluatePermission
  <2> QED BY <1>5, <2>3, <2>5 DEF EvaluatePermission, TypeOK
<1>6. ASSUME NEW c \in Callers, Move(c) PROVE TypeOK'
  <2>0. caller[c].intent \in Intents /\ KeyOf(c) \in Keys
    BY <1>6, <1>c DEF Move, MoveUnchanged, MoveApplied, MoveStale, At
  <2>1. "VALIDATED" \in States /\ caller[c].target \in States
    BY <1>b DEF States, IntakeTargets
  <2>2. Moved(c) => caller' \in [Callers -> Call]
    BY <1>a, <1>p, <2>1, LoadTyped, SetTyped, ReturnTyped DEF Moved
  <2>3. CASE MoveUnchanged(c)
    BY <2>2, <2>3 DEF MoveUnchanged, TypeOK
  <2>4. CASE MoveApplied(c)
    <3>1. caller' \in [Callers -> Call]
      BY <2>2, <2>4 DEF MoveApplied
    <3>2. state' \in [Keys -> States] /\ approval' \in [Keys -> Approvals \cup {NoApproval}]
      BY <1>b, <2>0, <2>1, <2>4 DEF MoveApplied, TypeOK
    <3> QED BY <2>4, <3>1, <3>2 DEF MoveApplied, TypeOK
  <2>5. CASE MoveStale(c)
    <3>1. caller[c].tries < 3 => caller[c].tries + 1 \in 0..3
      BY <1>b
    <3>2. state[KeyOf(c)] \in States
      BY <2>0 DEF TypeOK
    <3>3. CASE caller[c].tries < 3 /\ state[KeyOf(c)] \notin PassiveRetryStates
      <4>1. Evaluate(c, caller[c].intent, caller[c].approval, state[KeyOf(c)],
                     caller[c].tries + 1) \in Call
        BY <1>b, <2>0, <3>1, <3>2, <3>3, EvaluateTyped
      <4> QED BY <2>5, <3>3, <4>1, SetTyped DEF MoveStale, TypeOK
    <3>4. CASE ~(caller[c].tries < 3 /\ state[KeyOf(c)] \notin PassiveRetryStates)
      BY <2>5, <3>4, ReturnTyped DEF MoveStale, TypeOK
    <3> QED BY <3>3, <3>4
  <2> QED BY <1>6, <2>3, <2>4, <2>5 DEF Move
<1>7. ASSUME NEW c \in Callers, Crash(c) PROVE TypeOK'
  <2>1. caller' \in [Callers -> Call]
    BY <1>7, ReturnTyped DEF Crash
  <2> QED BY <1>7, <2>1, ConstantsAssumption DEF Crash, Drift, TypeOK
<1>8. ASSUME NEW batch \in SUBSET Keys, NEW fresh \in [batch -> Approvals], Refresh(batch, fresh)
      PROVE TypeOK'
  <2>1. \A k \in batch : [by |-> "refresh", verdict |-> "ALLOW", approval |-> fresh[k]] \in Decision
    BY DEF Decision, Verdicts
  <2>2. decisions' \in [Keys -> SUBSET Decision]
    BY <1>8, <2>1 DEF Refresh, TypeOK
  <2> QED BY <1>8, <2>2 DEF Refresh, TypeOK, Standings
<1>9. CASE WorldChanges
  BY <1>9, ConstantsAssumption DEF WorldChanges, Drift, TypeOK
<1>10. ASSUME NEW a \in Approvals, Approve(a) PROVE TypeOK'
  BY <1>10 DEF Approve, TypeOK, Standings
<1>11. ASSUME NEW a \in Approvals, NEW how \in {"expired", "revoked"}, ApprovalEnds(a, how)
       PROVE TypeOK'
  BY <1>11, ConstantsAssumption DEF ApprovalEnds, Drift, TypeOK, Standings
<1>12. ASSUME NEW k \in Keys, NEW to \in States, Executes(k, to) PROVE TypeOK'
  <2>1. "REVIEW" \in Verdicts /\ "DENY" \in Verdicts
    BY DEF Verdicts
  <2>2. decisions' \in [Keys -> SUBSET Decision]
    BY <1>12, <2>1, DecideTyped DEF Executes, TypeOK
  <2> QED BY <1>12, <2>2 DEF Executes, TypeOK
<1>13. CASE UNCHANGED vars
  BY <1>13 DEF vars, TypeOK
<1> QED BY <1>1, <1>2, <1>3, <1>4, <1>5, <1>6, <1>7, <1>8, <1>9, <1>10, <1>11, <1>12, <1>13
        DEF Next, Step

----------------------------------------------------------------------------
(***************************************************************************)
(* The parts of the invariant.                                             *)
(***************************************************************************)

\* Claims are inserted and never taken back.
LEMMA ClaimsStay ==
  ASSUME TypeOK, [Next]_vars, NEW k \in Keys, Exists(k)
  PROVE  claimed'[k] = claimed[k]
<1>1. CASE claimed' = claimed
  BY <1>1
<1>2. ASSUME NEW c \in Callers, Insert(c) PROVE claimed'[k] = claimed[k]
  BY <1>2 DEF Insert, TypeOK
<1> QED BY <1>1, <1>2 DEF Next, Step, Submit, InsertClaim, Load, Move, Resume, LookupNothing,
        InsertLost, LoadCore, LoadApproval, EvaluateCore, EvaluatePermission, MoveUnchanged,
        MoveApplied, MoveStale, Crash, Refresh, WorldChanges, Approve, ApprovalEnds, Executes,
        store, vars

\* Decisions are recorded and never taken back.
LEMMA DecisionsGrow ==
  ASSUME TypeOK, CallsOwnTheirOperation, [Next]_vars, NEW k \in Keys
  PROVE  decisions[k] \subseteq decisions'[k]
<1> USE DEF TypeOK
<1>1. CASE decisions' = decisions
  BY <1>1
<1>2. ASSUME NEW c \in Callers, EvaluateCore(c) \/ EvaluatePermission(c)
      PROVE decisions[k] \subseteq decisions'[k]
  BY <1>2 DEF EvaluateCore, EvaluatePermission, Decide
<1>3. ASSUME NEW batch \in SUBSET Keys, NEW fresh \in [batch -> Approvals], Refresh(batch, fresh)
      PROVE decisions[k] \subseteq decisions'[k]
  BY <1>3 DEF Refresh
<1>4. ASSUME NEW j \in Keys, NEW to \in States, Executes(j, to)
      PROVE decisions[k] \subseteq decisions'[k]
  BY <1>4 DEF Executes, Decide
<1> QED BY <1>1, <1>2, <1>3, <1>4 DEF Next, Step, Submit, InsertClaim, Load, Move, Resume,
        LookupNothing, Insert, InsertLost, LoadCore, LoadApproval, MoveUnchanged, MoveApplied,
        MoveStale, Crash, WorldChanges, Approve, ApprovalEnds, store, vars

\* The insert looks at the key and at the claim at once.
LEMMA OneOperationStep ==
  TypeOK /\ CallsOwnTheirOperation /\ OneOperationPerClaim /\ [Next]_vars => OneOperationPerClaim'
<1> SUFFICES ASSUME TypeOK, CallsOwnTheirOperation, OneOperationPerClaim, [Next]_vars
             PROVE OneOperationPerClaim'
  OBVIOUS
<1>1. CASE claimed' = claimed
  BY <1>1 DEF OneOperationPerClaim, Exists
<1>2. ASSUME NEW c \in Callers, Insert(c) PROVE OneOperationPerClaim'
  BY <1>2 DEF Insert, OneOperationPerClaim, Exists, ClaimTaken, TypeOK
<1> QED BY <1>1, <1>2 DEF Next, Step, Submit, InsertClaim, Load, Move, Resume, LookupNothing,
        InsertLost, LoadCore, LoadApproval, EvaluateCore, EvaluatePermission, MoveUnchanged,
        MoveApplied, MoveStale, Crash, Refresh, WorldChanges, Approve, ApprovalEnds, Executes,
        store, vars

LEMMA UnclaimedStep ==
  TypeOK /\ CallsOwnTheirOperation /\ UnclaimedIsNew /\ [Next]_vars => UnclaimedIsNew'
<1> SUFFICES ASSUME TypeOK, CallsOwnTheirOperation, UnclaimedIsNew, [Next]_vars,
                    NEW k \in Keys, ~Exists(k)'
             PROVE state'[k] = "PROPOSED"
  BY DEF UnclaimedIsNew
<1>0. ~Exists(k)
  BY ClaimsStay DEF Exists
<1>1. state[k] = "PROPOSED"
  BY <1>0 DEF UnclaimedIsNew
<1>2. CASE state' = state
  BY <1>1, <1>2
<1>3. ASSUME NEW c \in Callers, MoveApplied(c) PROVE state'[k] = "PROPOSED"
  <2>1. Exists(KeyOf(c))
    BY <1>3, ConstantsAssumption DEF MoveApplied, At, Exists, KeyOf, CallsOwnTheirOperation,
       OwnsOperation, Works, WorkPoints
  <2> QED BY <1>0, <1>1, <1>3, <2>1 DEF MoveApplied, TypeOK
<1>4. ASSUME NEW j \in Keys, NEW to \in States, Executes(j, to) PROVE state'[k] = "PROPOSED"
  BY <1>0, <1>1, <1>4 DEF Executes, TypeOK
<1> QED BY <1>2, <1>3, <1>4 DEF Next, Step, Submit, InsertClaim, Load, Move, Resume, LookupNothing,
        Insert, InsertLost, LoadCore, LoadApproval, EvaluateCore, EvaluatePermission,
        MoveUnchanged, MoveStale, Crash, Refresh, WorldChanges, Approve, ApprovalEnds, store, vars

\* Every field a step of a call leaves alone, and those it sets.
LEMMA CallsOwnStep ==
  TypeOK /\ CallsOwnTheirOperation /\ [Next]_vars => CallsOwnTheirOperation'
<1> SUFFICES ASSUME TypeOK, CallsOwnTheirOperation, [Next]_vars, NEW d \in Callers
             PROVE OwnsOperation(d)'
  BY DEF CallsOwnTheirOperation
<1> USE DEF At, Set, Works, WorkPoints, KeyOf
<1>a. OwnsOperation(d) /\ caller[d] \in Call
  BY DEF CallsOwnTheirOperation, TypeOK
<1>b. Works(d) => claimed'[KeyOf(d)] = claimed[KeyOf(d)]
  BY <1>a, ClaimsStay, IntentsHaveKeys, ConstantsAssumption DEF OwnsOperation, Exists
<1>c. CASE caller'[d] = caller[d]
  BY <1>a, <1>b, <1>c DEF OwnsOperation
<1>d. CASE caller'[d] = Idle
  BY <1>d, ConstantsAssumption DEF OwnsOperation, Idle, Standings
<1>e. ASSUME NEW i \in Intents, NEW a, NEW s \in States \ PassiveRetryStates, NEW n,
             caller'[d] = Evaluate(d, i, a, s, n), claimed'[i.key] = i
      PROVE OwnsOperation(d)'
  BY <1>e DEF OwnsOperation, Evaluate, Idle, Standings
<1>1. ASSUME NEW c \in Callers, NEW i \in Intents, NEW a \in Presented, Submit(c, i, a)
      PROVE OwnsOperation(d)'
  <2>1. CASE Resume(c, i, a)
    <3>1. CASE d = c
      <4>1. caller'[d] = Evaluate(d, i, a, state[i.key], 0)
        BY <2>1, <3>1 DEF Resume, TypeOK, Evaluate
      <4>2. claimed'[i.key] = i /\ state[i.key] \in States \ PassiveRetryStates
        BY <2>1, IntentsHaveKeys DEF Resume, Resumable, TypeOK, store
      <4> QED BY <4>1, <4>2, <1>e
    <3>2. CASE d # c
      BY <2>1, <3>2, <1>c DEF Resume, TypeOK
    <3> QED BY <3>1, <3>2
  <2>2. CASE LookupNothing(c, i, a)
    <3>1. CASE d = c
      BY <2>2, <3>1 DEF LookupNothing, TypeOK, OwnsOperation, Idle, Standings
    <3>2. CASE d # c
      BY <2>2, <3>2, <1>c DEF LookupNothing, TypeOK
    <3> QED BY <3>1, <3>2
  <2> QED BY <1>1, <2>1, <2>2 DEF Submit
<1>2. ASSUME NEW c \in Callers, Step(c), d # c PROVE OwnsOperation(d)'
  <2>1. caller'[d] = caller[d]
    BY <1>2 DEF Step, InsertClaim, Load, Move, Insert, InsertLost, LoadCore, LoadApproval,
       EvaluateCore, EvaluatePermission, MoveUnchanged, MoveApplied, MoveStale, Moved, Return,
       TypeOK
  <2> QED BY <2>1, <1>c
<1>3. CASE InsertClaim(d)
  <2>0. caller[d].intent \in Intents /\ KeyOf(d) \in Keys
    BY <1>3, <1>a, IntentsHaveKeys DEF InsertClaim, Insert, InsertLost, OwnsOperation
  <2>1. CASE Insert(d)
    <3>1. caller'[d] = Evaluate(d, caller[d].intent, caller[d].approval, "PROPOSED", 0)
      BY <2>1 DEF Insert, TypeOK, Evaluate
    <3>2. claimed'[caller[d].intent.key] = caller[d].intent
      BY <2>0, <2>1 DEF Insert, TypeOK
    <3>3. "PROPOSED" \in States \ PassiveRetryStates
      BY DEF States, PassiveRetryStates
    <3> QED BY <2>0, <3>1, <3>2, <3>3, <1>e
  <2>2. CASE InsertLost(d)
    <3>1. CASE Resumable(caller[d].intent)
      <4>1. caller'[d] = Evaluate(d, caller[d].intent, caller[d].approval, state[KeyOf(d)], 0)
        BY <2>2, <3>1 DEF InsertLost, TypeOK, Evaluate
      <4>2. /\ claimed'[caller[d].intent.key] = caller[d].intent
            /\ state[KeyOf(d)] \in States \ PassiveRetryStates
        BY <2>0, <2>2, <3>1 DEF InsertLost, Resumable, TypeOK, store
      <4> QED BY <2>0, <4>1, <4>2, <1>e
    <3>2. CASE ~Resumable(caller[d].intent)
      BY <2>2, <3>2, <1>d DEF InsertLost, Return, TypeOK
    <3> QED BY <3>1, <3>2
  <2> QED BY <1>3, <2>1, <2>2 DEF InsertClaim
<1>4. CASE LoadCore(d)
  <2>1. claimed' = claimed /\ verdict \in Verdicts
    BY <1>4 DEF LoadCore, store, TypeOK
  <2>2. /\ caller'[d].intent = caller[d].intent /\ caller'[d].seen = caller[d].seen
        /\ caller'[d].approval = caller[d].approval /\ caller'[d].core = verdict
        /\ caller'[d].presented = caller[d].presented
        /\ caller'[d].pc = IF caller[d].presented = "unread" THEN "load" ELSE "evaluate"
    BY <1>4, <1>a DEF LoadCore, TypeOK, Call
  <2>3. caller[d].presented # "unread" => caller[d].presented \in Standings
    BY <1>a DEF Call
  <2> QED BY <1>4, <1>a, <2>1, <2>2, <2>3 DEF OwnsOperation, LoadCore
<1>5. CASE LoadApproval(d)
  <2>1. claimed' = claimed
    BY <1>5 DEF LoadApproval, store
  <2>2. /\ caller'[d].intent = caller[d].intent /\ caller'[d].seen = caller[d].seen
        /\ caller'[d].approval = caller[d].approval /\ caller'[d].core = caller[d].core
        /\ caller'[d].presented = (IF caller[d].approval = NoApproval THEN "none"
                                  ELSE standing[caller[d].approval])
        /\ caller'[d].pc = IF caller[d].core = "unread" THEN "load" ELSE "evaluate"
    BY <1>5, <1>a DEF LoadApproval, TypeOK, Call
  <2>3. caller'[d].presented \in Standings
    BY <1>a, <2>2 DEF Call, TypeOK, Standings
  <2>4. caller[d].core # "unread" => caller[d].core \in Verdicts
    BY <1>a DEF Call
  <2> QED BY <1>5, <1>a, <2>1, <2>2, <2>3, <2>4 DEF OwnsOperation, LoadApproval
<1>6. CASE EvaluateCore(d)
  <2>1. CASE caller'[d] = Idle
    BY <2>1, <1>d
  <2>2. CASE caller'[d] # Idle
    <3>1. /\ caller'[d].intent = caller[d].intent /\ caller'[d].seen = caller[d].seen
          /\ caller'[d].approval = caller[d].approval
          /\ caller'[d].presented = caller[d].presented
          /\ caller'[d].pc \in {"permit", "move"}
      <4>1. CASE caller[d].core = "REVIEW" /\ caller[d].seen = "REVIEW"
        BY <1>6, <2>2, <4>1 DEF EvaluateCore, Return, TypeOK
      <4>2. CASE caller[d].core = "ALLOW" /\ caller[d].seen = "VALIDATED"
        <5>1. caller'[d] = [caller[d] EXCEPT !.pc = "permit", !.core = "unread"]
          BY <1>6, <4>2 DEF EvaluateCore, TypeOK
        <5> QED BY <1>a, <5>1 DEF Call
      <4>3. CASE /\ ~(caller[d].core = "REVIEW" /\ caller[d].seen = "REVIEW")
                 /\ ~(caller[d].core = "ALLOW" /\ caller[d].seen = "VALIDATED")
        <5>1. caller'[d] = [caller[d] EXCEPT !.pc = "move", !.core = "unread",
                              !.target = Target(caller[d].core, "VALIDATED")]
          BY <1>6, <4>3 DEF EvaluateCore, TypeOK
        <5> QED BY <1>a, <5>1 DEF Call
      <4> QED BY <4>1, <4>2, <4>3
    <3>2. claimed' = claimed
      BY <1>6 DEF EvaluateCore
    <3> QED BY <1>6, <1>a, <3>1, <3>2 DEF OwnsOperation, EvaluateCore
  <2> QED BY <2>1, <2>2
<1>7. CASE EvaluatePermission(d)
  <2>1. /\ caller'[d].intent = caller[d].intent /\ caller'[d].seen = caller[d].seen
        /\ caller'[d].presented = "unread" /\ caller'[d].pc = "move"
        /\ caller'[d].target = Target(PermissionVerdict(d), "AUTHORIZED")
    BY <1>7, <1>a DEF EvaluatePermission, TypeOK, Call
  <2>2. claimed' = claimed
    BY <1>7 DEF EvaluatePermission
  <2>3. caller'[d].target # "VALIDATED"
    BY <2>1 DEF Target
  <2> QED BY <1>7, <1>a, <2>1, <2>2, <2>3 DEF OwnsOperation, EvaluatePermission, Standings
<1>8. CASE Move(d)
  <2>0. caller[d].intent \in Intents /\ KeyOf(d) \in Keys /\ Works(d)
    BY <1>8, <1>a, IntentsHaveKeys DEF Move, MoveUnchanged, MoveApplied, MoveStale, OwnsOperation
  <2>1. claimed' = claimed
    BY <1>8 DEF Move, MoveUnchanged, MoveApplied, MoveStale, store
  <2>2. CASE MoveUnchanged(d) \/ MoveApplied(d)
    <3>1. CASE caller[d].target = "VALIDATED"
      <4>1. /\ caller'[d].intent = caller[d].intent /\ caller'[d].seen = "VALIDATED"
            /\ caller'[d].approval = caller[d].approval
            /\ caller'[d].presented = caller[d].presented /\ caller'[d].pc = "permit"
        <5>1. caller'[d] = [caller[d] EXCEPT !.pc = "permit", !.seen = "VALIDATED"]
          BY <2>2, <3>1 DEF MoveUnchanged, MoveApplied, Moved, TypeOK
        <5> QED BY <1>a, <5>1 DEF Call
      <4>2. caller[d].presented \in Standings
        BY <1>a, <2>2, <3>1 DEF OwnsOperation, MoveUnchanged, MoveApplied
      <4>3. claimed'[KeyOf(d)] = caller[d].intent
        BY <1>a, <2>0, <2>1 DEF OwnsOperation
      <4>4. caller[d].approval = NoApproval => caller[d].presented = "none"
        BY <1>a, <4>2 DEF OwnsOperation
      <4> QED BY <2>0, <4>1, <4>2, <4>3, <4>4 DEF OwnsOperation, PassiveRetryStates
    <3>2. CASE caller[d].target # "VALIDATED"
      BY <2>2, <3>2, <1>d DEF MoveUnchanged, MoveApplied, Moved, Return, TypeOK
    <3> QED BY <3>1, <3>2
  <2>3. CASE MoveStale(d)
    <3>1. CASE caller[d].tries < 3 /\ state[KeyOf(d)] \notin PassiveRetryStates
      <4>1. caller'[d] = Evaluate(d, caller[d].intent, caller[d].approval, state[KeyOf(d)],
                                  caller[d].tries + 1)
        BY <2>3, <3>1 DEF MoveStale, TypeOK, Evaluate
      <4>2. claimed'[caller[d].intent.key] = caller[d].intent
        BY <1>a, <2>0, <2>1 DEF OwnsOperation
      <4>3. state[KeyOf(d)] \in States \ PassiveRetryStates
        BY <2>0, <3>1 DEF TypeOK
      <4> QED BY <2>0, <4>1, <4>2, <4>3, <1>e
    <3>2. CASE ~(caller[d].tries < 3 /\ state[KeyOf(d)] \notin PassiveRetryStates)
      BY <2>3, <3>2, <1>d DEF MoveStale, Return, TypeOK
    <3> QED BY <3>1, <3>2
  <2> QED BY <1>8, <2>2, <2>3 DEF Move
<1>9. ASSUME NEW c \in Callers, Crash(c) PROVE OwnsOperation(d)'
  BY <1>9, <1>c, <1>d DEF Crash, Return, TypeOK
<1>10. CASE caller' = caller
  BY <1>10, <1>c
<1>11. ASSUME NEW c \in Callers, Step(c) PROVE OwnsOperation(d)'
  BY <1>2, <1>3, <1>4, <1>5, <1>6, <1>7, <1>8, <1>11 DEF Step, Load
<1> QED BY <1>1, <1>9, <1>10, <1>11 DEF Next, Refresh, WorldChanges, Approve, ApprovalEnds,
        Executes, vars

\* Each gate records its decision before the call asks for the transition.
LEMMA GroundsStep ==
  TypeOK /\ CallsOwnTheirOperation /\ MovesHaveGrounds /\ [Next]_vars => MovesHaveGrounds'
<1> SUFFICES ASSUME TypeOK, CallsOwnTheirOperation, MovesHaveGrounds, [Next]_vars,
                    NEW d \in Callers, caller'[d].pc = "move"
             PROVE Grounds(d)'
  BY DEF MovesHaveGrounds
<1> USE DEF At, Set, KeyOf
<1>a. caller[d] \in Call /\ (caller[d].pc # "idle" => KeyOf(d) \in Keys)
  BY IntentsHaveKeys DEF CallsOwnTheirOperation, OwnsOperation, TypeOK
<1>b. CASE caller'[d] = caller[d]
  <2>1. Grounds(d)
    BY <1>b DEF MovesHaveGrounds
  <2>2. decisions[KeyOf(d)] \subseteq decisions'[KeyOf(d)]
    BY <1>a, <1>b, DecisionsGrow
  <2> QED BY <1>b, <2>1, <2>2 DEF Grounds
<1>c. caller'[d] # Idle
  BY DEF Idle
<1>d. ASSUME NEW i, NEW a, NEW s, NEW n, caller'[d] = Evaluate(d, i, a, s, n) PROVE FALSE
  BY <1>d DEF Evaluate, Idle
<1>1. ASSUME NEW c \in Callers, NEW i \in Intents, NEW a \in Presented, Submit(c, i, a)
      PROVE Grounds(d)'
  <2>1. CASE d # c
    BY <1>1, <1>b, <2>1 DEF Submit, Resume, LookupNothing, TypeOK
  <2>2. CASE d = c
    BY <1>1, <2>2 DEF Submit, Resume, LookupNothing, TypeOK, Evaluate, Idle
  <2> QED BY <2>1, <2>2
<1>2. ASSUME NEW c \in Callers, Step(c), d # c PROVE Grounds(d)'
  BY <1>2, <1>b DEF Step, InsertClaim, Load, Move, Insert, InsertLost, LoadCore, LoadApproval,
     EvaluateCore, EvaluatePermission, MoveUnchanged, MoveApplied, MoveStale, Moved, Return, TypeOK
<1>3. CASE InsertClaim(d) \/ Load(d)
  <2>1. CASE InsertClaim(d)
    BY <2>1, <1>c, <1>d DEF InsertClaim, Insert, InsertLost, Return, TypeOK
  <2>2. CASE LoadCore(d)
    <3>1. caller'[d].pc = IF caller[d].presented = "unread" THEN "load" ELSE "evaluate"
      BY <2>2, <1>a DEF LoadCore, TypeOK, Call
    <3> QED BY <3>1
  <2>3. CASE LoadApproval(d)
    <3>1. caller'[d].pc = IF caller[d].core = "unread" THEN "load" ELSE "evaluate"
      BY <2>3, <1>a DEF LoadApproval, TypeOK, Call
    <3> QED BY <3>1
  <2> QED BY <1>3, <2>1, <2>2, <2>3 DEF Load
<1>4. CASE EvaluateCore(d)
  <2> DEFINE v == caller[d].core
             recorded == [by |-> "core", verdict |-> v, approval |-> NoApproval]
  <2>1. caller'[d] # [caller[d] EXCEPT !.pc = "permit", !.core = "unread"]
    BY <1>a DEF Call
  <2>2. /\ caller'[d] = [caller[d] EXCEPT !.pc = "move", !.core = "unread",
                          !.target = Target(v, "VALIDATED")]
        /\ ~(v = "ALLOW" /\ caller[d].seen = "VALIDATED")
    BY <1>4, <1>c, <2>1 DEF EvaluateCore, Return, TypeOK
  <2>3. /\ caller'[d].target = Target(v, "VALIDATED")
        /\ caller'[d].intent = caller[d].intent
    BY <1>a, <2>2 DEF Call
  <2>4. recorded \in decisions'[KeyOf(d)]
    BY <1>4, <1>a DEF EvaluateCore, Decide, TypeOK
  <2>5. v \in Verdicts
    BY <1>4 DEF EvaluateCore, CallsOwnTheirOperation, OwnsOperation
  <2>6. \E r \in decisions'[KeyOf(d)] : r.by = "core" /\ r.verdict = v
    BY <2>4
  <2> HIDE DEF recorded
  <2> QED BY <2>3, <2>5, <2>6 DEF Grounds, Target, Verdicts
<1>5. CASE EvaluatePermission(d)
  <2> DEFINE v == PermissionVerdict(d)
             a == caller[d].approval
             recorded == [by |-> "permission", verdict |-> v, approval |-> a]
  <2>1. caller'[d] = [caller[d] EXCEPT !.pc = "move", !.presented = "unread",
                        !.target = Target(v, "AUTHORIZED")]
    BY <1>5 DEF EvaluatePermission, TypeOK
  <2>2. /\ caller'[d].target = Target(v, "AUTHORIZED")
        /\ caller'[d].intent = caller[d].intent
        /\ caller'[d].approval = a
    BY <1>a, <2>1 DEF Call
  <2>3. recorded \in decisions'[KeyOf(d)]
    BY <1>5, <1>a DEF EvaluatePermission, Decide, TypeOK
  <2>4. \E r \in decisions'[KeyOf(d)] : r.by = "permission" /\ r.verdict = v /\ r.approval = a
    BY <2>3
  <2>5. v \in Verdicts
    BY DEF PermissionVerdict, Verdicts
  <2>6. v = "ALLOW" => Approves[a] = caller[d].intent.content
    BY DEF PermissionVerdict
  <2> HIDE DEF recorded, v
  <2> QED BY <2>2, <2>4, <2>5, <2>6 DEF Grounds, Target, Verdicts
<1>6. CASE Move(d)
  <2>1. caller'[d] # [caller[d] EXCEPT !.pc = "permit", !.seen = "VALIDATED"]
    BY <1>a DEF Call
  <2> QED BY <1>6, <1>c, <1>d, <2>1 DEF Move, MoveUnchanged, MoveApplied, MoveStale, Moved, Return,
          TypeOK
<1>7. ASSUME NEW c \in Callers, Crash(c) PROVE Grounds(d)'
  BY <1>7, <1>b, <1>c DEF Crash, Return, TypeOK
<1>8. CASE caller' = caller
  BY <1>8, <1>b
<1>9. ASSUME NEW c \in Callers, Step(c) PROVE Grounds(d)'
  BY <1>2, <1>3, <1>4, <1>5, <1>6, <1>9 DEF Step
<1> QED BY <1>1, <1>7, <1>8, <1>9 DEF Next, Refresh, WorldChanges, Approve, ApprovalEnds,
        Executes, vars

\* A state that a step leaves alone keeps its explanation, and a new one has the
\* ground of the call that asked for it.
LEMMA ExplainedStep ==
  IInv /\ [Next]_vars => DecisionsExplain'
<1> SUFFICES ASSUME IInv, [Next]_vars, NEW k \in Keys
             PROVE Explained(k)'
  BY DEF DecisionsExplain
<1> USE DEF IInv, At, KeyOf
<1>a. Explained(k) /\ decisions[k] \subseteq decisions'[k]
  BY DecisionsGrow DEF DecisionsExplain
<1>b. CASE state'[k] = state[k] /\ approval'[k] = approval[k] /\ claimed'[k] = claimed[k]
  BY <1>a, <1>b DEF Explained
<1>1. ASSUME NEW c \in Callers, Insert(c) PROVE Explained(k)'
  <2>1. CASE k = KeyOf(c)
    <3>1. state'[k] = "PROPOSED"
      BY <1>1, <2>1 DEF Insert, UnclaimedIsNew
    <3> QED BY <3>1 DEF Explained
  <2>2. CASE k # KeyOf(c)
    BY <1>1, <1>b, <2>2 DEF Insert, TypeOK
  <2> QED BY <2>1, <2>2
<1>2. ASSUME NEW c \in Callers, MoveApplied(c) PROVE Explained(k)'
  <2>1. CASE k = KeyOf(c)
    <3>1. Grounds(c) /\ claimed[k] = caller[c].intent /\ caller[c].target \in IntakeTargets
      BY <1>2, <2>1 DEF MoveApplied, MovesHaveGrounds, CallsOwnTheirOperation, OwnsOperation,
         Works, WorkPoints, TypeOK, Call
    <3>2. /\ state'[k] = caller[c].target /\ decisions' = decisions /\ claimed' = claimed
          /\ caller[c].target = "AUTHORIZED" => approval'[k] = caller[c].approval
      BY <1>2, <2>1 DEF MoveApplied, TypeOK
    <3> QED BY <2>1, <3>1, <3>2 DEF Explained, Grounds, IntakeTargets
  <2>2. CASE k # KeyOf(c)
    BY <1>2, <1>b, <2>2 DEF MoveApplied, TypeOK
  <2> QED BY <2>1, <2>2
<1>3. ASSUME NEW batch \in SUBSET Keys, NEW fresh \in [batch -> Approvals], Refresh(batch, fresh)
      PROVE Explained(k)'
  <2>1. CASE k \in batch
    <3> DEFINE recorded == [by |-> "refresh", verdict |-> "ALLOW", approval |-> fresh[k]]
    <3>1. /\ state'[k] = "AUTHORIZED" /\ approval'[k] = fresh[k] /\ claimed'[k] = claimed[k]
          /\ Approves[fresh[k]] = claimed[k].content
          /\ recorded \in decisions'[k]
      BY <1>3, <2>1 DEF Refresh
    <3>2. \E r \in decisions'[k] : r.by = "refresh" /\ r.verdict = "ALLOW" /\ r.approval = fresh[k]
      BY <3>1
    <3> QED BY <3>1, <3>2 DEF Explained
  <2>2. CASE k \notin batch
    BY <1>3, <1>b, <2>2 DEF Refresh
  <2> QED BY <2>1, <2>2
<1>4. ASSUME NEW j \in Keys, NEW to \in States, Executes(j, to) PROVE Explained(k)'
  <2>1. CASE k = j
    <3>1. state'[k] = to /\ to \notin {"AUTHORIZED", "VALIDATED"}
      BY <1>4, <2>1 DEF Executes, TypeOK, Permitted, PassiveRetryStates, States
    <3>2. to = "REVIEW" => \E r \in decisions'[k] : r.verdict = "REVIEW"
      <4>1. to = "REVIEW" => [by |-> "dispatch", verdict |-> "REVIEW", approval |-> NoApproval]
                               \in decisions'[k]
        BY <1>4, <2>1 DEF Executes, Decide, TypeOK
      <4> QED BY <4>1
    <3>3. to = "DENIED" => \E r \in decisions'[k] : r.verdict = "DENY"
      <4>1. to = "DENIED" => [by |-> "dispatch", verdict |-> "DENY", approval |-> NoApproval]
                               \in decisions'[k]
        BY <1>4, <2>1 DEF Executes, Decide, TypeOK
      <4> QED BY <4>1
    <3> QED BY <3>1, <3>2, <3>3 DEF Explained
  <2>2. CASE k # j
    BY <1>4, <1>b, <2>2 DEF Executes, TypeOK
  <2> QED BY <2>1, <2>2
<1>5. CASE state' = state /\ approval' = approval /\ claimed' = claimed
  BY <1>5, <1>b
<1> QED BY <1>1, <1>2, <1>3, <1>4, <1>5 DEF Next, Step, Submit, InsertClaim, Load, Move, Resume,
        LookupNothing, InsertLost, LoadCore, LoadApproval, EvaluateCore, EvaluatePermission,
        MoveUnchanged, MoveStale, Crash, WorldChanges, Approve, ApprovalEnds, store, vars

----------------------------------------------------------------------------
(***************************************************************************)
(* The theorems.                                                           *)
(***************************************************************************)

LEMMA IInvInit == Init => IInv
<1> SUFFICES ASSUME Init PROVE IInv
  OBVIOUS
<1>1. TypeOK
  <2>1. caller \in [Callers -> Call]
    BY IdleTyped DEF Init
  <2>2. standing \in [Approvals -> Standings]
    BY DEF Init, Standings
  <2> QED BY <2>1, <2>2, ConstantsAssumption DEF Init, TypeOK, States
<1>2. CallsOwnTheirOperation
  BY DEF Init, CallsOwnTheirOperation, OwnsOperation, Works, WorkPoints, Idle, Standings
<1>3. MovesHaveGrounds
  BY DEF Init, MovesHaveGrounds, Idle
<1>4. UnclaimedIsNew /\ OneOperationPerClaim /\ DecisionsExplain
  BY DEF Init, UnclaimedIsNew, OneOperationPerClaim, DecisionsExplain, Explained, Exists
<1> QED BY <1>1, <1>2, <1>3, <1>4 DEF IInv

LEMMA IInvStep == IInv /\ [Next]_vars => IInv'
BY TypeOKStep, CallsOwnStep, GroundsStep, UnclaimedStep, OneOperationStep, ExplainedStep DEF IInv

\* The inductive invariant of submit() and its procedures: a call works on the
\* operation it claimed, and asks only for what a recorded decision permits.
THEOREM Invariant == Spec => []IInv
BY IInvInit, IInvStep, PTL DEF Spec

\* Every variable keeps its type, for any number of calls and operations.
THEOREM TypeCorrect == Spec => []TypeOK
<1>1. IInv => TypeOK
  BY DEF IInv
<1> QED BY Invariant, <1>1, PTL

\* However many calls race to claim it, a business effect has one operation
\* (claim_posting_operation_v1).
THEOREM ClaimedOnce == Spec => []OneOperationPerClaim
<1>1. IInv => OneOperationPerClaim
  BY DEF IInv
<1> QED BY Invariant, <1>1, PTL

\* An authorized operation carries an approval of exactly its fingerprint which a
\* recorded decision allowed, and every other state of intake its decision too.
THEOREM StatesAreExplained == Spec => []DecisionsExplain
<1>1. IInv => DecisionsExplain
  BY DEF IInv
<1> QED BY Invariant, <1>1, PTL

\* A late call of submit() moves no operation that left intake, however long ago
\* it read the state: only execution does.
THEOREM OnlyExecutionMoves == Spec => PassiveIsLeftAlone
<1> DEFINE Moves == \A k \in Keys :
             Exists(k) /\ state[k] \in PassiveRetryStates /\ state'[k] # state[k]
               => \E to \in States : Executes(k, to)
<1>1. IInv /\ [Next]_vars => [Moves]_vars
  <2> SUFFICES ASSUME IInv, [Next]_vars, NEW k \in Keys,
                      state[k] \in PassiveRetryStates, state'[k] # state[k]
               PROVE \E to \in States : Executes(k, to)
    OBVIOUS
  <2> USE DEF IInv
  <2>1. ASSUME NEW c \in Callers, MoveApplied(c) PROVE FALSE
    BY <2>1 DEF MoveApplied, At, Works, WorkPoints, CallsOwnTheirOperation, OwnsOperation, TypeOK
  <2>2. ASSUME NEW j \in Keys, NEW to \in States, Executes(j, to)
        PROVE \E t \in States : Executes(k, t)
    BY <2>2 DEF Executes, TypeOK
  <2>3. state' # state
    OBVIOUS
  <2> QED BY <2>1, <2>2, <2>3 DEF Next, Step, Submit, InsertClaim, Load, Move, Resume, LookupNothing,
          Insert, InsertLost, LoadCore, LoadApproval, EvaluateCore, EvaluatePermission,
          MoveUnchanged, MoveStale, Crash, Refresh, WorldChanges, Approve, ApprovalEnds, store, vars
<1> QED BY Invariant, <1>1, PTL DEF Spec, PassiveIsLeftAlone
=============================================================================
