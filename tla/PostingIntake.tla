---------------------------- MODULE PostingIntake ----------------------------
(***************************************************************************)
(* The intake of posting operations: AuthoritativePostingService.submit    *)
(* with the procedures of migrations 015 and 018 it calls, and the refresh *)
(* of a human authorization (migration 025).  Concurrent calls, each with  *)
(* an intent and maybe a human approval, claim one durable operation and   *)
(* move it up to AUTHORIZED, while memberships, evidence, mappings and     *)
(* approvals change and the execution of authorized operations goes on.    *)
(*                                                                         *)
(*   claimed   the intent of the posting operation under each scoped key   *)
(*   state     its current_state                                           *)
(*   approval  its human_authorization_id                                  *)
(*   decisions the decisions its posting_events record                     *)
(*   verdict   what the core safety gate would say now                     *)
(*   standing  what became of each row of posting_human_authorizations     *)
(*   caller    the local variables of each call of submit()                *)
(*   drifts    how often the environment interfered, to bound it           *)
(*                                                                         *)
(* A claim that is refused (DESTINATION_REJECTED, IDEMPOTENCY_CONFLICT,    *)
(* DUPLICATE_CREATE_CLAIM) and a retry in a passive state answer without a *)
(* write and are stuttering steps.                                         *)
(***************************************************************************)
EXTENDS PostingStates, Naturals, FiniteSets

CONSTANTS
  Keys,      \* scoped idempotency keys
  Claims,    \* source/action claims of CREATE intents
  Contents,  \* authorized-request fingerprints
  Intents,   \* what callers submit: a key, a claim and a content
  Approvals, \* ids of human authorizations
  Presented, \* approvals a call may present, NoApproval among them or not;
             \* the others are the ids of refreshed approvals
  Callers,   \* concurrent calls of submit()
  NoIntent, NoApproval,
  MaxDrifts  \* bound on changes of the world, expiries and crashes

\* The fingerprint a human approved under each approval id.
CONSTANT Approves

Verdicts == {"ALLOW", "REVIEW", "DENY"}

\* An intent in its canonical form: under which key it is sent, the source and
\* action it claims, and the fingerprint of what is to be authorized.
Intent == [key : Keys, claim : Claims, content : Contents]

ASSUME ConstantsAssumption ==
  /\ Intents \subseteq Intent
  /\ Approves \in [Approvals -> Contents]
  /\ Presented \subseteq Approvals \cup {NoApproval}
  /\ NoIntent \notin Intents /\ NoApproval \notin Approvals
  /\ MaxDrifts \in Nat

VARIABLES claimed, state, approval, decisions, verdict, standing, caller, drifts

store == <<claimed, state, approval, decisions>>
world == <<verdict, standing>>
vars == <<store, world, caller, drifts>>

Standings == {"none", "valid", "expired", "revoked"}
Decision == [by : {"core", "permission", "dispatch", "refresh"}, verdict : Verdicts,
             approval : Approvals \cup {NoApproval}]

\* seen is operation.currentState, core and presented what
\* loadValidationContext read and no gate has used yet, target the state to
\* move to.
Points == {"idle", "insert", "load", "evaluate", "permit", "move", "reload"}
Call == [pc : Points, intent : Intents \cup {NoIntent},
         approval : Approvals \cup {NoApproval}, seen : States, tries : 0..3,
         core : Verdicts \cup {"unread"}, presented : Standings \cup {"unread"},
         target : IntakeTargets]
Idle == [pc |-> "idle", intent |-> NoIntent, approval |-> NoApproval,
         seen |-> "PROPOSED", tries |-> 0, core |-> "unread",
         presented |-> "unread", target |-> "REVIEW"]

TypeOK ==
  /\ claimed \in [Keys -> Intents \cup {NoIntent}]
  /\ state \in [Keys -> States]
  /\ approval \in [Keys -> Approvals \cup {NoApproval}]
  /\ decisions \in [Keys -> SUBSET Decision]
  /\ verdict \in Verdicts
  /\ standing \in [Approvals -> Standings]
  /\ caller \in [Callers -> Call]
  /\ drifts \in 0..MaxDrifts

Init ==
  /\ claimed = [k \in Keys |-> NoIntent]
  /\ state = [k \in Keys |-> "PROPOSED"]
  /\ approval = [k \in Keys |-> NoApproval]
  /\ decisions = [k \in Keys |-> {}]
  /\ verdict \in Verdicts
  /\ standing \in {f \in [Approvals -> {"none", "valid"}] :
                    \A a \in Approvals \ Presented : f[a] = "none"}
  /\ caller = [c \in Callers |-> Idle]
  /\ drifts = 0

----------------------------------------------------------------------------
Exists(k) == claimed[k] # NoIntent
At(c, pc) == caller[c].pc = pc
KeyOf(c) == caller[c].intent.key

\* The operation that holds the source/action claim of intent i.
ClaimTaken(i) == \E k \in Keys : Exists(k) /\ claimed[k].claim = i.claim

Set(c, r) == caller' = [caller EXCEPT ![c] = r]
Return(c) == Set(c, Idle)

\* The loop starts (again) with the operation in state s.
Evaluate(c, i, a, s, n) ==
  [Idle EXCEPT !.pc = "load", !.intent = i, !.approval = a, !.seen = s, !.tries = n]

Decide(k, by, v, a) ==
  decisions' = [decisions EXCEPT ![k] = @ \cup {[by |-> by, verdict |-> v, approval |-> a]}]

Drift == drifts < MaxDrifts /\ drifts' = drifts + 1

----------------------------------------------------------------------------
(***************************************************************************)
(* claim_posting_operation_v1.  Its lookup and its insert are statements   *)
(* of one transaction that see what others committed in between; the       *)
(* unique indexes on the key and on the claim decide the insert.           *)
(***************************************************************************)
\* The claim answers with the operation, and there is something left to do.
Resumable(i) == claimed[i.key] = i /\ state[i.key] \notin PassiveRetryStates

Resume(c, i, a) ==
  /\ At(c, "idle")
  /\ Resumable(i)
  /\ Set(c, Evaluate(c, i, a, state[i.key], 0))
  /\ UNCHANGED <<store, world, drifts>>

LookupNothing(c, i, a) ==
  /\ At(c, "idle")
  /\ ~Exists(i.key) /\ ~ClaimTaken(i)
  /\ Set(c, [Idle EXCEPT !.pc = "insert", !.intent = i, !.approval = a])
  /\ UNCHANGED <<store, world, drifts>>

\* Bug: ON CONFLICT names the unique index on the key only, and the claim is
\* left to the lookup.
Bug_InsertByKey(c) ==
  /\ At(c, "insert")
  /\ ~Exists(KeyOf(c))
  /\ claimed' = [claimed EXCEPT ![KeyOf(c)] = caller[c].intent]
  /\ Set(c, Evaluate(c, caller[c].intent, caller[c].approval, "PROPOSED", 0))
  /\ UNCHANGED <<state, approval, decisions, world, drifts>>

Insert(c) ==
  /\ At(c, "insert")
  /\ ~Exists(KeyOf(c)) /\ ~ClaimTaken(caller[c].intent)
  /\ claimed' = [claimed EXCEPT ![KeyOf(c)] = caller[c].intent]
  /\ Set(c, Evaluate(c, caller[c].intent, caller[c].approval, "PROPOSED", 0))
  /\ UNCHANGED <<state, approval, decisions, world, drifts>>

\* The insert met a committed winner: the lookup is repeated.
InsertLost(c) ==
  /\ At(c, "insert")
  /\ Exists(KeyOf(c)) \/ ClaimTaken(caller[c].intent)
  /\ IF Resumable(caller[c].intent)
     THEN Set(c, Evaluate(c, caller[c].intent, caller[c].approval, state[KeyOf(c)], 0))
     ELSE Return(c)
  /\ UNCHANGED <<store, world, drifts>>

----------------------------------------------------------------------------
(***************************************************************************)
(* loadValidationContext: reads that run concurrently.                     *)
(***************************************************************************)
LoadCore(c) ==
  /\ At(c, "load")
  /\ caller[c].core = "unread"
  /\ Set(c, [caller[c] EXCEPT !.core = verdict,
               !.pc = IF caller[c].presented = "unread" THEN "load" ELSE "evaluate"])
  /\ UNCHANGED <<store, world, drifts>>

LoadApproval(c) ==
  /\ At(c, "load")
  /\ caller[c].presented = "unread"
  /\ Set(c, [caller[c] EXCEPT
               !.presented = IF caller[c].approval = NoApproval THEN "none"
                             ELSE standing[caller[c].approval],
               !.pc = IF caller[c].core = "unread" THEN "load" ELSE "evaluate"])
  /\ UNCHANGED <<store, world, drifts>>

\* Step5DeterministicPermissionGate.evaluate, the core gate allowing.
PermissionVerdict(c) ==
  CASE caller[c].presented = "none" -> "REVIEW"
    [] Approves[caller[c].approval] # caller[c].intent.content -> "REVIEW"
    [] caller[c].presented = "expired" -> "REVIEW"
    [] caller[c].presented = "revoked" -> "DENY"
    [] OTHER -> "ALLOW"

Target(v, onAllow) == CASE v = "ALLOW" -> onAllow [] v = "DENY" -> "DENIED" [] OTHER -> "REVIEW"

\* Bug: an operation under review waits for nothing but a new intent.
Bug_ReviewIsPassive(c) ==
  LET v == caller[c].core IN
  /\ At(c, "evaluate")
  /\ Decide(KeyOf(c), "core", v, NoApproval)
  /\ CASE caller[c].seen = "REVIEW" -> Return(c)
       [] v = "ALLOW" /\ caller[c].seen = "VALIDATED" ->
            Set(c, [caller[c] EXCEPT !.pc = "permit", !.core = "unread"])
       [] OTHER -> Set(c, [caller[c] EXCEPT !.pc = "move", !.core = "unread",
                                            !.target = Target(v, "VALIDATED")])
  /\ UNCHANGED <<claimed, state, approval, world, drifts>>

\* Bug: an operation found VALIDATED is taken as permitted.
Bug_ValidatedIsPermitted(c) ==
  LET v == caller[c].core IN
  /\ At(c, "evaluate")
  /\ Decide(KeyOf(c), "core", v, NoApproval)
  /\ CASE v = "REVIEW" /\ caller[c].seen = "REVIEW" -> Return(c)
       [] v = "ALLOW" /\ caller[c].seen = "VALIDATED" ->
            Set(c, [caller[c] EXCEPT !.pc = "move", !.target = "AUTHORIZED"])
       [] OTHER -> Set(c, [caller[c] EXCEPT !.pc = "move", !.core = "unread",
                                            !.target = Target(v, "VALIDATED")])
  /\ UNCHANGED <<claimed, state, approval, world, drifts>>

\* CorePostingSafetyGate and the decision it records.
EvaluateCore(c) ==
  LET v == caller[c].core IN
  /\ At(c, "evaluate")
  /\ Decide(KeyOf(c), "core", v, NoApproval)
  /\ CASE v = "REVIEW" /\ caller[c].seen = "REVIEW" -> Return(c)
       [] v = "ALLOW" /\ caller[c].seen = "VALIDATED" ->
            Set(c, [caller[c] EXCEPT !.pc = "permit", !.core = "unread"])
       [] OTHER -> Set(c, [caller[c] EXCEPT !.pc = "move", !.core = "unread",
                                            !.target = Target(v, "VALIDATED")])
  /\ UNCHANGED <<claimed, state, approval, world, drifts>>

EvaluatePermission(c) ==
  /\ At(c, "permit")
  /\ Decide(KeyOf(c), "permission", PermissionVerdict(c), caller[c].approval)
  /\ Set(c, [caller[c] EXCEPT !.pc = "move", !.presented = "unread",
               !.target = Target(PermissionVerdict(c), "AUTHORIZED")])
  /\ UNCHANGED <<claimed, state, approval, world, drifts>>

----------------------------------------------------------------------------
(***************************************************************************)
(* transition_posting_operation_v1 with the state the call has seen.       *)
(***************************************************************************)
Moved(c) ==
  IF caller[c].target = "VALIDATED"
  THEN Set(c, [caller[c] EXCEPT !.pc = "permit", !.seen = "VALIDATED"])
  ELSE Return(c)

MoveUnchanged(c) ==
  /\ At(c, "move")
  /\ state[KeyOf(c)] = caller[c].target
  /\ Moved(c)
  /\ UNCHANGED <<store, world, drifts>>

\* Bug: the transition table is checked, the expected state is not.
Bug_NoExpectedState(c) ==
  LET k == KeyOf(c) IN
  /\ At(c, "move")
  /\ state[k] # caller[c].target
  /\ caller[c].target \in Permitted[state[k]]
  /\ state' = [state EXCEPT ![k] = caller[c].target]
  /\ approval' = [approval EXCEPT ![k] =
       IF caller[c].target = "AUTHORIZED" THEN caller[c].approval ELSE @]
  /\ Moved(c)
  /\ UNCHANGED <<claimed, decisions, world, drifts>>

\* The foreign key on human_authorization_id refuses no approval that the
\* permission gate has compared with the fingerprint.
MoveApplied(c) ==
  LET k == KeyOf(c) IN
  /\ At(c, "move")
  /\ state[k] # caller[c].target
  /\ state[k] = caller[c].seen
  /\ caller[c].target \in Permitted[state[k]]
  /\ state' = [state EXCEPT ![k] = caller[c].target]
  /\ approval' = [approval EXCEPT ![k] =
       IF caller[c].target = "AUTHORIZED" THEN caller[c].approval ELSE @]
  /\ Moved(c)
  /\ UNCHANGED <<claimed, decisions, world, drifts>>

\* STALE: the loop goes on with the state another call left, four times.
MoveStale(c) ==
  LET k == KeyOf(c) IN
  /\ At(c, "move")
  /\ state[k] # caller[c].target
  /\ state[k] # caller[c].seen
  /\ IF caller[c].tries < 3 /\ state[k] \notin PassiveRetryStates
     THEN Set(c, Evaluate(c, caller[c].intent, caller[c].approval, state[k],
                          caller[c].tries + 1))
     ELSE Return(c)
  /\ UNCHANGED <<store, world, drifts>>

----------------------------------------------------------------------------
(***************************************************************************)
(* refresh_posting_human_authorizations_v1: every operation of the batch   *)
(* is AUTHORIZED and checked again, and all get a new approval, or none.   *)
(***************************************************************************)

Refresh(batch, fresh) ==
  /\ batch # {}
  /\ verdict = "ALLOW"
  /\ \A k \in batch :
       /\ state[k] = "AUTHORIZED"
       /\ Approves[approval[k]] = claimed[k].content
       /\ standing[fresh[k]] = "none" /\ Approves[fresh[k]] = claimed[k].content
  /\ \A j, k \in batch : fresh[j] = fresh[k] => j = k
  /\ approval' = [k \in Keys |-> IF k \in batch THEN fresh[k] ELSE approval[k]]
  /\ standing' = [a \in Approvals |->
       IF \E k \in batch : fresh[k] = a THEN "valid" ELSE standing[a]]
  /\ decisions' = [k \in Keys |->
       IF k \in batch
       THEN decisions[k] \cup {[by |-> "refresh", verdict |-> "ALLOW", approval |-> fresh[k]]}
       ELSE decisions[k]]
  /\ UNCHANGED <<claimed, state, verdict, caller, drifts>>

----------------------------------------------------------------------------
(***************************************************************************)
(* The environment: the world, the humans who approve, crashes, and the    *)
(* execution of authorized operations (BillExecution has its detail).      *)
(***************************************************************************)
WorldChanges ==
  /\ Drift
  /\ \E v \in Verdicts \ {verdict} : verdict' = v
  /\ UNCHANGED <<store, standing, caller>>

Approve(a) ==
  /\ standing[a] = "none"
  /\ standing' = [standing EXCEPT ![a] = "valid"]
  /\ UNCHANGED <<store, verdict, caller, drifts>>

\* The approval expires, or its approver loses the authority.
ApprovalEnds(a, how) ==
  /\ standing[a] = "valid"
  /\ Drift
  /\ standing' = [standing EXCEPT ![a] = how]
  /\ UNCHANGED <<store, verdict, caller>>

Crash(c) ==
  /\ ~At(c, "idle")
  /\ Drift
  /\ Return(c)
  /\ UNCHANGED <<store, world>>

\* Execution never returns an operation to VALIDATED.
Executes(k, to) ==
  /\ Exists(k)
  /\ state[k] \in PassiveRetryStates
  /\ to \in Permitted[state[k]] \ {"VALIDATED"}
  /\ state' = [state EXCEPT ![k] = to]
  /\ IF to \in {"REVIEW", "DENIED"}
     THEN Decide(k, "dispatch", IF to = "REVIEW" THEN "REVIEW" ELSE "DENY", NoApproval)
     ELSE UNCHANGED decisions
  /\ UNCHANGED <<claimed, approval, world, caller, drifts>>

\* How a call of the store may end.
InsertClaim(c) == Insert(c) \/ InsertLost(c)
Load(c) == LoadCore(c) \/ LoadApproval(c)
Move(c) == MoveUnchanged(c) \/ MoveApplied(c) \/ MoveStale(c)

Step(c) == InsertClaim(c) \/ Load(c) \/ EvaluateCore(c) \/ EvaluatePermission(c) \/ Move(c)

Submit(c, i, a) == Resume(c, i, a) \/ LookupNothing(c, i, a)

Next ==
  \/ \E c \in Callers :
       \/ \E i \in Intents, a \in Presented : Submit(c, i, a)
       \/ Step(c) \/ Crash(c)
  \/ \E batch \in SUBSET Keys : \E fresh \in [batch -> Approvals] : Refresh(batch, fresh)
  \/ WorldChanges
  \/ \E a \in Approvals :
       \/ a \in Presented /\ Approve(a)
       \/ \E how \in {"expired", "revoked"} : ApprovalEnds(a, how)
  \/ \E k \in Keys, to \in States : Executes(k, to)

Spec == Init /\ [][Next]_vars

\* The operation can be authorized as things stand.
Approvable(k) ==
  /\ Exists(k)
  /\ verdict = "ALLOW"
  /\ \E a \in Presented \ {NoApproval} :
       standing[a] = "valid" /\ Approves[a] = claimed[k].content

Resubmitted(k) ==
  Exists(k) /\ \E c \in Callers, a \in Presented \ {NoApproval} :
    /\ standing[a] = "valid" /\ Approves[a] = claimed[k].content
    /\ Resume(c, claimed[k], a)

\* Every started call takes its next step, and a reviewer submits an
\* operation again while an approval for it stands.
Fairness ==
  /\ \A c \in Callers : WF_vars(Step(c))
  /\ \A k \in Keys : SF_vars(Resubmitted(k))

FairSpec == Spec /\ Fairness

----------------------------------------------------------------------------
(***************************************************************************)
(* Correctness.                                                            *)
(***************************************************************************)

\* Two keys never hold the same business effect, whichever calls raced to
\* claim it (claim_posting_operation_v1).
OneOperationPerClaim ==
  \A j, k \in Keys : Exists(j) /\ Exists(k) /\ claimed[j].claim = claimed[k].claim => j = k

\* A late call of submit() never moves an operation that is authorized, in
\* flight or settled: only execution does.
PassiveIsLeftAlone ==
  [][\A k \in Keys :
       Exists(k) /\ state[k] \in PassiveRetryStates /\ state'[k] # state[k]
         => \E to \in States : Executes(k, to)]_vars

\* What authorized an operation is on record: the approval it carries is for
\* exactly its fingerprint and some decision allowed it; a validated, reviewed
\* or denied operation has the decision that put it there.
Explained(k) ==
  CASE state[k] = "AUTHORIZED" ->
         /\ \E d \in decisions[k] : /\ d.by \in {"permission", "refresh"}
                                    /\ d.verdict = "ALLOW" /\ d.approval = approval[k]
         /\ Approves[approval[k]] = claimed[k].content
    [] state[k] = "VALIDATED" -> \E d \in decisions[k] : d.by = "core" /\ d.verdict = "ALLOW"
    [] state[k] = "REVIEW" -> \E d \in decisions[k] : d.verdict = "REVIEW"
    [] state[k] = "DENIED" -> \E d \in decisions[k] : d.verdict = "DENY"
    [] OTHER -> TRUE
DecisionsExplain == \A k \in Keys : Explained(k)

\* An operation that a standing approval can authorize does not stay in
\* intake, whatever calls crashed or were overtaken.
ApprovedIsAuthorized ==
  \A k \in Keys :
    (state[k] \notin PassiveRetryStates /\ Approvable(k))
      ~> (state[k] \in PassiveRetryStates \/ ~Approvable(k))
=============================================================================
