---------------------------- MODULE BillExecution ----------------------------
(***************************************************************************)
(* Execution of authorized QuickBooks Bill operations: the procedures of   *)
(* migrations 016 and 017 run by executeQuickBooksBill in concurrent       *)
(* workers that may stop between any two calls, against a provider that    *)
(* may create the Bill and lose the answer, or process the request late.   *)
(*                                                                         *)
(*   state    current_state of the row of posting_operations               *)
(*   submits  number of rows of posting_attempts of kind SUBMIT            *)
(*   acked    the externalBillId of the latest PROVIDER_RESPONSE event     *)
(*   binding  external_object_id of the row of provider_object_bindings    *)
(*   failing  the dispatch checks that would fail if they were made now    *)
(*   evidence what posting_dispatch_evidence_status_v1 would return now    *)
(*   worker   the local state of each running executeQuickBooksBill        *)
(*   wire     CREATE requests written and not yet processed                *)
(*   replies  provider answers to CREATE requests                          *)
(*   bills    what the provider holds                                      *)
(*                                                                         *)
(* RECOVERY attempts only number themselves, nothing reads them back, so   *)
(* they are not stored.                                                    *)
(***************************************************************************)
EXTENDS PostingStates, Naturals, FiniteSets

CONSTANTS
  Ops,              \* posting operations of kind ACCOUNTS_PAYABLE_BILL
  Workers,          \* concurrent calls of executeQuickBooksBill
  BillIds,          \* identifiers the provider may give to a Bill
  NoOp, NoBill,     \* null
  DriftingChecks,   \* dispatch checks whose truth changes during a run
  EvidenceDrift,    \* evidence statuses a run visits
  ProviderDrift,    \* whether Bills in QuickBooks may differ from the request:
                    \* stored differently, edited, deleted or copied there
  MaxSubmits        \* bound on SUBMIT attempts of an operation

ASSUME ConstantsAssumption ==
  /\ NoOp \notin Ops
  /\ NoBill \notin BillIds
  /\ ProviderDrift \in BOOLEAN
  /\ MaxSubmits \in Nat

VARIABLES state, submits, acked, binding, failing, evidence,
          worker, wire, replies, bills

store == <<state, submits, acked, binding>>
world == <<failing, evidence>>
provider == <<wire, replies, bills>>
vars == <<store, world, worker, provider>>

\* The reasons for which dispatch is denied, in the order they are checked,
\* and the one for which it only waits.  An operation of another kind does not
\* reach this code, and a Vendor child that succeeded has a binding (module
\* VendorExecution), so those two reasons cannot occur.
DenyingChecks == {"DISPATCH_ACTOR_UNAUTHORIZED", "DISPATCH_DESTINATION_INVALID",
                  "DISPATCH_APPROVAL_STALE", "DISPATCH_ACCOUNT_MAPPING_INVALID",
                  "DISPATCH_TAX_MAPPING_INVALID", "VENDOR_CHILD_INVALID"}
DispatchChecks == DenyingChecks \cup {"VENDOR_CHILD_UNRESOLVED"}

EvidenceStatus == {"OK", "DISPATCH_EVIDENCE_MISSING", "DISPATCH_EVIDENCE_STALE",
                   "DISPATCH_EVIDENCE_SCOPE_MISMATCH",
                   "DISPATCH_EVIDENCE_FINGERPRINT_MISMATCH"}

ASSUME DriftAssumption ==
  DriftingChecks \subseteq DispatchChecks /\ EvidenceDrift \subseteq EvidenceStatus

\* Where a worker stands between two awaits of executeQuickBooksBill.
Points == {"idle", "dispatch", "posting", "acknowledge", "failSafe",
           "failUncertain", "beginRecovery", "read", "record"}
Verdicts == {"NONE", "MATCH", "MISMATCH", "INCONCLUSIVE"}

WorkerState == [pc : Points, op : Ops \cup {NoOp}, attempt : Nat,
                bill : BillIds \cup {NoBill}, verdict : Verdicts]
Call(pc, o, n, b, v) ==
  [pc |-> pc, op |-> o, attempt |-> n, bill |-> b, verdict |-> v]
Idle == Call("idle", NoOp, 0, NoBill, "NONE")

\* A CREATE request is identified by its operation and its SUBMIT attempt.
Requests == [op : Ops, attempt : Nat]
Replies == [op : Ops, attempt : Nat, bill : BillIds \cup {NoBill}]

\* origin is the operation whose request created the Bill, tag the operation
\* named by its correlation tag.
Bill == [origin : Ops \cup {NoOp}, tag : Ops \cup {NoOp},
         status : {"ABSENT", "LIVE", "DELETED"},
         material : {"AS_AUTHORIZED", "DIFFERENT"}]
AbsentBill == [origin |-> NoOp, tag |-> NoOp, status |-> "ABSENT",
               material |-> "AS_AUTHORIZED"]

TypeOK ==
  /\ state \in [Ops -> States]
  /\ submits \in [Ops -> Nat]
  /\ acked \in [Ops -> BillIds \cup {NoBill}]
  /\ binding \in [Ops -> BillIds \cup {NoBill}]
  /\ failing \in [Ops -> SUBSET DispatchChecks]
  /\ evidence \in [Ops -> EvidenceStatus]
  /\ worker \in [Workers -> WorkerState]
  /\ wire \in SUBSET Requests
  /\ replies \in SUBSET Replies
  /\ bills \in [BillIds -> Bill]

Init ==
  /\ state = [o \in Ops |-> "PROPOSED"]
  /\ submits = [o \in Ops |-> 0]
  /\ acked = [o \in Ops |-> NoBill]
  /\ binding = [o \in Ops |-> NoBill]
  /\ failing = [o \in Ops |-> {}]
  /\ evidence = [o \in Ops |-> "OK"]
  /\ worker = [w \in Workers |-> Idle]
  /\ wire = {}
  /\ replies = {}
  /\ bills = [b \in BillIds |-> AbsentBill]

----------------------------------------------------------------------------
(***************************************************************************)
(* Helpers.                                                                *)
(***************************************************************************)
SetState(o, s) == state' = [state EXCEPT ![o] = s]

Becomes(w, call) == worker' = [worker EXCEPT ![w] = call]

Return(w) == Becomes(w, Idle)

\* The call goes on with what it knows, or with another Bill or verdict.
Learn(w, pc, b, v) == Becomes(w, Call(pc, worker[w].op, worker[w].attempt, b, v))

Goto(w, pc) == Learn(w, pc, worker[w].bill, worker[w].verdict)

At(w, pc) == worker[w].pc = pc

\* The CREATE request of the worker's grant, and the answer to it: the
\* provider idempotency token names the operation and the attempt.
RequestOf(w) == [op |-> worker[w].op, attempt |-> worker[w].attempt]
Answers(r, w) == r.op = worker[w].op /\ r.attempt = worker[w].attempt

LiveBill(b) == bills[b].status = "LIVE"

\* findBillsByCorrelation: the Bills that carry the tag of the operation.
Correlated(o) == {b \in BillIds : LiveBill(b) /\ bills[b].tag = o}

----------------------------------------------------------------------------
(***************************************************************************)
(* The intake of a posting operation: what submit() does through           *)
(* transition_posting_operation_v1 (module PostingIntake has its detail).  *)
(***************************************************************************)
IntakeMove(o, to) ==
  /\ state[o] \notin PassiveRetryStates
  /\ to \in Permitted[state[o]] \cap IntakeTargets
  /\ SetState(o, to)
  /\ UNCHANGED <<submits, acked, binding, world, worker, provider>>

\* Memberships, connections, mappings, approvals, the Vendor child and the
\* evidence change outside the posting service.
WorldChanges(o) ==
  /\ \/ \E c \in DriftingChecks :
          /\ failing' = [failing EXCEPT ![o] = IF c \in @ THEN @ \ {c} ELSE @ \cup {c}]
          /\ UNCHANGED evidence
     \/ \E e \in EvidenceDrift \ {evidence[o]} :
          /\ evidence' = [evidence EXCEPT ![o] = e]
          /\ UNCHANGED failing
  /\ UNCHANGED <<store, worker, provider>>

----------------------------------------------------------------------------
(***************************************************************************)
(* prepare_quickbooks_bill_submission_v1: the first call of                *)
(* executeQuickBooksBill.  Where it answers SUCCEEDED, BLOCKED without a   *)
(* write or stops the pilot, the call changes nothing and is a stutter.    *)
(***************************************************************************)

\* Evidence that no longer supports the operation sends it back to a person,
\* evidence that contradicts it denies it (migration 017).
EvidenceTarget(status) ==
  IF status \in {"DISPATCH_EVIDENCE_SCOPE_MISMATCH",
                 "DISPATCH_EVIDENCE_FINGERPRINT_MISMATCH"}
  THEN "DENIED" ELSE "REVIEW"

\* Bug: the evidence check also applies to an operation already sent.
Bug_EvidenceAfterDispatch(w, o) ==
  /\ At(w, "idle")
  /\ state[o] \in {"AUTHORIZED", "SUBMITTING"}
  /\ evidence[o] # "OK"
  /\ SetState(o, EvidenceTarget(evidence[o]))
  /\ UNCHANGED <<submits, acked, binding, world, worker, provider>>

PrepareEvidenceBlocked(w, o) ==
  /\ At(w, "idle")
  /\ state[o] = "AUTHORIZED"
  /\ evidence[o] # "OK"
  /\ SetState(o, EvidenceTarget(evidence[o]))
  /\ UNCHANGED <<submits, acked, binding, world, worker, provider>>

PrepareDenied(w, o) ==
  /\ At(w, "idle")
  /\ state[o] = "AUTHORIZED"
  /\ evidence[o] = "OK"
  /\ failing[o] \cap DenyingChecks # {}
  /\ SetState(o, "DENIED")
  /\ UNCHANGED <<submits, acked, binding, world, worker, provider>>

\* Bug: an uncertain operation is sent again.
Bug_ResubmitUncertain(w, o) ==
  /\ At(w, "idle")
  /\ state[o] \in {"AUTHORIZED", "UNCERTAIN"}
  /\ submits[o] < MaxSubmits
  /\ SetState(o, "SUBMITTING")
  /\ submits' = [submits EXCEPT ![o] = @ + 1]
  /\ Becomes(w, Call("dispatch", o, submits[o] + 1, NoBill, "NONE"))
  /\ UNCHANGED <<acked, binding, world, provider>>

\* The SUBMIT attempt and the state SUBMITTING are committed together, before
\* the worker holds the grant.
PrepareDispatch(w, o) ==
  /\ At(w, "idle")
  /\ state[o] = "AUTHORIZED"
  /\ evidence[o] = "OK"
  /\ failing[o] = {}
  /\ submits[o] < MaxSubmits
  /\ SetState(o, "SUBMITTING")
  /\ submits' = [submits EXCEPT ![o] = @ + 1]
  /\ Becomes(w, Call("dispatch", o, submits[o] + 1, NoBill, "NONE"))
  /\ UNCHANGED <<acked, binding, world, provider>>

\* executeQuickBooksBill unless recoverExisting is false, or recoverQuickBooksBill:
\* somebody asks for an operation in flight.  Nothing in the code does by itself.
PrepareRecoveryRequired(w, o) ==
  /\ At(w, "idle")
  /\ state[o] \in InFlightStates
  /\ Becomes(w, Call("beginRecovery", o, 0, NoBill, "NONE"))
  /\ UNCHANGED <<store, world, provider>>

----------------------------------------------------------------------------
(***************************************************************************)
(* executeAuthorizedBill: the one place that writes a CREATE request.      *)
(***************************************************************************)

\* The grant is invalid, or the credential or scope check fails before the
\* HTTP client is invoked.
FailBeforeDelivery(w) ==
  /\ At(w, "dispatch")
  /\ Goto(w, "failSafe")
  /\ UNCHANGED <<store, world, provider>>

SendCreate(w) ==
  /\ At(w, "dispatch")
  /\ wire' = wire \cup {RequestOf(w)}
  /\ Goto(w, "posting")
  /\ UNCHANGED <<store, world, replies, bills>>

ReceiveCreated(w) ==
  /\ At(w, "posting")
  /\ \E r \in replies :
       /\ Answers(r, w)
       /\ r.bill # NoBill
       /\ Learn(w, "acknowledge", r.bill, "NONE")
  /\ UNCHANGED <<store, world, provider>>

\* A 4xx answer other than 408, 409 and 429.
ReceiveRejected(w) ==
  /\ At(w, "posting")
  /\ \E r \in replies : Answers(r, w) /\ r.bill = NoBill
  /\ Goto(w, "failSafe")
  /\ UNCHANGED <<store, world, provider>>

\* Bug: a request that timed out counts as not delivered.
Bug_TimeoutIsSafe(w) ==
  /\ At(w, "posting")
  /\ Goto(w, "failSafe")
  /\ UNCHANGED <<store, world, provider>>

\* A transport error, a 5xx, 408, 409 or 429 answer or an answer without the
\* Bill ID: whatever happened to the request, delivery is uncertain.
DeliveryUncertain(w) ==
  /\ At(w, "posting")
  /\ Goto(w, "failUncertain")
  /\ UNCHANGED <<store, world, provider>>

----------------------------------------------------------------------------
(***************************************************************************)
(* What the worker persists.  A procedure that raises rolls its own        *)
(* transaction back and ends the call.                                     *)
(***************************************************************************)

\* record_quickbooks_bill_acknowledged_v1
RecordAcknowledged(w) ==
  LET o == worker[w].op IN
  /\ At(w, "acknowledge")
  /\ state[o] \in InFlightStates
  /\ SetState(o, "VERIFYING")
  /\ acked' = [acked EXCEPT ![o] = worker[w].bill]
  /\ Goto(w, "read")
  /\ UNCHANGED <<submits, binding, world, provider>>

\* record_quickbooks_bill_failure_v1; BEFORE_DELIVERY and
\* VALIDATION_REJECTION are the classifications of "failSafe".
RecordFailure(w) ==
  LET o == worker[w].op IN
  /\ worker[w].pc \in {"failSafe", "failUncertain"}
  /\ state[o] \in InFlightStates
  /\ SetState(o, IF At(w, "failSafe") THEN "FAILED_SAFE" ELSE "UNCERTAIN")
  /\ Return(w)
  /\ UNCHANGED <<submits, acked, binding, world, provider>>

\* Bug: only an operation already marked uncertain is recovered.
Bug_RecoverUncertainOnly(w) ==
  /\ At(w, "beginRecovery")
  /\ state[worker[w].op] = "UNCERTAIN"
  /\ SetState(worker[w].op, "VERIFYING")
  /\ Learn(w, "read", acked[worker[w].op], "NONE")
  /\ UNCHANGED <<submits, acked, binding, world, provider>>

\* begin_quickbooks_bill_recovery_v1: read-only recovery of an operation in
\* flight.  Neither the lease nor the actor of another attempt is consulted.
BeginRecovery(w) ==
  LET o == worker[w].op IN
  /\ At(w, "beginRecovery")
  /\ state[o] \in InFlightStates
  /\ SetState(o, "VERIFYING")
  /\ Learn(w, "read", acked[o], "NONE")
  /\ UNCHANGED <<submits, acked, binding, world, provider>>

\* record_quickbooks_bill_observation_v1
RecordMatch(w) ==
  LET o == worker[w].op IN
  /\ At(w, "record") /\ worker[w].verdict = "MATCH"
  /\ state[o] = "VERIFYING"
  /\ binding[o] \in {NoBill, worker[w].bill}
  /\ \A p \in Ops \ {o} : binding[p] # worker[w].bill
  /\ binding' = [binding EXCEPT ![o] = worker[w].bill]
  /\ SetState(o, "SUCCEEDED")
  /\ Return(w)
  /\ UNCHANGED <<submits, acked, world, provider>>

\* Bug: an observation that proves nothing reopens the operation for review.
Bug_NoMatchToReview(w) ==
  /\ At(w, "record") /\ worker[w].verdict \in {"MISMATCH", "INCONCLUSIVE"}
  /\ state[worker[w].op] = "VERIFYING"
  /\ SetState(worker[w].op, "REVIEW")
  /\ Return(w)
  /\ UNCHANGED <<submits, acked, binding, world, provider>>

\* Bug: an observation that proves nothing is recorded whatever became of the
\* operation since it was read.
Bug_NoMatchFromAnyState(w) ==
  /\ At(w, "record") /\ worker[w].verdict \in {"MISMATCH", "INCONCLUSIVE"}
  /\ SetState(worker[w].op, "UNCERTAIN")
  /\ Return(w)
  /\ UNCHANGED <<submits, acked, binding, world, provider>>

RecordNoMatch(w) ==
  LET o == worker[w].op IN
  /\ At(w, "record") /\ worker[w].verdict \in {"MISMATCH", "INCONCLUSIVE"}
  /\ state[o] = "VERIFYING"
  /\ SetState(o, "UNCERTAIN")
  /\ Return(w)
  /\ UNCHANGED <<submits, acked, binding, world, provider>>

\* The operation left the states the procedure accepts while the worker was
\* away, or the Bill is already bound to another operation.
CallRejected(w) ==
  LET o == worker[w].op IN
  /\ \/ /\ worker[w].pc \in {"acknowledge", "failSafe", "failUncertain", "beginRecovery"}
        /\ state[o] \notin InFlightStates
     \/ At(w, "record") /\ state[o] # "VERIFYING"
     \/ /\ At(w, "record") /\ worker[w].verdict = "MATCH"
        /\ \/ binding[o] \notin {NoBill, worker[w].bill}
           \/ \E p \in Ops \ {o} : binding[p] = worker[w].bill
  /\ Return(w)
  /\ UNCHANGED <<store, world, provider>>

\* The process ends, or the answer of the last call never arrives.
Crash(w) ==
  /\ ~At(w, "idle")
  /\ Return(w)
  /\ UNCHANGED <<store, world, provider>>

----------------------------------------------------------------------------
(***************************************************************************)
(* readBack and recover, with the comparison of                            *)
(* finishQuickBooksVerification: by the known Bill ID, or by the           *)
(* correlation tag when no acknowledgement was recorded.                   *)
(***************************************************************************)
ReadTargets(w) == IF worker[w].bill # NoBill
                  THEN {b \in {worker[w].bill} : LiveBill(b)}
                  ELSE Correlated(worker[w].op)

Compare(b) == IF bills[b].material = "AS_AUTHORIZED" THEN "MATCH" ELSE "MISMATCH"

ReadObserved(w) ==
  /\ At(w, "read")
  /\ \E b \in ReadTargets(w) :
       /\ ReadTargets(w) = {b}
       /\ Learn(w, "record", b, Compare(b))
  /\ UNCHANGED <<store, world, provider>>

\* No Bill or several Bills answer the query.
ReadAbsent(w) ==
  /\ At(w, "read")
  /\ \A b \in BillIds : ReadTargets(w) # {b}
  /\ Learn(w, "record", worker[w].bill, "INCONCLUSIVE")
  /\ UNCHANGED <<store, world, provider>>

ReadUnavailable(w) ==
  /\ At(w, "read")
  /\ Learn(w, "record", worker[w].bill, "INCONCLUSIVE")
  /\ UNCHANGED <<store, world, provider>>

----------------------------------------------------------------------------
(***************************************************************************)
(* QuickBooks.  A request is processed once, at any time after it was      *)
(* written, whether or not anyone still waits for the answer; the          *)
(* provider may store a Bill whose material differs from the request.      *)
(***************************************************************************)
Stores(b, origin, tag, status, material) ==
  bills' = [bills EXCEPT ![b] = [origin |-> origin, tag |-> tag, status |-> status,
                                 material |-> material]]

ProviderCreates(r) ==
  \E b \in BillIds, m \in {"AS_AUTHORIZED", "DIFFERENT"} :
    /\ bills[b].status = "ABSENT"
    /\ m = "AS_AUTHORIZED" \/ ProviderDrift
    /\ Stores(b, r.op, r.op, "LIVE", m)
    /\ wire' = wire \ {r}
    /\ replies' = replies \cup {[op |-> r.op, attempt |-> r.attempt, bill |-> b]}
    /\ UNCHANGED <<store, world, worker>>

ProviderRejects(r) ==
  /\ wire' = wire \ {r}
  /\ replies' = replies \cup {[op |-> r.op, attempt |-> r.attempt, bill |-> NoBill]}
  /\ UNCHANGED <<store, world, worker, bills>>

RequestLost(r) ==
  /\ wire' = wire \ {r}
  /\ UNCHANGED <<store, world, worker, replies, bills>>

\* A bookkeeper corrects or deletes a Bill in QuickBooks.
UserEditsBill(b) ==
  /\ ProviderDrift
  /\ LiveBill(b)
  /\ \E m \in {"AS_AUTHORIZED", "DIFFERENT"}, s \in {"LIVE", "DELETED"} :
       Stores(b, bills[b].origin, bills[b].tag, s, m)
  /\ UNCHANGED <<store, world, worker, wire, replies>>

\* A bookkeeper duplicates a Bill: the copy keeps the private note, and with
\* it the correlation tag.
UserCopiesBill(b) ==
  /\ ProviderDrift
  /\ LiveBill(b)
  /\ \E c \in BillIds :
       /\ bills[c].status = "ABSENT"
       /\ Stores(c, NoOp, bills[b].tag, "LIVE", bills[b].material)
  /\ UNCHANGED <<store, world, worker, wire, replies>>

----------------------------------------------------------------------------
Prepare(w) ==
  \E o \in Ops :
    \/ PrepareEvidenceBlocked(w, o)
    \/ PrepareDenied(w, o)
    \/ PrepareDispatch(w, o)
    \/ PrepareRecoveryRequired(w, o)

Submit(w) ==
  \/ FailBeforeDelivery(w)
  \/ SendCreate(w)
  \/ ReceiveCreated(w)
  \/ ReceiveRejected(w)
  \/ DeliveryUncertain(w)

Record(w) ==
  \/ RecordAcknowledged(w)
  \/ RecordFailure(w)
  \/ BeginRecovery(w)
  \/ RecordMatch(w)
  \/ RecordNoMatch(w)
  \/ CallRejected(w)

Read(w) == ReadObserved(w) \/ ReadAbsent(w) \/ ReadUnavailable(w)

WorkerStep(w) == Prepare(w) \/ Submit(w) \/ Record(w) \/ Read(w) \/ Crash(w)

ProviderStep ==
  \/ \E r \in wire : ProviderCreates(r) \/ ProviderRejects(r) \/ RequestLost(r)
  \/ \E b \in BillIds : UserEditsBill(b) \/ UserCopiesBill(b)

Next ==
  \/ \E o \in Ops : WorldChanges(o) \/ \E to \in IntakeTargets : IntakeMove(o, to)
  \/ \E w \in Workers : WorkerStep(w)
  \/ ProviderStep

Spec == Init /\ [][Next]_vars

\* Every started call takes its next step.  That a call is started, and a
\* recovery above all, is nobody's duty: no fairness of Prepare.
Fairness == \A w \in Workers : WF_vars(Submit(w) \/ Record(w) \/ Read(w))

FairSpec == Spec /\ Fairness

----------------------------------------------------------------------------
(***************************************************************************)
(* Correctness.                                                            *)
(***************************************************************************)
Created(o) == {b \in BillIds : bills[b].origin = o}
Requested(o) == {r \in wire : r.op = o}

\* An operation creates at most one Bill: retries, crashes and late requests
\* never lead the service to a second CREATE (016, prepare and recovery).
NoDuplicateBill ==
  \A b, c \in BillIds : bills[b].origin # NoOp /\ bills[b].origin = bills[c].origin => b = c

\* FAILED_SAFE is proof: the provider holds nothing of the operation and no
\* request that could still create it is under way
\* (record_quickbooks_bill_failure_v1 and the adapter's classification).
FailedSafeIsProof ==
  \A o \in Ops : state[o] = "FAILED_SAFE" =>
    /\ Created(o) = {}
    /\ Requested(o) = {}
    /\ \A w \in Workers : worker[w].op = o => worker[w].pc \notin {"dispatch", "posting"}

\* SUCCEEDED and a provider binding come together, and the bound Bill carries
\* the correlation tag of the operation (record_quickbooks_bill_observation_v1).
SucceededIsBound ==
  \A o \in Ops :
    /\ state[o] = "SUCCEEDED" <=> binding[o] # NoBill
    /\ binding[o] # NoBill => bills[binding[o]].tag = o

\* An operation that a person may still review, or that was denied, was never
\* sent: no SUBMIT attempt, no request, no Bill (016 and 017, prepare).
UnsentUntilDispatched ==
  \A o \in Ops : state[o] \notin InFlightStates \cup {"SUCCEEDED", "FAILED_SAFE"} =>
    submits[o] = 0 /\ Created(o) = {} /\ Requested(o) = {}

\* A settled operation stays settled and its binding is never rewritten,
\* whatever a slow worker records afterwards.
Settled ==
  [][\A o \in Ops :
       /\ state[o] \in {"SUCCEEDED", "DENIED", "FAILED_SAFE"} => state'[o] = state[o]
       /\ binding[o] # NoBill => binding'[o] = binding[o]]_vars

\* The one Bill of the operation is live, as authorized and the only one with
\* its tag.
Intact(o) ==
  \E b \in BillIds : Correlated(o) = {b} /\ bills[b].origin = o
                      /\ bills[b].material = "AS_AUTHORIZED"

\* From some time on no call is cut off and every read of QuickBooks is answered.
Calm == <>[][\A w \in Workers : ~Crash(w) /\ ~ReadUnavailable(w)]_vars

\* For as long as the operation is in flight, somebody asks for its recovery
\* again: a person or a caller that does not pass recoverExisting as false.
RecoveryIsAsked(o) ==
  []<>(state[o] \in InFlightStates =>
         \E w \in Workers : At(w, "beginRecovery") /\ worker[w].op = o)

\* A Bill that was created and stays intact is recognised once calls complete,
\* if somebody keeps asking for its recovery: even if the answer to its CREATE
\* was lost, the process that sent it is gone and several recoveries and a late
\* failure of the sender run against each other.  Without somebody who asks it
\* is not: the pilot executor passes recoverExisting as false and stops.
CreatedIsRecognised ==
  \A o \in Ops :
    Calm /\ (<>[]Intact(o)) /\ RecoveryIsAsked(o) => <>(state[o] = "SUCCEEDED")

\* The detailed service keeps the promise of PostingContract.
Outcome(o) ==
  CASE state[o] = "SUCCEEDED" -> "POSTED"
    [] state[o] \in {"DENIED", "FAILED_SAFE"} -> "NOT_POSTED"
    [] OTHER -> "OPEN"

Contract == INSTANCE PostingContract WITH
  Objects <- BillIds,
  outcome <- [o \in Ops |-> Outcome(o)],
  created <- [o \in Ops |-> Created(o)]

\* Every execution is one the contract allows: at most one Bill, "posted" only
\* of a created Bill, "not posted" only when none is or will be created.
KeepsContract == Contract!Spec
=============================================================================
