--------------------------- MODULE VendorExecution ---------------------------
(***************************************************************************)
(* The Vendor of a Bill is an operation of its own, ENSURE_VENDOR, with    *)
(* two ways to succeed: executeQuickBooksVendor creates the Vendor         *)
(* (migration 023), adoptExistingQuickBooksVendor binds one that is        *)
(* already in QuickBooks (migration 024).  Both use the state VERIFYING,   *)
(* calls of both may run at once, and each may stop between any two steps. *)
(*                                                                         *)
(*   state    current_state of the row of posting_operations               *)
(*   submits  number of rows of posting_attempts of kind SUBMIT            *)
(*   acked    the externalVendorId of the latest PROVIDER_RESPONSE event   *)
(*   binding  the row of provider_object_bindings: Vendor and binding_kind *)
(*   failing  the checks before dispatch that would fail if made now       *)
(*   worker   the local state of each running call                         *)
(*   wire     CREATE requests written and not yet processed                *)
(*   replies  provider answers to CREATE requests                          *)
(*   vendors  what the provider holds                                      *)
(*                                                                         *)
(* VERIFY and RECOVERY attempts only number themselves and are not stored; *)
(* the Vendor an adoption asked for (MANUAL_INTERVENTION event) is read    *)
(* back for its own attempt only, so it stays with the worker.             *)
(***************************************************************************)
EXTENDS PostingStates, Naturals, FiniteSets

CONSTANTS
  Ops,              \* posting operations of kind ENSURE_VENDOR
  Workers,          \* concurrent calls
  Vendors,          \* identifiers of Vendors in QuickBooks
  NoOp, NoVendor,   \* null
  DriftingChecks,   \* checks whose truth changes during a run
  ProviderDrift,    \* whether a bookkeeper edits or copies Vendors
  MaxSubmits        \* bound on SUBMIT attempts of an operation

Checks == {"ACTOR_UNAUTHORIZED", "DESTINATION_INVALID", "APPROVAL_STALE",
           "EVIDENCE_NOT_OK"}

ASSUME ConstantsAssumption ==
  /\ NoOp \notin Ops
  /\ NoVendor \notin Vendors
  /\ DriftingChecks \subseteq Checks
  /\ ProviderDrift \in BOOLEAN
  /\ MaxSubmits \in Nat

VARIABLES state, submits, acked, binding, failing, worker, wire, replies, vendors

store == <<state, submits, acked, binding>>
provider == <<wire, replies, vendors>>
vars == <<store, failing, worker, provider>>

\* Where a call stands between two awaits; the last two points are those of
\* an adoption.
Points == {"idle", "dispatch", "posting", "acknowledge", "failSafe",
           "failUncertain", "beginRecovery", "read", "record",
           "adoptRead", "adoptRecord"}
Verdicts == {"NONE", "MATCH", "MISMATCH", "INCONCLUSIVE"}

WorkerState == [pc : Points, op : Ops \cup {NoOp}, attempt : Nat,
                vendor : Vendors \cup {NoVendor}, verdict : Verdicts]
Call(pc, o, n, v, verdict) ==
  [pc |-> pc, op |-> o, attempt |-> n, vendor |-> v, verdict |-> verdict]
Idle == Call("idle", NoOp, 0, NoVendor, "NONE")

Binding == [vendor : Vendors \cup {NoVendor}, kind : {"NONE", "CREATED", "ADOPTED"}]
Unbound == [vendor |-> NoVendor, kind |-> "NONE"]

\* A CREATE request is identified by its operation and its SUBMIT attempt.
Requests == [op : Ops, attempt : Nat]
Replies == [op : Ops, attempt : Nat, vendor : Vendors \cup {NoVendor}]

\* origin is the operation whose request created the Vendor, tag the operation
\* named in its Notes; asWanted: active, with the display name of the intent.
Vendor == [origin : Ops \cup {NoOp}, tag : Ops \cup {NoOp},
           exists : BOOLEAN, asWanted : BOOLEAN]
VendorOf(origin, tag, asWanted) ==
  [origin |-> origin, tag |-> tag, exists |-> TRUE, asWanted |-> asWanted]
AbsentVendor == [origin |-> NoOp, tag |-> NoOp, exists |-> FALSE, asWanted |-> FALSE]

TypeOK ==
  /\ state \in [Ops -> States]
  /\ submits \in [Ops -> Nat]
  /\ acked \in [Ops -> Vendors \cup {NoVendor}]
  /\ binding \in [Ops -> Binding]
  /\ failing \in [Ops -> SUBSET Checks]
  /\ worker \in [Workers -> WorkerState]
  /\ wire \in SUBSET Requests
  /\ replies \in SUBSET Replies
  /\ vendors \in [Vendors -> Vendor]

\* Some Vendors are in QuickBooks before.
Init ==
  /\ state = [o \in Ops |-> "PROPOSED"]
  /\ submits = [o \in Ops |-> 0]
  /\ acked = [o \in Ops |-> NoVendor]
  /\ binding = [o \in Ops |-> Unbound]
  /\ failing = [o \in Ops |-> {}]
  /\ worker = [w \in Workers |-> Idle]
  /\ wire = {}
  /\ replies = {}
  /\ vendors \in [Vendors -> {AbsentVendor, VendorOf(NoOp, NoOp, TRUE)}]

----------------------------------------------------------------------------
(***************************************************************************)
(* Helpers.                                                                *)
(***************************************************************************)
SetState(o, s) == state' = [state EXCEPT ![o] = s]

Becomes(w, call) == worker' = [worker EXCEPT ![w] = call]

Return(w) == Becomes(w, Idle)

Learn(w, pc, v, verdict) ==
  Becomes(w, Call(pc, worker[w].op, worker[w].attempt, v, verdict))

Goto(w, pc) == Learn(w, pc, worker[w].vendor, worker[w].verdict)

At(w, pc) == worker[w].pc = pc

RequestOf(w) == [op |-> worker[w].op, attempt |-> worker[w].attempt]
Answers(r, w) == r.op = worker[w].op /\ r.attempt = worker[w].attempt

\* findVendorsByCorrelation: the Vendors whose Notes are the tag.
Correlated(o) == {v \in Vendors : vendors[v].exists /\ vendors[v].tag = o}

\* UNIQUE (provider_connection_id, ..., external_object_id): the Vendor is
\* bound to another operation.
TakenFrom(o, v) == \E p \in Ops \ {o} : binding[p].vendor = v

----------------------------------------------------------------------------
(***************************************************************************)
(* The intake of the operation (module PostingIntake has its detail) and   *)
(* the world it depends on.                                                *)
(***************************************************************************)
IntakeMove(o, to) ==
  /\ state[o] \notin PassiveRetryStates
  /\ to \in Permitted[state[o]] \cap IntakeTargets
  /\ SetState(o, to)
  /\ UNCHANGED <<submits, acked, binding, failing, worker, provider>>

WorldChanges(o) ==
  /\ \E c \in DriftingChecks :
       failing' = [failing EXCEPT ![o] = IF c \in @ THEN @ \ {c} ELSE @ \cup {c}]
  /\ UNCHANGED <<store, worker, provider>>

----------------------------------------------------------------------------
(***************************************************************************)
(* prepare_quickbooks_vendor_submission_v1.  Unlike a Bill, a Vendor whose *)
(* evidence is merely stale is denied.  The answers SUCCEEDED and BLOCKED  *)
(* change nothing.                                                         *)
(***************************************************************************)
PrepareDenied(w, o) ==
  /\ At(w, "idle")
  /\ state[o] = "AUTHORIZED"
  /\ failing[o] # {}
  /\ SetState(o, "DENIED")
  /\ UNCHANGED <<submits, acked, binding, failing, worker, provider>>

PrepareDispatch(w, o) ==
  /\ At(w, "idle")
  /\ state[o] = "AUTHORIZED"
  /\ failing[o] = {}
  /\ submits[o] < MaxSubmits
  /\ SetState(o, "SUBMITTING")
  /\ submits' = [submits EXCEPT ![o] = @ + 1]
  /\ Becomes(w, Call("dispatch", o, submits[o] + 1, NoVendor, "NONE"))
  /\ UNCHANGED <<acked, binding, failing, provider>>

\* In flight includes the VERIFYING of an adoption.
PrepareRecoveryRequired(w, o) ==
  /\ At(w, "idle")
  /\ state[o] \in InFlightStates
  /\ Becomes(w, Call("beginRecovery", o, 0, NoVendor, "NONE"))
  /\ UNCHANGED <<store, failing, provider>>

----------------------------------------------------------------------------
(***************************************************************************)
(* executeAuthorizedVendor.                                                *)
(***************************************************************************)

\* The grant is invalid, the provider connection is not the adapter's, or the
\* credential is refused before the HTTP client is invoked.
FailBeforeDelivery(w) ==
  /\ At(w, "dispatch")
  /\ Goto(w, "failSafe")
  /\ UNCHANGED <<store, failing, provider>>

SendCreate(w) ==
  /\ At(w, "dispatch")
  /\ wire' = wire \cup {RequestOf(w)}
  /\ Goto(w, "posting")
  /\ UNCHANGED <<store, failing, replies, vendors>>

ReceiveCreated(w) ==
  /\ At(w, "posting")
  /\ \E r \in replies :
       /\ Answers(r, w)
       /\ r.vendor # NoVendor
       /\ Learn(w, "acknowledge", r.vendor, "NONE")
  /\ UNCHANGED <<store, failing, provider>>

\* A 4xx answer other than 408, 409 and 429.
ReceiveRejected(w) ==
  /\ At(w, "posting")
  /\ \E r \in replies : Answers(r, w) /\ r.vendor = NoVendor
  /\ Goto(w, "failSafe")
  /\ UNCHANGED <<store, failing, provider>>

\* Bug: a transport error counts as not delivered.
Bug_TransportErrorIsSafe(w) ==
  /\ At(w, "posting")
  /\ Goto(w, "failSafe")
  /\ UNCHANGED <<store, failing, provider>>

\* A transport error, any other answer, or an answer without the Vendor ID.
DeliveryUncertain(w) ==
  /\ At(w, "posting")
  /\ Goto(w, "failUncertain")
  /\ UNCHANGED <<store, failing, provider>>

----------------------------------------------------------------------------
(***************************************************************************)
(* What a call of executeQuickBooksVendor records.                         *)
(***************************************************************************)

\* record_quickbooks_vendor_acknowledged_v1
RecordAcknowledged(w) ==
  LET o == worker[w].op IN
  /\ At(w, "acknowledge")
  /\ state[o] \in InFlightStates
  /\ SetState(o, "VERIFYING")
  /\ acked' = [acked EXCEPT ![o] = worker[w].vendor]
  /\ Goto(w, "read")
  /\ UNCHANGED <<submits, binding, failing, provider>>

\* record_quickbooks_vendor_failure_v1
RecordFailure(w) ==
  LET o == worker[w].op IN
  /\ worker[w].pc \in {"failSafe", "failUncertain"}
  /\ state[o] \in InFlightStates
  /\ SetState(o, IF At(w, "failSafe") THEN "FAILED_SAFE" ELSE "UNCERTAIN")
  /\ Return(w)
  /\ UNCHANGED <<submits, acked, binding, failing, provider>>

\* begin_quickbooks_vendor_recovery_v1, which checks the actor.
BeginRecovery(w) ==
  LET o == worker[w].op IN
  /\ At(w, "beginRecovery")
  /\ state[o] \in InFlightStates
  /\ "ACTOR_UNAUTHORIZED" \notin failing[o]
  /\ SetState(o, "VERIFYING")
  /\ Learn(w, "read", acked[o], "NONE")
  /\ UNCHANGED <<submits, acked, binding, failing, provider>>

\* record_quickbooks_vendor_observation_v1
RecordMatch(w) ==
  LET o == worker[w].op IN
  /\ At(w, "record") /\ worker[w].verdict = "MATCH"
  /\ state[o] = "VERIFYING"
  /\ binding[o] \in {Unbound, [vendor |-> worker[w].vendor, kind |-> "CREATED"]}
  /\ ~TakenFrom(o, worker[w].vendor)
  /\ binding' = [binding EXCEPT ![o] = [vendor |-> worker[w].vendor, kind |-> "CREATED"]]
  /\ SetState(o, "SUCCEEDED")
  /\ Return(w)
  /\ UNCHANGED <<submits, acked, failing, provider>>

\* Bug: what recovery cannot confirm goes back to a person, as in an adoption.
Bug_NoMatchToReview(w) ==
  /\ At(w, "record") /\ worker[w].verdict \in {"MISMATCH", "INCONCLUSIVE"}
  /\ state[worker[w].op] = "VERIFYING"
  /\ SetState(worker[w].op, "REVIEW")
  /\ Return(w)
  /\ UNCHANGED <<submits, acked, binding, failing, provider>>

RecordNoMatch(w) ==
  LET o == worker[w].op IN
  /\ At(w, "record") /\ worker[w].verdict \in {"MISMATCH", "INCONCLUSIVE"}
  /\ state[o] = "VERIFYING"
  /\ SetState(o, "UNCERTAIN")
  /\ Return(w)
  /\ UNCHANGED <<submits, acked, binding, failing, provider>>

\* The procedure refuses: the operation left the states it accepts, the actor
\* lost the right to post, or the Vendor is bound elsewhere.
CallRejected(w) ==
  LET o == worker[w].op IN
  /\ \/ /\ worker[w].pc \in {"acknowledge", "failSafe", "failUncertain", "beginRecovery"}
        /\ state[o] \notin InFlightStates
     \/ At(w, "beginRecovery") /\ "ACTOR_UNAUTHORIZED" \in failing[o]
     \/ At(w, "record") /\ state[o] # "VERIFYING"
     \/ /\ At(w, "record") /\ worker[w].verdict = "MATCH"
        /\ \/ binding[o] \notin {Unbound, [vendor |-> worker[w].vendor, kind |-> "CREATED"]}
           \/ TakenFrom(o, worker[w].vendor)
  /\ Return(w)
  /\ UNCHANGED <<store, failing, provider>>

\* The process ends, or the answer of the last call never arrives.
Crash(w) ==
  /\ ~At(w, "idle")
  /\ Return(w)
  /\ UNCHANGED <<store, failing, provider>>

----------------------------------------------------------------------------
(***************************************************************************)
(* readBack and recover, with the comparison of                            *)
(* finishQuickBooksVendorVerification.                                     *)
(***************************************************************************)
ReadTargets(w) == IF worker[w].vendor # NoVendor
                  THEN {v \in {worker[w].vendor} : vendors[v].exists}
                  ELSE Correlated(worker[w].op)

Compare(v) == IF vendors[v].asWanted THEN "MATCH" ELSE "MISMATCH"

ReadObserved(w) ==
  /\ At(w, "read")
  /\ \E v \in ReadTargets(w) :
       /\ ReadTargets(w) = {v}
       /\ Learn(w, "record", v, Compare(v))
  /\ UNCHANGED <<store, failing, provider>>

\* No Vendor or several Vendors answer the query.
ReadAbsent(w) ==
  /\ At(w, "read")
  /\ \A v \in Vendors : ReadTargets(w) # {v}
  /\ Learn(w, "record", worker[w].vendor, "INCONCLUSIVE")
  /\ UNCHANGED <<store, failing, provider>>

ReadUnavailable(w) ==
  /\ worker[w].pc \in {"read", "adoptRead"}
  /\ Learn(w, IF At(w, "read") THEN "record" ELSE "adoptRecord",
           worker[w].vendor, "INCONCLUSIVE")
  /\ UNCHANGED <<store, failing, provider>>

----------------------------------------------------------------------------
(***************************************************************************)
(* adoptExistingQuickBooksVendor: prepare, one read by Vendor ID, record.  *)
(***************************************************************************)

\* prepare_quickbooks_vendor_adoption_v1: what fails a check, or is bound to
\* another operation, goes back to a person.
AdoptRefused(w, o, v) ==
  /\ At(w, "idle")
  /\ state[o] = "AUTHORIZED"
  /\ failing[o] # {} \/ TakenFrom(o, v)
  /\ SetState(o, "REVIEW")
  /\ UNCHANGED <<submits, acked, binding, failing, worker, provider>>

AdoptStart(w, o, v) ==
  /\ At(w, "idle")
  /\ state[o] = "AUTHORIZED"
  /\ failing[o] = {} /\ ~TakenFrom(o, v)
  /\ SetState(o, "VERIFYING")
  /\ Becomes(w, Call("adoptRead", o, 0, v, "NONE"))
  /\ UNCHANGED <<submits, acked, binding, failing, provider>>

AdoptRead(w) ==
  LET v == worker[w].vendor IN
  /\ At(w, "adoptRead")
  /\ Learn(w, "adoptRecord", v, IF vendors[v].exists THEN Compare(v) ELSE "INCONCLUSIVE")
  /\ UNCHANGED <<store, failing, provider>>

\* Bug: bindings of other operations are not looked up again.
Bug_AdoptTaken(w) ==
  LET o == worker[w].op  v == worker[w].vendor IN
  /\ At(w, "adoptRecord") /\ worker[w].verdict = "MATCH"
  /\ state[o] = "VERIFYING" /\ binding[o] = Unbound
  /\ binding' = [binding EXCEPT ![o] = [vendor |-> v, kind |-> "ADOPTED"]]
  /\ SetState(o, "SUCCEEDED")
  /\ Return(w)
  /\ UNCHANGED <<submits, acked, failing, provider>>

\* record_quickbooks_vendor_adoption_observation_v1
AdoptMatch(w) ==
  LET o == worker[w].op  v == worker[w].vendor IN
  /\ At(w, "adoptRecord") /\ worker[w].verdict = "MATCH"
  /\ state[o] = "VERIFYING" /\ binding[o] = Unbound
  /\ ~TakenFrom(o, v)
  /\ binding' = [binding EXCEPT ![o] = [vendor |-> v, kind |-> "ADOPTED"]]
  /\ SetState(o, "SUCCEEDED")
  /\ Return(w)
  /\ UNCHANGED <<submits, acked, failing, provider>>

\* The attempt need not be the one that put the operation in VERIFYING.
AdoptNoMatch(w) ==
  LET o == worker[w].op IN
  /\ At(w, "adoptRecord")
  /\ state[o] = "VERIFYING"
  /\ worker[w].verdict # "MATCH" \/ TakenFrom(o, worker[w].vendor)
  /\ SetState(o, "REVIEW")
  /\ Return(w)
  /\ UNCHANGED <<submits, acked, binding, failing, provider>>

\* The operation is no longer in VERIFYING; if it succeeded with the same
\* Vendor the call answers so, otherwise it raises.
AdoptOvertaken(w) ==
  /\ At(w, "adoptRecord")
  /\ state[worker[w].op] # "VERIFYING"
  /\ Return(w)
  /\ UNCHANGED <<store, failing, provider>>

----------------------------------------------------------------------------
(***************************************************************************)
(* QuickBooks.                                                             *)
(***************************************************************************)
ProviderCreates(r) ==
  \E v \in Vendors :
    /\ ~vendors[v].exists
    /\ vendors' = [vendors EXCEPT ![v] = VendorOf(r.op, r.op, TRUE)]
    /\ wire' = wire \ {r}
    /\ replies' = replies \cup {[op |-> r.op, attempt |-> r.attempt, vendor |-> v]}
    /\ UNCHANGED <<store, failing, worker>>

ProviderRejects(r) ==
  /\ wire' = wire \ {r}
  /\ replies' = replies \cup {[op |-> r.op, attempt |-> r.attempt, vendor |-> NoVendor]}
  /\ UNCHANGED <<store, failing, worker, vendors>>

RequestLost(r) ==
  /\ wire' = wire \ {r}
  /\ UNCHANGED <<store, failing, worker, replies, vendors>>

\* A bookkeeper renames or deactivates a Vendor, or puts that right again.
UserEditsVendor(v) ==
  /\ ProviderDrift
  /\ vendors[v].exists
  /\ vendors' = [vendors EXCEPT ![v].asWanted = ~@]
  /\ UNCHANGED <<store, failing, worker, wire, replies>>

\* A bookkeeper enters a Vendor, with the Notes of another one or none.
UserEntersVendor(v) ==
  /\ ProviderDrift
  /\ ~vendors[v].exists
  /\ \E tag \in {NoOp} \cup {vendors[u].tag : u \in Vendors}, b \in BOOLEAN :
       vendors' = [vendors EXCEPT ![v] = VendorOf(NoOp, tag, b)]
  /\ UNCHANGED <<store, failing, worker, wire, replies>>

----------------------------------------------------------------------------
Prepare(w) ==
  \E o \in Ops :
    \/ PrepareDenied(w, o)
    \/ PrepareDispatch(w, o)
    \/ PrepareRecoveryRequired(w, o)
    \/ \E v \in Vendors : AdoptRefused(w, o, v) \/ AdoptStart(w, o, v)

Submit(w) ==
  \/ FailBeforeDelivery(w)
  \/ SendCreate(w)
  \/ ReceiveCreated(w)
  \/ ReceiveRejected(w)
  \/ DeliveryUncertain(w)

Record(w) ==
  \/ RecordAcknowledged(w)
  \/ RecordFailure(w)
  \/ BeginRecovery(w)
  \/ RecordMatch(w)
  \/ RecordNoMatch(w)
  \/ CallRejected(w)

Read(w) == ReadObserved(w) \/ ReadAbsent(w) \/ ReadUnavailable(w)

Adopt(w) == AdoptRead(w) \/ AdoptMatch(w) \/ AdoptNoMatch(w) \/ AdoptOvertaken(w)

WorkerStep(w) ==
  Prepare(w) \/ Submit(w) \/ Record(w) \/ Read(w) \/ Adopt(w) \/ Crash(w)

ProviderStep ==
  \/ \E r \in wire : ProviderCreates(r) \/ ProviderRejects(r) \/ RequestLost(r)
  \/ \E v \in Vendors : UserEditsVendor(v) \/ UserEntersVendor(v)

Next ==
  \/ \E o \in Ops : WorldChanges(o) \/ \E to \in IntakeTargets : IntakeMove(o, to)
  \/ \E w \in Workers : WorkerStep(w)
  \/ ProviderStep

Spec == Init /\ [][Next]_vars

----------------------------------------------------------------------------
(***************************************************************************)
(* Correctness.                                                            *)
(***************************************************************************)
Created(o) == {v \in Vendors : vendors[v].origin = o}
Requested(o) == {r \in wire : r.op = o}

\* An operation creates at most one Vendor, although an adoption that fails
\* reopens it for another dispatch (024 moves VERIFYING to REVIEW).
NoDuplicateVendor ==
  \A u, v \in Vendors :
    vendors[u].origin # NoOp /\ vendors[u].origin = vendors[v].origin => u = v

\* An operation that is declared failed, or that a person may review, deny or
\* authorize again, left nothing in QuickBooks and has nothing under way
\* (record_quickbooks_vendor_failure_v1, and 024 for what an adoption reopens):
\* authorizing it again cannot create a second Vendor.
NothingIsDisowned ==
  \A o \in Ops :
    /\ state[o] \notin InFlightStates \cup {"SUCCEEDED"} => Created(o) = {} /\ Requested(o) = {}
    /\ state[o] \notin InFlightStates \cup {"SUCCEEDED", "FAILED_SAFE"} => submits[o] = 0
    /\ state[o] = "FAILED_SAFE" => \A w \in Workers :
         worker[w].op = o => worker[w].pc \notin {"dispatch", "posting"}

\* SUCCEEDED and a binding come together, and no Vendor answers for two
\* operations, whether created, recovered or adopted.  One bound as created
\* carries the tag of the operation; one bound as adopted belongs to an operation
\* that sent nothing, so no Vendor of its own is left behind in QuickBooks.
BindingsAreTrue ==
  \A o \in Ops :
    /\ state[o] = "SUCCEEDED" <=> binding[o] # Unbound
    /\ \A p \in Ops \ {o} : binding[o] # Unbound => binding[o].vendor # binding[p].vendor
    /\ binding[o].kind = "CREATED" => vendors[binding[o].vendor].tag = o
    /\ binding[o].kind = "ADOPTED" => Created(o) = {} /\ Requested(o) = {}

\* The Vendor of an operation as PostingContract speaks of it: created by the
\* operation, or settled without creating one, denied, failed or adopted.
Outcome(o) ==
  IF state[o] \in {"DENIED", "FAILED_SAFE"} \/ binding[o].kind = "ADOPTED" THEN "NOT_POSTED"
  ELSE IF binding[o].kind = "CREATED" THEN "POSTED" ELSE "OPEN"

Contract == INSTANCE PostingContract WITH
  Objects <- Vendors,
  outcome <- [o \in Ops |-> Outcome(o)],
  created <- [o \in Ops |-> Created(o)]

\* Across crashes, lost answers, recoveries and adoptions that reopen an
\* operation, it creates at most one Vendor, is settled as created only once the
\* Vendor exists, and as not created only when none exists or will.
KeepsVendorContract == Contract!Spec

=============================================================================
