------------------------ MODULE BillExecution_proofs ------------------------
(***************************************************************************)
(* The safety of BillExecution for every set of operations, workers and    *)
(* Bill identifiers: an inductive invariant, the invariants that follow    *)
(* from it, and the refinement of PostingContract.                         *)
(***************************************************************************)
EXTENDS BillExecution, TLAPS

\* A call that holds the execution grant of its operation: it committed the
\* SUBMIT attempt and has not returned.
GrantPoints == {"dispatch", "posting", "acknowledge", "failSafe", "failUncertain"}
HoldsGrant(w, o) == worker[w].op = o /\ worker[w].pc \in GrantPoints

Unanswered(o) == \A r \in replies : r.op # o
NotOnWire(o) == \A r \in wire : r.op # o
NothingCreated(o) == \A b \in BillIds : bills[b].origin # o

\* Every running call works for an operation.
WorkersHaveOps ==
  \A w \in Workers : worker[w].pc # "idle" => worker[w].op \in Ops

\* SUBMIT attempts are made from AUTHORIZED only, and never twice.
SingleSubmit ==
  \A o \in Ops :
    /\ submits[o] \in {0, 1}
    /\ state[o] \notin InFlightStates \cup {"SUCCEEDED", "FAILED_SAFE"} => submits[o] = 0
    /\ submits[o] = 0 =>
         /\ NothingCreated(o) /\ NotOnWire(o) /\ Unanswered(o)
         /\ \A w \in Workers : ~HoldsGrant(w, o)

\* The grant is a token: one call holds it, and exchanges it for one request,
\* the request for one answer.
GrantToken ==
  /\ \A v, w \in Workers : \A o \in Ops : HoldsGrant(v, o) /\ HoldsGrant(w, o) => v = w
  /\ \A w \in Workers : worker[w].pc \in GrantPoints => worker[w].attempt = 1
  /\ \A w \in Workers : worker[w].pc = "dispatch" =>
       /\ NothingCreated(worker[w].op) /\ NotOnWire(worker[w].op) /\ Unanswered(worker[w].op)
  /\ \A r \in wire : r.attempt = 1 /\ NothingCreated(r.op) /\ Unanswered(r.op)
  /\ \A r \in replies : r.bill = NoBill => NothingCreated(r.op) /\ NotOnWire(r.op)
  /\ \A r \in replies : r.bill # NoBill => bills[r.bill].tag = r.op

\* A failure called safe is backed by the absence of the Bill.
FailureIsProof ==
  /\ \A w \in Workers : worker[w].pc = "failSafe" =>
       NothingCreated(worker[w].op) /\ NotOnWire(worker[w].op)
  /\ \A o \in Ops : state[o] = "FAILED_SAFE" =>
       /\ NothingCreated(o) /\ NotOnWire(o)
       /\ \A w \in Workers : worker[w].op = o => worker[w].pc \notin {"dispatch", "posting"}

\* The provider's side: identifiers are used once, and every tag goes back to
\* a Bill its operation created.
ProviderOrder ==
  /\ NoDuplicateBill
  /\ \A b \in BillIds : bills[b].status = "ABSENT" =>
       bills[b].origin = NoOp /\ bills[b].tag = NoOp
  /\ \A b \in BillIds : bills[b].tag # NoOp =>
       \E c \in BillIds : bills[c].origin = bills[b].tag

\* Whatever Bill a call or the store refers to carries the operation's tag.
ReferencesAreTagged ==
  /\ \A w \in Workers : worker[w].bill # NoBill =>
       worker[w].op \in Ops /\ bills[worker[w].bill].tag = worker[w].op
  /\ \A w \in Workers : worker[w].verdict = "MATCH" => worker[w].bill # NoBill
  /\ \A o \in Ops : acked[o] # NoBill => bills[acked[o]].tag = o

IInv ==
  /\ TypeOK
  /\ WorkersHaveOps
  /\ SingleSubmit
  /\ GrantToken
  /\ FailureIsProof
  /\ ProviderOrder
  /\ ReferencesAreTagged
  /\ SucceededIsBound

----------------------------------------------------------------------------
(***************************************************************************)
(* Type correctness.                                                       *)
(***************************************************************************)

\* Each disjunct of Next keeps every variable in its type.
LEMMA TypeOKStep == TypeOK /\ WorkersHaveOps /\ [Next]_vars => TypeOK'
<1> USE ConstantsAssumption DEF TypeOK, WorkerState, Call, Idle, Points, Verdicts,
      Becomes, Learn, Goto, Return, SetState, States, Bill, Requests, Replies,
      Stores, store, world, provider
<1> SUFFICES ASSUME TypeOK, WorkersHaveOps, [Next]_vars PROVE TypeOK'
  OBVIOUS
<1>1. ASSUME NEW o \in Ops, NEW to \in IntakeTargets, IntakeMove(o, to) PROVE TypeOK'
  BY <1>1 DEF IntakeMove, IntakeTargets
<1>2. ASSUME NEW o \in Ops, WorldChanges(o) PROVE TypeOK'
  <2>1. UNCHANGED <<store, worker, provider>>
    BY <1>2 DEF WorldChanges
  <2>2. failing' \in [Ops -> SUBSET DispatchChecks]
    BY <1>2, DriftAssumption DEF WorldChanges
  <2>3. evidence' \in [Ops -> EvidenceStatus]
    BY <1>2, DriftAssumption DEF WorldChanges
  <2>4. QED BY <2>1, <2>2, <2>3
<1>3. ASSUME NEW w \in Workers, Prepare(w) PROVE TypeOK'
  <2>. PICK o \in Ops : \/ PrepareEvidenceBlocked(w, o) \/ PrepareDenied(w, o)
                        \/ PrepareDispatch(w, o) \/ PrepareRecoveryRequired(w, o)
    BY <1>3 DEF Prepare
  <2>1. CASE PrepareEvidenceBlocked(w, o)
    BY <2>1 DEF PrepareEvidenceBlocked, EvidenceTarget
  <2>2. CASE PrepareDenied(w, o)
    BY <2>2 DEF PrepareDenied
  <2>3. CASE PrepareDispatch(w, o)
    BY <2>3 DEF PrepareDispatch
  <2>4. CASE PrepareRecoveryRequired(w, o)
    BY <2>4 DEF PrepareRecoveryRequired
  <2>5. QED BY <2>1, <2>2, <2>3, <2>4
<1>4. ASSUME NEW w \in Workers, Submit(w) PROVE TypeOK'
  <2>1. CASE FailBeforeDelivery(w)
    BY <2>1 DEF FailBeforeDelivery
  <2>2. CASE SendCreate(w)
    <3>1. worker[w].op \in Ops /\ worker[w].attempt \in Nat
      BY <2>2 DEF SendCreate, At, WorkersHaveOps
    <3>2. worker' \in [Workers -> WorkerState] /\ wire' \in SUBSET Requests
      BY <2>2, <3>1 DEF SendCreate, RequestOf
    <3>3. QED BY <2>2, <3>2 DEF SendCreate
  <2>3. CASE ReceiveCreated(w)
    <3>1. PICK r \in replies : Learn(w, "acknowledge", r.bill, "NONE")
      BY <2>3 DEF ReceiveCreated
    <3>2. worker' \in [Workers -> WorkerState]
      BY <3>1
    <3>3. QED BY <2>3, <3>2 DEF ReceiveCreated
  <2>4. CASE ReceiveRejected(w)
    BY <2>4 DEF ReceiveRejected
  <2>5. CASE DeliveryUncertain(w)
    BY <2>5 DEF DeliveryUncertain
  <2>6. QED BY <1>4, <2>1, <2>2, <2>3, <2>4, <2>5 DEF Submit
<1>5. ASSUME NEW w \in Workers, Record(w) PROVE TypeOK'
  <2>1. CASE RecordAcknowledged(w)
    BY <2>1 DEF RecordAcknowledged
  <2>2. CASE RecordFailure(w)
    BY <2>2 DEF RecordFailure
  <2>3. CASE BeginRecovery(w)
    <3>1. worker[w].op \in Ops
      BY <2>3 DEF BeginRecovery, At, WorkersHaveOps
    <3>2. acked[worker[w].op] \in BillIds \cup {NoBill}
      BY <3>1
    <3>3. QED BY <2>3, <3>2 DEF BeginRecovery
  <2>4. CASE RecordMatch(w)
    <3>1. worker[w].bill \in BillIds \cup {NoBill}
      OBVIOUS
    <3>2. /\ binding' \in [Ops -> BillIds \cup {NoBill}]
          /\ state' \in [Ops -> States]
          /\ worker' \in [Workers -> WorkerState]
      BY <2>4, <3>1 DEF RecordMatch
    <3>3. QED BY <2>4, <3>2 DEF RecordMatch
  <2>5. CASE RecordNoMatch(w)
    BY <2>5 DEF RecordNoMatch
  <2>6. CASE CallRejected(w)
    BY <2>6 DEF CallRejected
  <2>7. QED BY <1>5, <2>1, <2>2, <2>3, <2>4, <2>5, <2>6 DEF Record
<1>6. ASSUME NEW w \in Workers, Read(w) \/ Crash(w) PROVE TypeOK'
  <2>1. CASE ReadObserved(w)
    <3>1. PICK b \in BillIds : Learn(w, "record", b, Compare(b))
      BY <2>1 DEF ReadObserved, ReadTargets, Correlated
    <3>2. worker' \in [Workers -> WorkerState]
      BY <3>1 DEF Compare
    <3>3. QED BY <2>1, <3>2 DEF ReadObserved
  <2>2. CASE ReadAbsent(w)
    BY <2>2 DEF ReadAbsent
  <2>3. CASE ReadUnavailable(w)
    BY <2>3 DEF ReadUnavailable
  <2>4. CASE Crash(w)
    BY <2>4 DEF Crash
  <2>5. QED BY <1>6, <2>1, <2>2, <2>3, <2>4 DEF Read
<1>7. ASSUME ProviderStep PROVE TypeOK'
  <2>1. ASSUME NEW r \in wire, ProviderCreates(r) PROVE TypeOK'
    BY <2>1 DEF ProviderCreates
  <2>2. ASSUME NEW r \in wire, ProviderRejects(r) \/ RequestLost(r) PROVE TypeOK'
    BY <2>2 DEF ProviderRejects, RequestLost
  <2>3. ASSUME NEW b \in BillIds, UserEditsBill(b) PROVE TypeOK'
    BY <2>3 DEF UserEditsBill
  <2>4. ASSUME NEW b \in BillIds, UserCopiesBill(b) PROVE TypeOK'
    BY <2>4 DEF UserCopiesBill
  <2>5. QED BY <1>7, <2>1, <2>2, <2>3, <2>4 DEF ProviderStep
<1>8. CASE UNCHANGED vars
  BY <1>8 DEF vars
<1>9. QED
  BY <1>1, <1>2, <1>3, <1>4, <1>5, <1>6, <1>7, <1>8 DEF Next, WorkerStep

----------------------------------------------------------------------------
(***************************************************************************)
(* Who changes what.                                                       *)
(***************************************************************************)
UserStep == \E b \in BillIds : UserEditsBill(b) \/ UserCopiesBill(b)

\* Each variable is changed by the few actions named here.
LEMMA WhoChanges ==
  ASSUME [Next]_vars
  PROVE  /\ UNCHANGED bills \/ (\E r \in wire : ProviderCreates(r)) \/ UserStep
         /\ UNCHANGED replies \/ \E r \in wire : ProviderCreates(r) \/ ProviderRejects(r)
         /\ \/ UNCHANGED wire
            \/ \E w \in Workers : SendCreate(w)
            \/ \E r \in wire : ProviderCreates(r) \/ ProviderRejects(r) \/ RequestLost(r)
         /\ UNCHANGED submits \/ \E w \in Workers, o \in Ops : PrepareDispatch(w, o)
         /\ UNCHANGED acked \/ \E w \in Workers : RecordAcknowledged(w)
         /\ UNCHANGED binding \/ \E w \in Workers : RecordMatch(w)
         /\ UNCHANGED worker \/ \E w \in Workers : WorkerStep(w)
<1>. USE DEF store, world, provider
<1>1. CASE UNCHANGED vars
  BY <1>1 DEF vars
<1>2. CASE \E o \in Ops : WorldChanges(o) \/ \E to \in IntakeTargets : IntakeMove(o, to)
  BY <1>2 DEF WorldChanges, IntakeMove
<1>3. CASE ProviderStep
  BY <1>3 DEF ProviderStep, ProviderCreates, ProviderRejects, RequestLost, UserStep,
    UserEditsBill, UserCopiesBill
<1>4. ASSUME NEW w \in Workers, Prepare(w)
      PROVE  /\ UNCHANGED <<bills, replies, wire, acked, binding>>
             /\ UNCHANGED submits \/ \E o \in Ops : PrepareDispatch(w, o)
  BY <1>4 DEF Prepare, PrepareEvidenceBlocked, PrepareDenied, PrepareDispatch,
    PrepareRecoveryRequired
<1>5. ASSUME NEW w \in Workers, Submit(w)
      PROVE  /\ UNCHANGED <<bills, replies, submits, acked, binding>>
             /\ UNCHANGED wire \/ SendCreate(w)
  BY <1>5 DEF Submit, FailBeforeDelivery, SendCreate, ReceiveCreated, ReceiveRejected,
    DeliveryUncertain
<1>6. ASSUME NEW w \in Workers, Record(w)
      PROVE  /\ UNCHANGED <<bills, replies, wire, submits>>
             /\ UNCHANGED acked \/ RecordAcknowledged(w)
             /\ UNCHANGED binding \/ RecordMatch(w)
  BY <1>6 DEF Record, RecordAcknowledged, RecordFailure, BeginRecovery, RecordMatch,
    RecordNoMatch, CallRejected
<1>7. ASSUME NEW w \in Workers, Read(w) \/ Crash(w)
      PROVE  UNCHANGED <<bills, replies, wire, submits, acked, binding>>
  BY <1>7 DEF Read, ReadObserved, ReadAbsent, ReadUnavailable, Crash
<1>8. QED BY <1>1, <1>2, <1>3, <1>4, <1>5, <1>6, <1>7 DEF Next, WorkerStep

\* The state of an operation is moved by the intake, by the preparation of
\* its dispatch and by what a call records about it.
LEMMA StateMoves ==
  ASSUME TypeOK, [Next]_vars, NEW o \in Ops, state'[o] # state[o]
  PROVE  \/ \E to \in IntakeTargets : IntakeMove(o, to)
         \/ \E w \in Workers :
              PrepareEvidenceBlocked(w, o) \/ PrepareDenied(w, o) \/ PrepareDispatch(w, o)
         \/ \E w \in Workers :
              /\ worker[w].op = o
              /\ \/ RecordAcknowledged(w) \/ RecordFailure(w) \/ BeginRecovery(w)
                 \/ RecordMatch(w) \/ RecordNoMatch(w)
<1>1. PICK p \in Ops \cup {worker[w].op : w \in Workers} :
        /\ \/ \E to \in IntakeTargets : IntakeMove(p, to)
           \/ \E w \in Workers :
                PrepareEvidenceBlocked(w, p) \/ PrepareDenied(w, p) \/ PrepareDispatch(w, p)
           \/ \E w \in Workers :
                /\ worker[w].op = p
                /\ \/ RecordAcknowledged(w) \/ RecordFailure(w) \/ BeginRecovery(w)
                   \/ RecordMatch(w) \/ RecordNoMatch(w)
        /\ \E s : SetState(p, s)
  <2>1. CASE \E p \in Ops, to \in IntakeTargets : IntakeMove(p, to)
    BY <2>1 DEF IntakeMove
  <2>2. CASE \E p \in Ops, w \in Workers :
               PrepareEvidenceBlocked(w, p) \/ PrepareDenied(w, p) \/ PrepareDispatch(w, p)
    BY <2>2 DEF PrepareEvidenceBlocked, PrepareDenied, PrepareDispatch
  <2>3. CASE \E w \in Workers : \/ RecordAcknowledged(w) \/ RecordFailure(w)
                                \/ BeginRecovery(w) \/ RecordMatch(w) \/ RecordNoMatch(w)
    BY <2>3 DEF RecordAcknowledged, RecordFailure, BeginRecovery, RecordMatch, RecordNoMatch
  <2>4. QED
    BY <2>1, <2>2, <2>3 DEF Next, vars, store, WorldChanges, WorkerStep, Prepare,
      PrepareRecoveryRequired, Submit, FailBeforeDelivery, SendCreate, ReceiveCreated,
      ReceiveRejected, DeliveryUncertain, Record, CallRejected, Read, ReadObserved, ReadAbsent,
      ReadUnavailable, Crash, ProviderStep, ProviderCreates, ProviderRejects, RequestLost,
      UserEditsBill, UserCopiesBill
<1>2. p = o
  BY <1>1 DEF TypeOK, SetState
<1>3. QED BY <1>1, <1>2

\* What a bookkeeper does to Bills never makes one an operation's creation.
LEMMA UsersCreateNothing ==
  ASSUME bills \in [BillIds -> Bill], UserStep
  PROVE  /\ \A c \in BillIds : bills'[c].origin \in {bills[c].origin, NoOp}
         /\ \A o \in Ops : NothingCreated(o) => NothingCreated(o)'
<1>1. \A c \in BillIds : bills'[c].origin \in {bills[c].origin, NoOp}
  <2>1. ASSUME NEW b \in BillIds, UserEditsBill(b)
        PROVE  \A c \in BillIds : bills'[c].origin \in {bills[c].origin, NoOp}
    BY <2>1 DEF UserEditsBill, Stores
  <2>2. ASSUME NEW b \in BillIds, UserCopiesBill(b)
        PROVE  \A c \in BillIds : bills'[c].origin \in {bills[c].origin, NoOp}
    BY <2>2 DEF UserCopiesBill, Stores
  <2>3. QED BY <2>1, <2>2 DEF UserStep
<1>2. QED BY <1>1, ConstantsAssumption DEF NothingCreated

\* A Bill that exists keeps its origin and its tag.
LEMMA BillsStay ==
  ASSUME bills \in [BillIds -> Bill], [Next]_vars, NEW b \in BillIds, bills[b].status # "ABSENT"
  PROVE  bills'[b].tag = bills[b].tag /\ bills'[b].origin = bills[b].origin
<1> DEFINE Goal == bills'[b].tag = bills[b].tag /\ bills'[b].origin = bills[b].origin
<1>1. ASSUME NEW r \in wire, ProviderCreates(r) PROVE Goal
  BY <1>1 DEF ProviderCreates, Stores
<1>2. ASSUME NEW c \in BillIds, UserEditsBill(c) PROVE Goal
  BY <1>2 DEF UserEditsBill, Stores
<1>3. ASSUME NEW c \in BillIds, UserCopiesBill(c) PROVE Goal
  BY <1>3 DEF UserCopiesBill, Stores
<1>4. QED BY <1>1, <1>2, <1>3, WhoChanges DEF UserStep

\* A tag is never taken off its Bill.
LEMMA TagsStay ==
  ASSUME bills \in [BillIds -> Bill], ProviderOrder, [Next]_vars,
         NEW b \in BillIds, bills[b].tag # NoOp
  PROVE  bills'[b].tag = bills[b].tag
BY BillsStay DEF ProviderOrder

\* An operation about to be dispatched was never sent.
LEMMA DispatchIsFirst ==
  ASSUME SingleSubmit, NEW w \in Workers, NEW o \in Ops, PrepareDispatch(w, o)
  PROVE  /\ submits[o] = 0
         /\ NothingCreated(o) /\ NotOnWire(o) /\ Unanswered(o)
         /\ \A v \in Workers : ~HoldsGrant(v, o)
<1>1. submits[o] = 0
  BY DEF PrepareDispatch, SingleSubmit, InFlightStates
<1>2. QED BY <1>1 DEF SingleSubmit

\* Where nothing of an operation exists and no request of it is written,
\* nothing of it appears.
LEMMA AbsenceStays ==
  ASSUME TypeOK, [Next]_vars, NEW o \in Ops, NothingCreated(o), NotOnWire(o),
         \A w \in Workers : SendCreate(w) => worker[w].op # o
  PROVE  NothingCreated(o)' /\ NotOnWire(o)' /\ (Unanswered(o) => Unanswered(o)')
<1>1. NothingCreated(o)'
  <2>1. ASSUME NEW r \in wire, ProviderCreates(r) PROVE NothingCreated(o)'
    BY <2>1 DEF TypeOK, ProviderCreates, Stores, NothingCreated, NotOnWire
  <2>2. QED BY <2>1, UsersCreateNothing, WhoChanges DEF TypeOK, NothingCreated
<1>2. NotOnWire(o)'
  BY WhoChanges DEF NotOnWire, SendCreate, RequestOf, ProviderCreates, ProviderRejects, RequestLost
<1>3. Unanswered(o) => Unanswered(o)'
  BY WhoChanges DEF NotOnWire, Unanswered, ProviderCreates, ProviderRejects
<1>4. QED BY <1>1, <1>2, <1>3

----------------------------------------------------------------------------
(***************************************************************************)
(* The conjuncts of the invariant are preserved.                           *)
(***************************************************************************)

\* A call works for an operation from its first step to its return.
LEMMA WorkersHaveOpsStep == TypeOK /\ WorkersHaveOps /\ [Next]_vars => WorkersHaveOps'
<1> SUFFICES ASSUME TypeOK, WorkersHaveOps, [Next]_vars, NEW v \in Workers
             PROVE  (worker[v].pc # "idle" => worker[v].op \in Ops)'
  BY DEF WorkersHaveOps
<1>1. ASSUME NEW w \in Workers, WorkerStep(w)
      PROVE  (worker[v].pc # "idle" => worker[v].op \in Ops)'
  <2>. USE DEF TypeOK, WorkersHaveOps, WorkerState, Call, Idle, Becomes, Learn, Goto, Return, At
  <2>1. CASE v # w
    BY <1>1, <2>1 DEF WorkerStep, Prepare, PrepareEvidenceBlocked, PrepareDenied,
      PrepareDispatch, PrepareRecoveryRequired, Submit, FailBeforeDelivery, SendCreate,
      ReceiveCreated, ReceiveRejected, DeliveryUncertain, Record, RecordAcknowledged,
      RecordFailure, BeginRecovery, RecordMatch, RecordNoMatch, CallRejected, Read,
      ReadObserved, ReadAbsent, ReadUnavailable, Crash
  <2>2. CASE v = w
    BY <1>1, <2>2 DEF WorkerStep, Prepare, PrepareEvidenceBlocked, PrepareDenied,
      PrepareDispatch, PrepareRecoveryRequired, Submit, FailBeforeDelivery, SendCreate,
      ReceiveCreated, ReceiveRejected, DeliveryUncertain, Record, RecordAcknowledged,
      RecordFailure, BeginRecovery, RecordMatch, RecordNoMatch, CallRejected, Read,
      ReadObserved, ReadAbsent, ReadUnavailable, Crash
  <2>3. QED BY <2>1, <2>2
<1>2. QED BY <1>1, WhoChanges DEF WorkersHaveOps

\* What one step does to the call v: it stays, it takes the grant of an
\* operation, it moves on with its grant, or it has none afterwards.
LEMMA GrantMoves ==
  ASSUME TypeOK, WorkersHaveOps, [Next]_vars, NEW v \in Workers,
         worker'[v].pc \in GrantPoints
  PROVE  \/ worker'[v] = worker[v]
         \/ /\ PrepareDispatch(v, worker'[v].op)
            /\ worker'[v].op \in Ops /\ worker'[v].pc = "dispatch"
            /\ worker'[v].attempt = submits[worker'[v].op] + 1
         \/ /\ worker[v].pc \in GrantPoints
            /\ worker'[v].op = worker[v].op /\ worker'[v].attempt = worker[v].attempt
            /\ worker'[v].pc # "dispatch"
            /\ worker'[v].pc = "posting" => SendCreate(v)
            /\ worker'[v].pc = "failSafe" => FailBeforeDelivery(v) \/ ReceiveRejected(v)
<1> DEFINE Goal ==
      \/ worker'[v] = worker[v]
      \/ /\ PrepareDispatch(v, worker'[v].op)
         /\ worker'[v].op \in Ops /\ worker'[v].pc = "dispatch"
         /\ worker'[v].attempt = submits[worker'[v].op] + 1
      \/ /\ worker[v].pc \in GrantPoints
         /\ worker'[v].op = worker[v].op /\ worker'[v].attempt = worker[v].attempt
         /\ worker'[v].pc # "dispatch"
         /\ worker'[v].pc = "posting" => SendCreate(v)
         /\ worker'[v].pc = "failSafe" => FailBeforeDelivery(v) \/ ReceiveRejected(v)
<1>. USE DEF TypeOK, WorkerState, Call, Idle, Becomes, Learn, Goto, Return, At, GrantPoints
<1>1. ASSUME NEW w \in Workers, Prepare(w) PROVE Goal
  <2>1. ASSUME NEW o \in Ops, PrepareDispatch(w, o), w = v PROVE Goal
    <3>1. worker'[v].op = o
      BY <2>1 DEF PrepareDispatch
    <3>2. QED BY <2>1, <3>1 DEF PrepareDispatch
  <2>2. ASSUME NEW o \in Ops, PrepareDispatch(w, o), w # v PROVE Goal
    BY <2>2 DEF PrepareDispatch
  <2>3. ASSUME NEW o \in Ops,
               PrepareEvidenceBlocked(w, o) \/ PrepareDenied(w, o) \/ PrepareRecoveryRequired(w, o)
        PROVE  Goal
    BY <2>3 DEF PrepareEvidenceBlocked, PrepareDenied, PrepareRecoveryRequired
  <2>4. QED BY <1>1, <2>1, <2>2, <2>3 DEF Prepare
<1>2. ASSUME NEW w \in Workers, Submit(w) PROVE Goal
  <2>1. CASE v # w
    BY <1>2, <2>1 DEF Submit, FailBeforeDelivery, SendCreate, ReceiveCreated, ReceiveRejected,
      DeliveryUncertain
  <2>2. CASE v = w /\ (FailBeforeDelivery(v) \/ SendCreate(v))
    BY <2>2 DEF FailBeforeDelivery, SendCreate
  <2>3. CASE v = w /\ (ReceiveCreated(v) \/ DeliveryUncertain(v))
    BY <2>3 DEF ReceiveCreated, DeliveryUncertain
  <2>4. CASE v = w /\ ReceiveRejected(v)
    BY <2>4 DEF ReceiveRejected
  <2>5. QED BY <1>2, <2>1, <2>2, <2>3, <2>4 DEF Submit
<1>3. ASSUME NEW w \in Workers, RecordAcknowledged(w) \/ BeginRecovery(w) PROVE Goal
  BY <1>3 DEF RecordAcknowledged, BeginRecovery
<1>4. ASSUME NEW w \in Workers,
             RecordFailure(w) \/ RecordMatch(w) \/ RecordNoMatch(w) \/ CallRejected(w) \/ Crash(w)
      PROVE  Goal
  BY <1>4 DEF RecordFailure, RecordMatch, RecordNoMatch, CallRejected, Crash
<1>5. ASSUME NEW w \in Workers, Read(w) PROVE Goal
  BY <1>5 DEF Read, ReadObserved, ReadAbsent, ReadUnavailable
<1>6. QED BY <1>1, <1>2, <1>3, <1>4, <1>5, WhoChanges DEF WorkerStep, Record

\* An operation enters the states that stand for "sent" through its first
\* dispatch only.
LEMMA SingleSubmitStep == IInv /\ [Next]_vars => SingleSubmit'
<1> SUFFICES ASSUME IInv, [Next]_vars, NEW o \in Ops
             PROVE  /\ submits'[o] \in {0, 1}
                    /\ state'[o] \notin InFlightStates \cup {"SUCCEEDED", "FAILED_SAFE"}
                         => submits'[o] = 0
                    /\ submits'[o] = 0 =>
                         /\ NothingCreated(o)' /\ NotOnWire(o)' /\ Unanswered(o)'
                         /\ \A w \in Workers : ~HoldsGrant(w, o)'
  BY DEF SingleSubmit
<1>1. ASSUME NEW w \in Workers, NEW p \in Ops, PrepareDispatch(w, p)
      PROVE  submits' = [submits EXCEPT ![p] = 1] /\ state'[p] = "SUBMITTING"
  <2>1. submits[p] = 0 /\ state \in [Ops -> States]
    BY <1>1, DispatchIsFirst DEF IInv, TypeOK
  <2>2. QED BY <1>1, <2>1 DEF PrepareDispatch, SetState
<1>2. submits'[o] \in {0, 1} /\ (submits'[o] = 0 => submits[o] = 0)
  BY <1>1, WhoChanges DEF IInv, TypeOK, SingleSubmit
<1>3. ASSUME state'[o] \notin InFlightStates \cup {"SUCCEEDED", "FAILED_SAFE"}
      PROVE  submits'[o] = 0
  <2>1. state[o] \notin InFlightStates \cup {"SUCCEEDED", "FAILED_SAFE"}
    BY <1>3, StateMoves DEF IInv, TypeOK, SetState, InFlightStates, IntakeMove,
      PassiveRetryStates, PrepareEvidenceBlocked, PrepareDenied, PrepareDispatch,
      RecordAcknowledged, RecordFailure, BeginRecovery, RecordMatch, RecordNoMatch
  <2>2. submits[o] = 0
    BY <2>1 DEF IInv, SingleSubmit
  <2>3. ASSUME NEW w \in Workers, NEW p \in Ops, PrepareDispatch(w, p) PROVE p # o
    BY <1>1, <1>3, <2>3 DEF InFlightStates
  <2>4. QED BY <1>1, <2>2, <2>3, WhoChanges DEF IInv, TypeOK
<1>4. ASSUME submits'[o] = 0
      PROVE  /\ NothingCreated(o)' /\ NotOnWire(o)' /\ Unanswered(o)'
             /\ \A w \in Workers : ~HoldsGrant(w, o)'
  <2>1. /\ submits[o] = 0 /\ NothingCreated(o) /\ NotOnWire(o) /\ Unanswered(o)
        /\ \A w \in Workers : ~HoldsGrant(w, o)
    BY <1>2, <1>4 DEF IInv, SingleSubmit
  <2>2. \A w \in Workers : SendCreate(w) => worker[w].op # o
    BY <2>1 DEF SendCreate, At, HoldsGrant, GrantPoints
  <2>3. NothingCreated(o)' /\ NotOnWire(o)' /\ Unanswered(o)'
    BY <2>1, <2>2, AbsenceStays DEF IInv
  <2>4. ASSUME NEW w \in Workers, HoldsGrant(w, o)' PROVE FALSE
    <3>1. PrepareDispatch(w, o)
      BY <2>1, <2>4, GrantMoves DEF IInv, HoldsGrant
    <3>2. QED BY <1>1, <1>4, <3>1 DEF IInv, TypeOK
  <2>5. QED BY <2>3, <2>4
<1>5. QED BY <1>2, <1>3, <1>4

\* One call at a time holds the grant of an operation, and the grant is its
\* first and only SUBMIT attempt.
LEMMA OneHolder ==
  ASSUME IInv, [Next]_vars, NEW u \in Workers, NEW v \in Workers
  PROVE  /\ worker'[u].pc \in GrantPoints => worker'[u].attempt = 1
         /\ \A o \in Ops : HoldsGrant(u, o)' /\ HoldsGrant(v, o)' => u = v
<1>1. ASSUME NEW w \in Workers, NEW o \in Ops, PrepareDispatch(w, o)
      PROVE  /\ submits[o] = 0
             /\ \A x \in Workers : ~HoldsGrant(x, o)
             /\ \A x \in Workers \ {w} : worker'[x] = worker[x]
  BY <1>1, DispatchIsFirst DEF IInv, TypeOK, PrepareDispatch, Becomes
<1>2. worker'[u].pc \in GrantPoints => worker'[u].attempt = 1
  BY <1>1, GrantMoves DEF IInv, GrantToken
<1>3. ASSUME NEW o \in Ops, HoldsGrant(u, o)', HoldsGrant(v, o)', u # v PROVE FALSE
  <2>1. HoldsGrant(u, o) \/ PrepareDispatch(u, o)
    BY <1>3, GrantMoves DEF IInv, HoldsGrant
  <2>2. HoldsGrant(v, o) \/ PrepareDispatch(v, o)
    BY <1>3, GrantMoves DEF IInv, HoldsGrant
  <2>3. ~(HoldsGrant(u, o) /\ HoldsGrant(v, o))
    BY <1>3 DEF IInv, GrantToken
  <2>4. PrepareDispatch(u, o) => ~HoldsGrant(v, o) /\ ~HoldsGrant(v, o)'
    BY <1>1, <1>3 DEF HoldsGrant
  <2>5. PrepareDispatch(v, o) => ~HoldsGrant(u, o) /\ ~HoldsGrant(u, o)'
    BY <1>1, <1>3 DEF HoldsGrant
  <2>6. QED BY <1>3, <2>1, <2>2, <2>3, <2>4, <2>5
<1>4. QED BY <1>2, <1>3

\* Only the holder of the grant can send, so nobody else sends what it waits for.
LEMMA OnlyHolderSends ==
  ASSUME IInv, NEW v \in Workers, NEW o \in Ops, HoldsGrant(v, o), worker[v].pc # "dispatch"
  PROVE  \A w \in Workers : SendCreate(w) => worker[w].op # o
BY DEF IInv, GrantToken, HoldsGrant, GrantPoints, SendCreate, At

\* Before the request is written, nothing of the operation is at the provider.
LEMMA UnspentGrant ==
  ASSUME IInv, [Next]_vars, NEW v \in Workers, NEW o \in Ops,
         worker'[v].pc = "dispatch", worker'[v].op = o
  PROVE  NothingCreated(o)' /\ NotOnWire(o)' /\ Unanswered(o)'
<1>1. PrepareDispatch(v, o) \/ worker'[v] = worker[v]
  BY GrantMoves DEF IInv, GrantPoints
<1>2. CASE PrepareDispatch(v, o)
  <2>1. /\ NothingCreated(o) /\ NotOnWire(o) /\ Unanswered(o)
        /\ \A w \in Workers : ~HoldsGrant(w, o)
    BY <1>2, DispatchIsFirst DEF IInv
  <2>2. \A w \in Workers : SendCreate(w) => worker[w].op # o
    BY <2>1 DEF HoldsGrant, GrantPoints, SendCreate, At
  <2>3. QED BY <2>1, <2>2, AbsenceStays DEF IInv
<1>3. CASE worker'[v] = worker[v]
  <2>1. NothingCreated(o) /\ NotOnWire(o) /\ Unanswered(o)
    BY <1>3 DEF IInv, GrantToken
  <2>2. ASSUME NEW w \in Workers, SendCreate(w), worker[w].op = o PROVE FALSE
    <3>1. HoldsGrant(w, o) /\ HoldsGrant(v, o)
      BY <1>3, <2>2 DEF HoldsGrant, GrantPoints, SendCreate, At
    <3>2. w = v
      BY <3>1 DEF IInv, GrantToken
    <3>3. worker'[v].pc = "posting"
      BY <2>2, <3>2 DEF IInv, TypeOK, SendCreate, Goto, Learn, Becomes, Call
    <3>4. QED BY <3>3
  <2>3. QED BY <2>1, <2>2, AbsenceStays DEF IInv
<1>4. QED BY <1>1, <1>2, <1>3

\* A request under way was not processed before.
LEMMA UnprocessedRequest ==
  ASSUME IInv, [Next]_vars, NEW x \in wire'
  PROVE  x.attempt = 1 /\ NothingCreated(x.op)' /\ Unanswered(x.op)'
<1>1. CASE x \notin wire
  <2>1. PICK w \in Workers : SendCreate(w) /\ x = RequestOf(w)
    BY <1>1, WhoChanges DEF SendCreate, ProviderCreates, ProviderRejects, RequestLost
  <2>2. x.attempt = 1 /\ NothingCreated(x.op) /\ Unanswered(x.op)
    BY <2>1 DEF IInv, GrantToken, GrantPoints, SendCreate, At, RequestOf
  <2>3. UNCHANGED <<bills, replies>>
    BY <2>1 DEF SendCreate
  <2>4. QED BY <2>2, <2>3 DEF NothingCreated, Unanswered
<1>2. CASE x \in wire
  <2>1. x \in Requests /\ x.op \in Ops /\ x.attempt = 1 /\ NothingCreated(x.op) /\ Unanswered(x.op)
    BY <1>2 DEF IInv, TypeOK, GrantToken, Requests
  <2>2. ASSUME NEW r \in wire, ProviderCreates(r) \/ ProviderRejects(r) PROVE r.op # x.op
    <3>1. r # x
      BY <2>2 DEF ProviderCreates, ProviderRejects
    <3>2. r \in Requests /\ r.attempt = 1
      BY DEF IInv, TypeOK, GrantToken
    <3>3. QED BY <2>1, <3>1, <3>2 DEF Requests
  <2>3. NothingCreated(x.op)'
    <3>1. ASSUME NEW r \in wire, ProviderCreates(r) PROVE NothingCreated(x.op)'
      <4>1. r.op # x.op
        BY <2>2, <3>1
      <4>2. QED BY <2>1, <3>1, <4>1 DEF IInv, TypeOK, ProviderCreates, Stores, NothingCreated
    <3>2. QED BY <2>1, <3>1, UsersCreateNothing, WhoChanges DEF IInv, TypeOK, NothingCreated
  <2>4. Unanswered(x.op)'
    BY <2>1, <2>2, WhoChanges DEF Unanswered, ProviderCreates, ProviderRejects
  <2>5. QED BY <2>1, <2>3, <2>4
<1>3. QED BY <1>1, <1>2

\* A rejected request created nothing, and is not sent again.
LEMMA RejectionIsProof ==
  ASSUME IInv, [Next]_vars, NEW x \in replies', x.bill = NoBill
  PROVE  NothingCreated(x.op)' /\ NotOnWire(x.op)'
<1>1. CASE x \in replies
  <2>1. x.op \in Ops /\ NothingCreated(x.op) /\ NotOnWire(x.op)
    BY <1>1 DEF IInv, TypeOK, Replies, GrantToken
  <2>2. \A w \in Workers : SendCreate(w) => worker[w].op # x.op
    BY <1>1 DEF IInv, GrantToken, SendCreate, At, Unanswered
  <2>3. QED BY <2>1, <2>2, AbsenceStays DEF IInv
<1>2. CASE x \notin replies
  <2>1. PICK r \in wire : ProviderCreates(r) \/ ProviderRejects(r)
    BY <1>2, WhoChanges
  <2>2. ~ProviderCreates(r)
    BY <1>2, ConstantsAssumption DEF ProviderCreates
  <2>3. x.op = r.op /\ wire' = wire \ {r} /\ UNCHANGED bills
    BY <1>2, <2>1, <2>2 DEF ProviderRejects
  <2>4. NothingCreated(r.op) /\ NotOnWire(r.op)'
    BY <2>3 DEF IInv, TypeOK, GrantToken, NotOnWire, Requests
  <2>5. QED BY <2>3, <2>4 DEF NothingCreated
<1>3. QED BY <1>1, <1>2

\* The Bill of an answer carries the tag of its operation.
LEMMA AnswerIsTagged ==
  ASSUME IInv, [Next]_vars, NEW x \in replies', x.bill # NoBill
  PROVE  bills'[x.bill].tag = x.op
<1>1. CASE x \in replies
  <2>1. x.op # NoOp /\ x.bill \in BillIds /\ bills[x.bill].tag = x.op
    BY <1>1, ConstantsAssumption DEF IInv, TypeOK, Replies, GrantToken
  <2>2. QED BY <2>1, TagsStay DEF IInv, TypeOK
<1>2. CASE x \notin replies
  <2>1. PICK r \in wire : ProviderCreates(r) \/ ProviderRejects(r)
    BY <1>2, WhoChanges
  <2>2. CASE ProviderCreates(r)
    BY <1>2, <2>2 DEF ProviderCreates, Stores, IInv, TypeOK
  <2>3. CASE ProviderRejects(r)
    BY <1>2, <2>3 DEF ProviderRejects
  <2>4. QED BY <2>1, <2>2, <2>3
<1>3. QED BY <1>1, <1>2

\* A call about to record a safe failure knows that nothing was created.
LEMMA FailSafeIsProof ==
  ASSUME IInv, [Next]_vars, NEW v \in Workers, NEW o \in Ops,
         worker'[v].pc = "failSafe", worker'[v].op = o
  PROVE  NothingCreated(o)' /\ NotOnWire(o)'
<1>1. \/ worker'[v] = worker[v]
      \/ HoldsGrant(v, o) /\ (FailBeforeDelivery(v) \/ ReceiveRejected(v))
  BY GrantMoves DEF IInv, GrantPoints, HoldsGrant
<1>2. CASE worker'[v] = worker[v]
  <2>1. NothingCreated(o) /\ NotOnWire(o) /\ HoldsGrant(v, o) /\ worker[v].pc # "dispatch"
    BY <1>2 DEF IInv, FailureIsProof, HoldsGrant, GrantPoints
  <2>2. QED BY <2>1, OnlyHolderSends, AbsenceStays DEF IInv
<1>3. CASE HoldsGrant(v, o) /\ (FailBeforeDelivery(v) \/ ReceiveRejected(v))
  <2>1. UNCHANGED <<wire, bills>>
    BY <1>3 DEF FailBeforeDelivery, ReceiveRejected, provider
  <2>2. NothingCreated(o) /\ NotOnWire(o)
    BY <1>3 DEF IInv, GrantToken, HoldsGrant, FailBeforeDelivery, ReceiveRejected, Answers, At
  <2>3. QED BY <2>1, <2>2 DEF NothingCreated, NotOnWire
<1>4. QED BY <1>1, <1>2, <1>3

\* FAILED_SAFE is recorded on proof, and the proof stays valid.
LEMMA FailedSafeStaysProof ==
  ASSUME IInv, [Next]_vars, NEW o \in Ops, state'[o] = "FAILED_SAFE"
  PROVE  /\ NothingCreated(o)' /\ NotOnWire(o)'
         /\ \A v \in Workers : worker'[v].op = o => worker'[v].pc \notin {"dispatch", "posting"}
<1>1. CASE state[o] = "FAILED_SAFE"
  <2>1. /\ NothingCreated(o) /\ NotOnWire(o)
        /\ \A w \in Workers : worker[w].op = o => worker[w].pc \notin {"dispatch", "posting"}
    BY <1>1 DEF IInv, FailureIsProof
  <2>2. \A w \in Workers : SendCreate(w) => worker[w].op # o
    BY <2>1 DEF SendCreate, At
  <2>3. ASSUME NEW v \in Workers, worker'[v].op = o, worker'[v].pc \in {"dispatch", "posting"}
        PROVE  FALSE
    <3>1. \/ PrepareDispatch(v, o)
          \/ SendCreate(v) /\ worker[v].op = o
          \/ worker'[v] = worker[v]
      BY <2>3, GrantMoves DEF IInv, GrantPoints
    <3>2. ~PrepareDispatch(v, o)
      BY <1>1 DEF PrepareDispatch
    <3>3. QED BY <2>1, <2>2, <2>3, <3>1, <3>2
  <2>4. QED BY <2>1, <2>2, <2>3, AbsenceStays DEF IInv
<1>2. CASE state[o] # "FAILED_SAFE"
  <2>1. PICK w \in Workers : worker[w].op = o /\ RecordFailure(w) /\ At(w, "failSafe")
    BY <1>2, StateMoves DEF IInv, TypeOK, SetState, IntakeMove, IntakeTargets,
      PrepareEvidenceBlocked, EvidenceTarget, PrepareDenied, PrepareDispatch, RecordAcknowledged,
      RecordFailure, BeginRecovery, RecordMatch, RecordNoMatch
  <2>2. UNCHANGED <<wire, bills>> /\ HoldsGrant(w, o) /\ worker'[w].pc = "idle"
    BY <2>1 DEF IInv, TypeOK, RecordFailure, provider, HoldsGrant, GrantPoints, At, Return, Becomes,
      Idle, Call
  <2>3. NothingCreated(o) /\ NotOnWire(o)
    BY <2>1 DEF IInv, FailureIsProof, At
  <2>4. ASSUME NEW v \in Workers, worker'[v].op = o, worker'[v].pc \in {"dispatch", "posting"}
        PROVE  FALSE
    <3>1. v # w /\ worker'[v] = worker[v]
      BY <2>1, <2>2, <2>4 DEF IInv, TypeOK, RecordFailure, Return, Becomes
    <3>2. HoldsGrant(v, o)
      BY <2>4, <3>1 DEF HoldsGrant, GrantPoints
    <3>3. QED BY <2>2, <3>1, <3>2 DEF IInv, GrantToken
  <2>5. QED BY <2>2, <2>3, <2>4 DEF NothingCreated, NotOnWire
<1>3. QED BY <1>1, <1>2

\* No operation creates a second Bill.
LEMMA OneBillPerOperation == IInv /\ [Next]_vars => NoDuplicateBill'
<1> SUFFICES ASSUME IInv, [Next]_vars, NEW b \in BillIds, NEW c \in BillIds,
                    bills'[b].origin # NoOp, bills'[b].origin = bills'[c].origin
             PROVE  b = c
  BY DEF NoDuplicateBill
<1>. USE DEF IInv, TypeOK, ProviderOrder, NoDuplicateBill
<1>1. ASSUME NEW r \in wire, ProviderCreates(r) PROVE b = c
  <2>1. NothingCreated(r.op)
    BY DEF GrantToken
  <2>2. QED BY <1>1, <2>1 DEF ProviderCreates, Stores, NothingCreated
<1>2. QED BY <1>1, UsersCreateNothing, WhoChanges

\* An identifier the provider has not used refers to nothing.
LEMMA FreshIds ==
  ASSUME IInv, [Next]_vars, NEW b \in BillIds, bills'[b].status = "ABSENT"
  PROVE  bills'[b].origin = NoOp /\ bills'[b].tag = NoOp
<1> DEFINE Goal == bills'[b].origin = NoOp /\ bills'[b].tag = NoOp
<1>. USE DEF IInv, TypeOK, ProviderOrder
<1>1. ASSUME NEW r \in wire, ProviderCreates(r) PROVE Goal
  BY <1>1 DEF ProviderCreates, Stores
<1>2. ASSUME NEW c \in BillIds, UserEditsBill(c) PROVE Goal
  BY <1>2 DEF UserEditsBill, Stores
<1>3. ASSUME NEW c \in BillIds, UserCopiesBill(c) PROVE Goal
  BY <1>3 DEF UserCopiesBill, Stores
<1>4. QED BY <1>1, <1>2, <1>3, WhoChanges DEF UserStep

\* Every tag goes back to a Bill that its operation created.
LEMMA TagsHaveCreators ==
  ASSUME IInv, [Next]_vars, NEW b \in BillIds, bills'[b].tag # NoOp
  PROVE  \E c \in BillIds : bills'[c].origin = bills'[b].tag
<1>. USE DEF IInv, TypeOK
<1>1. ASSUME NEW x \in BillIds, bills[x].tag # NoOp
      PROVE  \E c \in BillIds : bills'[c].origin = bills[x].tag
  <2>1. PICK c \in BillIds : bills[c].origin = bills[x].tag
    BY <1>1 DEF ProviderOrder
  <2>2. bills[c].status # "ABSENT"
    BY <1>1, <2>1 DEF ProviderOrder
  <2>3. QED BY <2>1, <2>2, BillsStay
<1>2. CASE bills[b].tag # NoOp
  BY <1>1, <1>2, TagsStay
<1>3. CASE bills[b].tag = NoOp
  <2>1. ASSUME NEW r \in wire, ProviderCreates(r)
        PROVE  \E c \in BillIds : bills'[c].origin = bills'[b].tag
    BY <1>3, <2>1 DEF ProviderCreates, Stores
  <2>2. ASSUME NEW x \in BillIds, UserEditsBill(x)
        PROVE  \E c \in BillIds : bills'[c].origin = bills'[b].tag
    BY <1>3, <2>2 DEF UserEditsBill, Stores
  <2>3. ASSUME NEW x \in BillIds, UserCopiesBill(x)
        PROVE  \E c \in BillIds : bills'[c].origin = bills'[b].tag
    <3>1. bills'[b].tag = bills[x].tag
      BY <1>3, <2>3 DEF UserCopiesBill, Stores
    <3>2. QED BY <3>1, <1>1
  <2>4. QED BY <1>3, <2>1, <2>2, <2>3, WhoChanges DEF UserStep
<1>4. QED BY <1>2, <1>3

\* Where a call may learn of a Bill: the answer to its request, the recorded
\* acknowledgement, or what it reads at the provider.
LEMMA BillMoves ==
  ASSUME TypeOK, [Next]_vars, NEW v \in Workers
  PROVE  \/ worker'[v].bill = NoBill /\ worker'[v].verdict # "MATCH"
         \/ /\ worker'[v].op = worker[v].op /\ worker'[v].bill = worker[v].bill
            /\ worker'[v].verdict = "MATCH" => worker[v].verdict = "MATCH"
         \/ /\ worker'[v].op = worker[v].op /\ worker[v].pc # "idle" /\ UNCHANGED bills
            /\ \/ \E r \in replies : Answers(r, v) /\ r.bill # NoBill /\ worker'[v].bill = r.bill
               \/ worker'[v].bill = acked[worker[v].op] /\ worker'[v].verdict # "MATCH"
               \/ worker'[v].bill \in ReadTargets(v)
<1> DEFINE Goal ==
      \/ worker'[v].bill = NoBill /\ worker'[v].verdict # "MATCH"
      \/ /\ worker'[v].op = worker[v].op /\ worker'[v].bill = worker[v].bill
         /\ worker'[v].verdict = "MATCH" => worker[v].verdict = "MATCH"
      \/ /\ worker'[v].op = worker[v].op /\ worker[v].pc # "idle" /\ UNCHANGED bills
         /\ \/ \E r \in replies : Answers(r, v) /\ r.bill # NoBill /\ worker'[v].bill = r.bill
            \/ worker'[v].bill = acked[worker[v].op] /\ worker'[v].verdict # "MATCH"
            \/ worker'[v].bill \in ReadTargets(v)
<1>. USE DEF TypeOK, WorkerState, Call, Idle, Becomes, Learn, Goto, Return, At, provider
<1>1. ASSUME NEW w \in Workers, Prepare(w) PROVE Goal
  BY <1>1 DEF Prepare, PrepareEvidenceBlocked, PrepareDenied, PrepareDispatch,
    PrepareRecoveryRequired
<1>2. ASSUME NEW w \in Workers, ReceiveCreated(w) PROVE Goal
  <2>1. CASE v = w
    <3>1. PICK r \in replies : Answers(r, v) /\ r.bill # NoBill /\ worker'[v].bill = r.bill
      BY <1>2, <2>1 DEF ReceiveCreated
    <3>2. worker'[v].op = worker[v].op /\ worker[v].pc # "idle" /\ UNCHANGED bills
      BY <1>2, <2>1 DEF ReceiveCreated
    <3>3. QED BY <3>1, <3>2
  <2>2. CASE v # w
    BY <1>2, <2>2 DEF ReceiveCreated
  <2>3. QED BY <2>1, <2>2
<1>3. ASSUME NEW w \in Workers,
             FailBeforeDelivery(w) \/ SendCreate(w) \/ ReceiveRejected(w) \/ DeliveryUncertain(w)
      PROVE  Goal
  <2>1. Goto(w, "failSafe") \/ Goto(w, "posting") \/ Goto(w, "failUncertain")
    BY <1>3 DEF FailBeforeDelivery, SendCreate, ReceiveRejected, DeliveryUncertain
  <2>2. QED BY <2>1
<1>4. ASSUME NEW w \in Workers, RecordAcknowledged(w) PROVE Goal
  BY <1>4 DEF RecordAcknowledged
<1>5. ASSUME NEW w \in Workers, BeginRecovery(w) PROVE Goal
  BY <1>5 DEF BeginRecovery
<1>6. ASSUME NEW w \in Workers,
             RecordFailure(w) \/ RecordMatch(w) \/ RecordNoMatch(w) \/ CallRejected(w) \/ Crash(w)
      PROVE  Goal
  BY <1>6 DEF RecordFailure, RecordMatch, RecordNoMatch, CallRejected, Crash
<1>7. ASSUME NEW w \in Workers, ReadObserved(w) PROVE Goal
  BY <1>7 DEF ReadObserved
<1>8. ASSUME NEW w \in Workers, ReadAbsent(w) \/ ReadUnavailable(w) PROVE Goal
  BY <1>8 DEF ReadAbsent, ReadUnavailable
<1>9. QED
  BY <1>1, <1>2, <1>3, <1>4, <1>5, <1>6, <1>7, <1>8, WhoChanges DEF WorkerStep, Submit, Record, Read

\* The Bill a call works with carries the tag of its operation.
LEMMA CallsKnowTaggedBills ==
  ASSUME IInv, [Next]_vars, NEW v \in Workers
  PROVE  /\ worker'[v].verdict = "MATCH" => worker'[v].bill # NoBill
         /\ worker'[v].bill # NoBill =>
              /\ worker'[v].op \in Ops
              /\ bills'[worker'[v].bill].tag = worker'[v].op
<1>. USE DEF IInv
<1>1. \A b \in BillIds, o \in Ops : bills[b].tag = o => bills'[b].tag = o
  BY TagsStay, ConstantsAssumption DEF TypeOK
<1>2. worker[v].bill \in BillIds \cup {NoBill} /\ (worker[v].pc # "idle" => worker[v].op \in Ops)
  BY DEF TypeOK, WorkerState, WorkersHaveOps
<1>3. \A b \in ReadTargets(v) : worker[v].pc # "idle" => b \in BillIds /\ bills[b].tag = worker[v].op
  BY <1>2 DEF ReadTargets, Correlated, ReferencesAreTagged
<1>4. \A r \in replies : Answers(r, v) /\ r.bill # NoBill =>
        r.bill \in BillIds /\ bills[r.bill].tag = worker[v].op
  BY DEF TypeOK, Replies, Answers, GrantToken
<1>5. worker[v].pc # "idle" /\ acked[worker[v].op] # NoBill =>
        acked[worker[v].op] \in BillIds /\ bills[acked[worker[v].op]].tag = worker[v].op
  BY <1>2 DEF TypeOK, ReferencesAreTagged
<1>6. \/ worker'[v].bill = NoBill /\ worker'[v].verdict # "MATCH"
      \/ /\ worker'[v].op = worker[v].op /\ worker'[v].bill = worker[v].bill
         /\ worker'[v].verdict = "MATCH" => worker[v].verdict = "MATCH"
      \/ /\ worker'[v].op = worker[v].op /\ worker[v].pc # "idle" /\ UNCHANGED bills
         /\ \/ \E r \in replies : Answers(r, v) /\ r.bill # NoBill /\ worker'[v].bill = r.bill
            \/ worker'[v].bill = acked[worker[v].op] /\ worker'[v].verdict # "MATCH"
            \/ worker'[v].bill \in ReadTargets(v)
  BY BillMoves
<1>7. QED BY <1>1, <1>2, <1>3, <1>4, <1>5, <1>6, ConstantsAssumption DEF ReferencesAreTagged

\* An acknowledged Bill carries the tag of its operation.
LEMMA AcknowledgedIsTagged ==
  ASSUME IInv, [Next]_vars, NEW o \in Ops, acked'[o] # NoBill
  PROVE  bills'[acked'[o]].tag = o
<1>1. acked'[o] \in BillIds /\ bills[acked'[o]].tag = o
  <2>1. ASSUME NEW w \in Workers, RecordAcknowledged(w)
        PROVE  acked'[o] \in BillIds /\ bills[acked'[o]].tag = o
    BY <2>1 DEF IInv, TypeOK, WorkerState, RecordAcknowledged, ReferencesAreTagged
  <2>2. QED BY <2>1, WhoChanges DEF IInv, TypeOK, ReferencesAreTagged
<1>2. QED BY <1>1, TagsStay, ConstantsAssumption DEF IInv, TypeOK

\* A binding and SUCCEEDED come together, and the bound Bill carries the tag.
LEMMA BoundStep ==
  ASSUME IInv, [Next]_vars, NEW o \in Ops
  PROVE  /\ state'[o] = "SUCCEEDED" <=> binding'[o] # NoBill
         /\ binding'[o] # NoBill => bills'[binding'[o]].tag = o
<1>1. ASSUME NEW w \in Workers, RecordMatch(w), worker[w].op = o
      PROVE  /\ state'[o] = "SUCCEEDED" /\ binding'[o] \in BillIds
             /\ bills[binding'[o]].tag = o
  BY <1>1 DEF IInv, TypeOK, WorkerState, RecordMatch, SetState, ReferencesAreTagged
<1>2. ASSUME ~\E w \in Workers : RecordMatch(w) /\ worker[w].op = o
      PROVE  state'[o] = "SUCCEEDED" <=> state[o] = "SUCCEEDED"
  BY <1>2, StateMoves DEF IInv, TypeOK, SetState, InFlightStates, IntakeMove, IntakeTargets,
    PassiveRetryStates, PrepareEvidenceBlocked, EvidenceTarget, PrepareDenied, PrepareDispatch,
    RecordAcknowledged, RecordFailure, BeginRecovery, RecordNoMatch
<1>3. ASSUME ~\E w \in Workers : RecordMatch(w) /\ worker[w].op = o
      PROVE  binding'[o] = binding[o]
  BY <1>3, WhoChanges DEF IInv, TypeOK, RecordMatch
<1>4. binding'[o] # NoBill => binding'[o] \in BillIds /\ bills[binding'[o]].tag = o
  BY <1>1, <1>3 DEF IInv, TypeOK, SucceededIsBound
<1>5. binding'[o] # NoBill => bills'[binding'[o]].tag = o
  BY <1>4, TagsStay, ConstantsAssumption DEF IInv, TypeOK
<1>6. state'[o] = "SUCCEEDED" <=> binding'[o] # NoBill
  BY <1>1, <1>2, <1>3, ConstantsAssumption DEF IInv, SucceededIsBound
<1>7. QED BY <1>5, <1>6

----------------------------------------------------------------------------
(***************************************************************************)
(* The invariant, and what follows from it.                                *)
(***************************************************************************)
LEMMA IInvInit == Init => IInv
<1> SUFFICES ASSUME Init PROVE IInv
  OBVIOUS
<1>1. TypeOK
  BY ConstantsAssumption DEF Init, TypeOK, States, EvidenceStatus, WorkerState, Points, Verdicts,
    Idle, Call, Bill, AbsentBill
<1>2. WorkersHaveOps /\ GrantToken /\ ReferencesAreTagged
  BY ConstantsAssumption DEF Init, WorkersHaveOps, GrantToken, ReferencesAreTagged, HoldsGrant,
    GrantPoints, Idle, Call
<1>3. SingleSubmit /\ FailureIsProof /\ ProviderOrder /\ SucceededIsBound
  BY ConstantsAssumption DEF Init, SingleSubmit, FailureIsProof, ProviderOrder, NoDuplicateBill,
    SucceededIsBound, NothingCreated, NotOnWire, Unanswered, HoldsGrant, GrantPoints, Idle,
    Call, AbsentBill, InFlightStates
<1>4. QED BY <1>1, <1>2, <1>3 DEF IInv

LEMMA IInvStep == IInv /\ [Next]_vars => IInv'
<1> SUFFICES ASSUME IInv, [Next]_vars PROVE IInv'
  OBVIOUS
<1>1. TypeOK' /\ WorkersHaveOps'
  BY TypeOKStep, WorkersHaveOpsStep DEF IInv
<1>2. SingleSubmit'
  BY SingleSubmitStep
<1>3. GrantToken'
  BY <1>1, OneHolder, UnspentGrant, UnprocessedRequest, RejectionIsProof, AnswerIsTagged
     DEF GrantToken, WorkersHaveOps
<1>4. FailureIsProof'
  BY <1>1, FailSafeIsProof, FailedSafeStaysProof DEF FailureIsProof, WorkersHaveOps
<1>5. ProviderOrder'
  BY OneBillPerOperation, FreshIds, TagsHaveCreators DEF ProviderOrder
<1>6. ReferencesAreTagged'
  BY CallsKnowTaggedBills, AcknowledgedIsTagged DEF ReferencesAreTagged
<1>7. SucceededIsBound'
  BY BoundStep DEF SucceededIsBound
<1>8. QED BY <1>1, <1>2, <1>3, <1>4, <1>5, <1>6, <1>7 DEF IInv

\* The strengthened invariant holds of every execution.
THEOREM Invariant == Spec => []IInv
BY IInvInit, IInvStep, PTL DEF Spec

\* The posting tables, the calls and the provider keep their types.
THEOREM TypeCorrect == Spec => []TypeOK
BY Invariant, PTL DEF IInv

\* No crash, lost answer, late request or concurrent call makes the service
\* create a second Bill for an operation.
THEOREM AtMostOneBill == Spec => []NoDuplicateBill
<1>1. IInv => NoDuplicateBill
  BY DEF IInv, ProviderOrder
<1>2. QED BY <1>1, Invariant, PTL

\* An operation the service reports as safely failed left nothing behind, and
\* nothing of it is under way.
THEOREM FailedSafeProved == Spec => []FailedSafeIsProof
<1>1. IInv => FailedSafeIsProof
  BY DEF IInv, FailureIsProof, FailedSafeIsProof, NothingCreated, NotOnWire, Created, Requested
<1>2. QED BY <1>1, Invariant, PTL

\* A posted operation is bound to a Bill that carries its tag, and only a
\* posted one is bound.
THEOREM PostedIsBound == Spec => []SucceededIsBound
<1>1. IInv => SucceededIsBound
  BY DEF IInv
<1>2. QED BY <1>1, Invariant, PTL

\* What a person may still review, and what was denied, was never sent.
THEOREM ReviewedIsUnsent == Spec => []UnsentUntilDispatched
<1>1. IInv => UnsentUntilDispatched
  BY DEF IInv, SingleSubmit, UnsentUntilDispatched, NothingCreated, NotOnWire, Created, Requested
<1>2. QED BY <1>1, Invariant, PTL

\* A settled operation is never moved again, and a binding never rewritten.
THEOREM SettledStays == Spec => Settled
<1> DEFINE Kept ==
      \A o \in Ops :
        /\ state[o] \in {"SUCCEEDED", "DENIED", "FAILED_SAFE"} => state'[o] = state[o]
        /\ binding[o] # NoBill => binding'[o] = binding[o]
<1>1. IInv /\ [Next]_vars => [Kept]_vars
  <2> SUFFICES ASSUME IInv, [Next]_vars, NEW o \in Ops
               PROVE  /\ state[o] \in {"SUCCEEDED", "DENIED", "FAILED_SAFE"} => state'[o] = state[o]
                      /\ binding[o] # NoBill => binding'[o] = binding[o]
    OBVIOUS
  <2>1. state[o] \in {"SUCCEEDED", "DENIED", "FAILED_SAFE"} => state'[o] = state[o]
    BY StateMoves DEF IInv, InFlightStates, IntakeMove, PassiveRetryStates,
      PrepareEvidenceBlocked, PrepareDenied, PrepareDispatch, RecordAcknowledged,
      RecordFailure, BeginRecovery, RecordMatch, RecordNoMatch
  <2>2. binding[o] # NoBill => binding'[o] = binding[o]
    BY WhoChanges DEF IInv, TypeOK, RecordMatch, SucceededIsBound
  <2>3. QED BY <2>1, <2>2
<1>2. QED BY <1>1, Invariant, PTL DEF Spec, Settled

----------------------------------------------------------------------------
(***************************************************************************)
(* The refinement of PostingContract.                                      *)
(***************************************************************************)
Promised == <<[o \in Ops |-> Outcome(o)], [o \in Ops |-> Created(o)]>>

\* A step that changes no state and no origin is a stutter of the contract.
LEMMA QuietStep ==
  ASSUME UNCHANGED state, \A b \in BillIds : bills'[b].origin = bills[b].origin
  PROVE  UNCHANGED Promised
BY DEF Promised, Outcome, Created

\* A step that changes one state only changes that outcome.
LEMMA OutcomeStep ==
  ASSUME state \in [Ops -> States], NEW o \in Ops, NEW s, SetState(o, s), UNCHANGED bills
  PROVE  /\ [p \in Ops |-> Created(p)]' = [p \in Ops |-> Created(p)]
         /\ [p \in Ops |-> Outcome(p)]' = [[p \in Ops |-> Outcome(p)] EXCEPT ![o] = Outcome(o)']
<1>1. [p \in Ops |-> Created(p)]' = [p \in Ops |-> Created(p)]
  BY DEF Created
<1>2. \A p \in Ops \ {o} : Outcome(p)' = Outcome(p)
  BY DEF SetState, Outcome
<1>3. QED BY <1>1, <1>2

\* An operation settles as not posted only while it created nothing.
LEMMA SettlesUnposted ==
  ASSUME state \in [Ops -> States], NEW o \in Ops, NEW s \in {"DENIED", "FAILED_SAFE"},
         SetState(o, s), UNCHANGED bills,
         state[o] \notin {"SUCCEEDED", "DENIED", "FAILED_SAFE"}, NothingCreated(o)
  PROVE  Contract!SettleNotPosted(o)
<1>1. Outcome(o) = "OPEN" /\ Outcome(o)' = "NOT_POSTED"
  BY DEF Outcome, SetState
<1>2. Created(o) = {}
  BY DEF Created, NothingCreated
<1>3. QED BY <1>1, <1>2, OutcomeStep DEF Contract!SettleNotPosted

\* A step between states that are both open is a stutter of the contract.
LEMMA StaysOpen ==
  ASSUME state \in [Ops -> States], NEW o \in Ops, NEW s, SetState(o, s), UNCHANGED bills,
         state[o] \notin {"SUCCEEDED", "DENIED", "FAILED_SAFE"},
         s \notin {"SUCCEEDED", "DENIED", "FAILED_SAFE"}
  PROVE  UNCHANGED Promised
<1>1. Outcome(o)' = Outcome(o)
  BY DEF Outcome, SetState
<1>2. QED BY <1>1, OutcomeStep DEF Promised

\* The provider creates the Bill of an operation that is still open and has
\* created none.
LEMMA CreatesOnce ==
  ASSUME IInv, NEW r \in wire, ProviderCreates(r)
  PROVE  Contract!Create(r.op)
<1>. USE DEF IInv, TypeOK
<1>1. r.op \in Ops /\ r.op # NoOp /\ NothingCreated(r.op)
  BY ConstantsAssumption DEF Requests, GrantToken
<1>2. Outcome(r.op) = "OPEN"
  <2>1. state[r.op] # "SUCCEEDED"
    <3>1. CASE binding[r.op] = NoBill
      BY <1>1, <3>1 DEF SucceededIsBound
    <3>2. CASE binding[r.op] # NoBill
      BY <1>1, <3>2 DEF SucceededIsBound, ProviderOrder, NothingCreated
    <3>3. QED BY <3>1, <3>2
  <2>2. state[r.op] # "FAILED_SAFE"
    BY <1>1 DEF FailureIsProof, NotOnWire
  <2>3. submits[r.op] # 0
    BY <1>1 DEF SingleSubmit, NotOnWire
  <2>4. state[r.op] # "DENIED"
    BY <1>1, <2>3 DEF SingleSubmit, InFlightStates
  <2>5. QED BY <2>1, <2>2, <2>4 DEF Outcome
<1>3. PICK b \in BillIds :
        /\ bills[b].status = "ABSENT"
        /\ \E m \in {"AS_AUTHORIZED", "DIFFERENT"} : Stores(b, r.op, r.op, "LIVE", m)
  BY DEF ProviderCreates
<1>4. bills[b].origin = NoOp
  BY <1>3 DEF ProviderOrder
<1>5. \A p \in Ops : b \notin Created(p)
  BY <1>4, ConstantsAssumption DEF Created
<1>6. Created(r.op) = {} /\ Created(r.op)' = {b}
  BY <1>1, <1>3 DEF Created, NothingCreated, Stores
<1>7. \A p \in Ops \ {r.op} : Created(p)' = Created(p)
  BY <1>1, <1>3, <1>5 DEF Created, Stores
<1>8. [p \in Ops |-> Created(p)]' = [[p \in Ops |-> Created(p)] EXCEPT ![r.op] = {b}]
  BY <1>1, <1>6, <1>7
<1>9. UNCHANGED [p \in Ops |-> Outcome(p)]
  BY DEF ProviderCreates, store, Outcome
<1>10. QED BY <1>1, <1>2, <1>5, <1>6, <1>8, <1>9 DEF Contract!Create

\* A match settles an operation whose Bill exists.
LEMMA MatchSettles ==
  ASSUME IInv, NEW w \in Workers, RecordMatch(w)
  PROVE  worker[w].op \in Ops /\ Contract!SettlePosted(worker[w].op)
<1>0. PICK o \in Ops : o = worker[w].op
  BY DEF RecordMatch, WorkersHaveOps, At, IInv
<1>. DEFINE b == worker[w].bill
<1>1. o \in Ops /\ b \in BillIds \cup {NoBill} /\ state \in [Ops -> States]
  BY DEF IInv, TypeOK, WorkerState
<1>2. /\ worker[w].verdict = "MATCH" /\ state[o] = "VERIFYING"
      /\ SetState(o, "SUCCEEDED") /\ UNCHANGED bills
  BY <1>0 DEF RecordMatch, provider
<1>3. b \in BillIds /\ bills[b].tag = o
  BY <1>0, <1>1, <1>2 DEF IInv, ReferencesAreTagged
<1>4. PICK c \in BillIds : bills[c].origin = o
  BY <1>1, <1>3, ConstantsAssumption DEF IInv, ProviderOrder
<1>5. Created(o) # {}
  BY <1>4 DEF Created
<1>6. Outcome(o) = "OPEN" /\ Outcome(o)' = "POSTED"
  <2>1. state'[o] = "SUCCEEDED"
    BY <1>1, <1>2 DEF SetState
  <2>2. QED BY <1>2, <2>1 DEF Outcome
<1>7. QED
  <2>1. Contract!SettlePosted(o)
    BY <1>1, <1>2, <1>5, <1>6, OutcomeStep DEF Contract!SettlePosted
  <2>2. QED BY <1>0, <1>1, <2>1

\* Every step of the service is a step of the contract or changes nothing the
\* contract speaks of.
LEMMA ContractStep == IInv /\ [Next]_vars => [Contract!Next]_Promised
<1> SUFFICES ASSUME IInv, [Next]_vars PROVE Contract!Next \/ UNCHANGED Promised
  OBVIOUS
<1> DEFINE Goal == Contract!Next \/ UNCHANGED Promised
<1>t. /\ state \in [Ops -> States]
      /\ bills \in [BillIds -> Bill]
      /\ \A o \in Ops : state[o] \notin InFlightStates \cup {"SUCCEEDED", "FAILED_SAFE"}
           => NothingCreated(o)
  BY DEF IInv, TypeOK, SingleSubmit
<1>u. ASSUME NEW o \in Ops, NEW s \in {"DENIED", "REVIEW", "VALIDATED", "AUTHORIZED", "SUBMITTING"},
             state[o] \in {"PROPOSED", "REVIEW", "VALIDATED", "AUTHORIZED"},
             SetState(o, s), UNCHANGED bills
      PROVE  Goal
  <2>1. CASE s = "DENIED"
    BY <1>t, <1>u, <2>1, SettlesUnposted DEF InFlightStates, Contract!Next
  <2>2. CASE s # "DENIED"
    BY <1>t, <1>u, <2>2, StaysOpen
  <2>3. QED BY <2>1, <2>2
<1>1. ASSUME NEW o \in Ops, NEW to \in IntakeTargets, IntakeMove(o, to) PROVE Goal
  BY <1>t, <1>u, <1>1 DEF IntakeMove, IntakeTargets, PassiveRetryStates, States, provider
<1>2. ASSUME NEW w \in Workers, NEW o \in Ops,
             PrepareEvidenceBlocked(w, o) \/ PrepareDenied(w, o) \/ PrepareDispatch(w, o)
      PROVE  Goal
  BY <1>u, <1>2 DEF PrepareEvidenceBlocked, EvidenceTarget, PrepareDenied, PrepareDispatch, provider
<1>3. ASSUME NEW w \in Workers, RecordFailure(w) PROVE Goal
  <2>1. /\ worker[w].op \in Ops
        /\ worker[w].pc = "failSafe" => NothingCreated(worker[w].op)
    BY <1>3 DEF IInv, RecordFailure, WorkersHaveOps, FailureIsProof
  <2>2. UNCHANGED bills /\ state[worker[w].op] \in InFlightStates
    BY <1>3 DEF RecordFailure, provider
  <2>3. CASE At(w, "failSafe")
    <3>1. SetState(worker[w].op, "FAILED_SAFE")
      BY <1>3, <2>3 DEF RecordFailure
    <3>2. Contract!SettleNotPosted(worker[w].op)
      BY <1>t, <2>1, <2>2, <2>3, <3>1, SettlesUnposted DEF InFlightStates, At
    <3>3. QED BY <2>1, <3>2 DEF Contract!Next
  <2>4. CASE ~At(w, "failSafe")
    <3>1. SetState(worker[w].op, "UNCERTAIN")
      BY <1>3, <2>4 DEF RecordFailure
    <3>2. QED BY <1>t, <2>1, <2>2, <3>1, StaysOpen DEF InFlightStates
  <2>5. QED BY <2>3, <2>4
<1>4. ASSUME NEW w \in Workers,
             RecordAcknowledged(w) \/ BeginRecovery(w) \/ RecordNoMatch(w)
      PROVE  Goal
  <2>1. worker[w].op \in Ops
    BY <1>4 DEF IInv, WorkersHaveOps, RecordAcknowledged, BeginRecovery, RecordNoMatch, At
  <2>2. /\ SetState(worker[w].op, "VERIFYING") \/ SetState(worker[w].op, "UNCERTAIN")
        /\ state[worker[w].op] \in InFlightStates /\ UNCHANGED bills
    BY <1>4 DEF RecordAcknowledged, BeginRecovery, RecordNoMatch, InFlightStates, provider
  <2>3. QED BY <1>t, <2>1, <2>2, StaysOpen DEF InFlightStates
<1>5. ASSUME NEW w \in Workers, RecordMatch(w) PROVE Goal
  BY <1>5, MatchSettles DEF Contract!Next
<1>6. ASSUME NEW r \in wire, ProviderCreates(r) PROVE Goal
  <2>1. r.op \in Ops
    BY DEF IInv, TypeOK, Requests
  <2>2. QED BY <1>6, <2>1, CreatesOnce DEF Contract!Next
<1>7. ASSUME UserStep PROVE Goal
  <2>1. \A c \in BillIds : bills[c].origin # NoOp => bills'[c].origin = bills[c].origin
    BY <1>t, BillsStay DEF IInv, ProviderOrder
  <2>2. \A c \in BillIds : bills'[c].origin = bills[c].origin
    BY <1>t, <1>7, <2>1, UsersCreateNothing
  <2>3. QED BY <1>7, <2>2, QuietStep DEF UserStep, UserEditsBill, UserCopiesBill, store
<1>8. CASE UNCHANGED <<state, bills>>
  BY <1>8, QuietStep
<1>9. QED
  BY <1>1, <1>2, <1>3, <1>4, <1>5, <1>6, <1>7, <1>8 DEF Next, WorldChanges, WorkerStep, Prepare,
    PrepareRecoveryRequired, Submit, FailBeforeDelivery, SendCreate, ReceiveCreated,
    ReceiveRejected, DeliveryUncertain, Record, CallRejected, Read, ReadObserved, ReadAbsent,
    ReadUnavailable, Crash, ProviderStep, ProviderRejects, RequestLost, UserStep, vars, store, provider

\* The posting boundary as implemented keeps the posting contract: at most one
\* Bill, "posted" only of a created one, "not posted" only when none will be.
THEOREM Refinement == Spec => KeepsContract
<1>1. Init => Contract!Init
  BY ConstantsAssumption DEF Init, Contract!Init, Outcome, Created, AbsentBill
<1>2. QED
  BY <1>1, ContractStep, Invariant, PTL DEF Spec, KeepsContract, Contract!Spec, Promised

=============================================================================
