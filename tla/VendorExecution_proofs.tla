------------------------ MODULE VendorExecution_proofs ------------------------
(***************************************************************************)
(* The safety of VendorExecution for every set of operations, workers and  *)
(* Vendors.  The invariant is that of BillExecution_proofs for the calls   *)
(* that create, with the token of an adoption beside the grant to send:    *)
(* the two exclude each other, which is why an adoption that fails may     *)
(* reopen its operation.                                                   *)
(***************************************************************************)
EXTENDS VendorExecution, TLAPS

\* A call that holds the execution grant of its operation: it committed the
\* SUBMIT attempt and has not returned.
GrantPoints == {"dispatch", "posting", "acknowledge", "failSafe", "failUncertain"}
HoldsGrant(w, o) == worker[w].op = o /\ worker[w].pc \in GrantPoints

Unanswered(o) == \A r \in replies : r.op # o
NotOnWire(o) == \A r \in wire : r.op # o
NothingCreated(o) == \A b \in Vendors : vendors[b].origin # o

\* Every running call works for an operation.
WorkersHaveOps ==
  \A w \in Workers : worker[w].pc # "idle" => worker[w].op \in Ops

\* SUBMIT attempts are made from AUTHORIZED only, and never twice.
SingleSubmit ==
  \A o \in Ops :
    /\ submits[o] \in {0, 1}
    /\ state[o] \notin InFlightStates \cup {"SUCCEEDED", "FAILED_SAFE"} => submits[o] = 0
    /\ submits[o] = 0 =>
         /\ NothingCreated(o) /\ NotOnWire(o) /\ Unanswered(o)
         /\ \A w \in Workers : ~HoldsGrant(w, o)

\* The grant is a token: one call holds it, and exchanges it for one request,
\* the request for one answer.
GrantToken ==
  /\ \A v, w \in Workers : \A o \in Ops : HoldsGrant(v, o) /\ HoldsGrant(w, o) => v = w
  /\ \A w \in Workers : worker[w].pc \in GrantPoints => worker[w].attempt = 1
  /\ \A w \in Workers : worker[w].pc = "dispatch" =>
       /\ NothingCreated(worker[w].op) /\ NotOnWire(worker[w].op) /\ Unanswered(worker[w].op)
  /\ \A r \in wire : r.attempt = 1 /\ NothingCreated(r.op) /\ Unanswered(r.op)
  /\ \A r \in replies : r.vendor = NoVendor => NothingCreated(r.op) /\ NotOnWire(r.op)
  /\ \A r \in replies : r.vendor # NoVendor => vendors[r.vendor].tag = r.op

\* An adoption is a token too: one call adopts for an operation, which was never
\* sent and stays in flight until that call has answered.
AdoptPoints == {"adoptRead", "adoptRecord"}
Adopts(w, o) == worker[w].op = o /\ worker[w].pc \in AdoptPoints
AdoptionToken ==
  /\ \A v, w \in Workers : \A o \in Ops : Adopts(v, o) /\ Adopts(w, o) => v = w
  /\ \A w \in Workers : \A o \in Ops : Adopts(w, o) =>
       /\ submits[o] = 0 /\ state[o] \in InFlightStates
       /\ worker[w].vendor # NoVendor

\* A binding names a Vendor and how it came about, and what was adopted was not
\* created as well.
AdoptedIsUnsent ==
  \A o \in Ops :
    /\ binding[o] # Unbound =>
         binding[o].vendor \in Vendors /\ binding[o].kind \in {"CREATED", "ADOPTED"}
    /\ binding[o].kind = "ADOPTED" => submits[o] = 0

\* A failure called safe is backed by the absence of the Vendor.
FailureIsProof ==
  /\ \A w \in Workers : worker[w].pc = "failSafe" =>
       NothingCreated(worker[w].op) /\ NotOnWire(worker[w].op)
  /\ \A o \in Ops : state[o] = "FAILED_SAFE" =>
       /\ NothingCreated(o) /\ NotOnWire(o)
       /\ \A w \in Workers : worker[w].op = o => worker[w].pc \notin {"dispatch", "posting"}

\* The provider's side: identifiers are used once, and every tag goes back to
\* a Vendor its operation created.
ProviderOrder ==
  /\ NoDuplicateVendor
  /\ \A b \in Vendors : ~vendors[b].exists =>
       vendors[b].origin = NoOp /\ vendors[b].tag = NoOp
  /\ \A b \in Vendors : vendors[b].tag # NoOp =>
       \E c \in Vendors : vendors[c].origin = vendors[b].tag

\* Whatever Vendor the creation of an operation refers to carries its tag.
ReferencesAreTagged ==
  /\ \A w \in Workers : worker[w].vendor # NoVendor =>
       /\ worker[w].op \in Ops
       /\ worker[w].pc \notin AdoptPoints => vendors[worker[w].vendor].tag = worker[w].op
  /\ \A w \in Workers : worker[w].verdict = "MATCH" => worker[w].vendor # NoVendor
  /\ \A o \in Ops : acked[o] # NoVendor => vendors[acked[o]].tag = o

IInv ==
  /\ TypeOK
  /\ WorkersHaveOps
  /\ SingleSubmit
  /\ GrantToken
  /\ AdoptionToken
  /\ AdoptedIsUnsent
  /\ FailureIsProof
  /\ ProviderOrder
  /\ ReferencesAreTagged
  /\ BindingsAreTrue

----------------------------------------------------------------------------
(***************************************************************************)
(* Type correctness.                                                       *)
(***************************************************************************)

\* Each disjunct of Next keeps every variable in its type.
LEMMA TypeOKStep == TypeOK /\ WorkersHaveOps /\ [Next]_vars => TypeOK'
<1> USE ConstantsAssumption DEF TypeOK, WorkerState, Call, Idle, Points, Verdicts,
      Becomes, Learn, Goto, Return, SetState, States, Vendor, VendorOf, Binding, Unbound,
      Requests, Replies, store, provider
<1> SUFFICES ASSUME TypeOK, WorkersHaveOps, [Next]_vars PROVE TypeOK'
  OBVIOUS
<1>1. ASSUME NEW o \in Ops, NEW to \in IntakeTargets, IntakeMove(o, to) PROVE TypeOK'
  BY <1>1 DEF IntakeMove, IntakeTargets
<1>2. ASSUME NEW o \in Ops, WorldChanges(o) PROVE TypeOK'
  BY <1>2 DEF WorldChanges
<1>3. ASSUME NEW w \in Workers, Prepare(w) PROVE TypeOK'
  <2>. PICK o \in Ops : \/ PrepareDenied(w, o) \/ PrepareDispatch(w, o)
                        \/ PrepareRecoveryRequired(w, o)
                        \/ \E v \in Vendors : AdoptRefused(w, o, v) \/ AdoptStart(w, o, v)
    BY <1>3 DEF Prepare
  <2>1. CASE PrepareDenied(w, o)
    BY <2>1 DEF PrepareDenied
  <2>2. CASE PrepareDispatch(w, o)
    BY <2>2 DEF PrepareDispatch
  <2>3. CASE PrepareRecoveryRequired(w, o)
    BY <2>3 DEF PrepareRecoveryRequired
  <2>4. ASSUME NEW v \in Vendors, AdoptRefused(w, o, v) \/ AdoptStart(w, o, v) PROVE TypeOK'
    <3>1. CASE AdoptRefused(w, o, v)
      BY <3>1 DEF AdoptRefused
    <3>2. CASE AdoptStart(w, o, v)
      <4>1. state' \in [Ops -> States]
        BY <3>2 DEF AdoptStart
      <4>2. worker' \in [Workers -> WorkerState]
        BY <3>2 DEF AdoptStart
      <4>3. QED BY <3>2, <4>1, <4>2 DEF AdoptStart
    <3>3. QED BY <2>4, <3>1, <3>2
  <2>5. QED BY <2>1, <2>2, <2>3, <2>4
<1>4. ASSUME NEW w \in Workers, Submit(w) PROVE TypeOK'
  <2>1. CASE FailBeforeDelivery(w)
    BY <2>1 DEF FailBeforeDelivery
  <2>2. CASE SendCreate(w)
    <3>1. worker[w].op \in Ops /\ worker[w].attempt \in Nat
      BY <2>2 DEF SendCreate, At, WorkersHaveOps
    <3>2. worker' \in [Workers -> WorkerState] /\ wire' \in SUBSET Requests
      BY <2>2, <3>1 DEF SendCreate, RequestOf
    <3>3. QED BY <2>2, <3>2 DEF SendCreate
  <2>3. CASE ReceiveCreated(w)
    <3>1. PICK r \in replies : Learn(w, "acknowledge", r.vendor, "NONE")
      BY <2>3 DEF ReceiveCreated
    <3>2. worker' \in [Workers -> WorkerState]
      BY <3>1
    <3>3. QED BY <2>3, <3>2 DEF ReceiveCreated
  <2>4. CASE ReceiveRejected(w)
    BY <2>4 DEF ReceiveRejected
  <2>5. CASE DeliveryUncertain(w)
    BY <2>5 DEF DeliveryUncertain
  <2>6. QED BY <1>4, <2>1, <2>2, <2>3, <2>4, <2>5 DEF Submit
<1>5. ASSUME NEW w \in Workers, Record(w) PROVE TypeOK'
  <2>1. CASE RecordAcknowledged(w)
    BY <2>1 DEF RecordAcknowledged
  <2>2. CASE RecordFailure(w)
    BY <2>2 DEF RecordFailure
  <2>3. CASE BeginRecovery(w)
    <3>1. worker[w].op \in Ops
      BY <2>3 DEF BeginRecovery, At, WorkersHaveOps
    <3>2. acked[worker[w].op] \in Vendors \cup {NoVendor}
      BY <3>1
    <3>3. QED BY <2>3, <3>2 DEF BeginRecovery
  <2>4. CASE RecordMatch(w)
    <3>1. worker[w].vendor \in Vendors \cup {NoVendor}
      OBVIOUS
    <3>2. /\ binding' \in [Ops -> Binding]
          /\ state' \in [Ops -> States]
          /\ worker' \in [Workers -> WorkerState]
      BY <2>4, <3>1 DEF RecordMatch
    <3>3. QED BY <2>4, <3>2 DEF RecordMatch
  <2>5. CASE RecordNoMatch(w)
    BY <2>5 DEF RecordNoMatch
  <2>6. CASE CallRejected(w)
    BY <2>6 DEF CallRejected
  <2>7. QED BY <1>5, <2>1, <2>2, <2>3, <2>4, <2>5, <2>6 DEF Record
<1>6. ASSUME NEW w \in Workers, Read(w) \/ Crash(w) \/ Adopt(w) PROVE TypeOK'
  <2>1. CASE ReadObserved(w)
    <3>1. PICK b \in Vendors : Learn(w, "record", b, Compare(b))
      BY <2>1 DEF ReadObserved, ReadTargets, Correlated
    <3>2. worker' \in [Workers -> WorkerState]
      BY <3>1 DEF Compare
    <3>3. QED BY <2>1, <3>2 DEF ReadObserved
  <2>2. CASE ReadAbsent(w)
    BY <2>2 DEF ReadAbsent
  <2>3. CASE ReadUnavailable(w)
    BY <2>3 DEF ReadUnavailable
  <2>4. CASE Crash(w)
    BY <2>4 DEF Crash
  <2>5. CASE AdoptRead(w) \/ AdoptOvertaken(w)
    <3>1. CASE AdoptRead(w)
      <4>1. worker' \in [Workers -> WorkerState]
        BY <3>1 DEF AdoptRead, Compare
      <4>2. QED BY <3>1, <4>1 DEF AdoptRead
    <3>2. CASE AdoptOvertaken(w)
      BY <3>2 DEF AdoptOvertaken
    <3>3. QED BY <2>5, <3>1, <3>2
  <2>6. CASE AdoptNoMatch(w)
    <3>1. state' \in [Ops -> States]
      BY <2>6 DEF AdoptNoMatch
    <3>2. worker' \in [Workers -> WorkerState]
      BY <2>6 DEF AdoptNoMatch
    <3>3. QED BY <2>6, <3>1, <3>2 DEF AdoptNoMatch
  <2>7. CASE AdoptMatch(w)
    <3>1. worker[w].vendor \in Vendors \cup {NoVendor}
      OBVIOUS
    <3>2. /\ binding' \in [Ops -> Binding]
          /\ state' \in [Ops -> States]
          /\ worker' \in [Workers -> WorkerState]
      BY <2>7, <3>1 DEF AdoptMatch
    <3>3. QED BY <2>7, <3>2 DEF AdoptMatch
  <2>8. QED BY <1>6, <2>1, <2>2, <2>3, <2>4, <2>5, <2>6, <2>7 DEF Read, Adopt
<1>7. ASSUME ProviderStep PROVE TypeOK'
  <2>1. ASSUME NEW r \in wire, ProviderCreates(r) PROVE TypeOK'
    BY <2>1 DEF ProviderCreates
  <2>2. ASSUME NEW r \in wire, ProviderRejects(r) \/ RequestLost(r) PROVE TypeOK'
    BY <2>2 DEF ProviderRejects, RequestLost
  <2>3. ASSUME NEW b \in Vendors, UserEditsVendor(b) PROVE TypeOK'
    <3>1. vendors[b] \in Vendor /\ vendors' = [vendors EXCEPT ![b].asWanted = ~@]
      BY <2>3 DEF UserEditsVendor
    <3>2. [vendors[b] EXCEPT !.asWanted = ~@] \in Vendor
      BY <3>1
    <3>3. vendors' \in [Vendors -> Vendor]
      BY <3>1, <3>2
    <3>4. QED BY <2>3, <3>3 DEF UserEditsVendor
  <2>4. ASSUME NEW b \in Vendors, UserEntersVendor(b) PROVE TypeOK'
    <3>1. PICK tag \in {NoOp} \cup {vendors[u].tag : u \in Vendors}, a \in BOOLEAN :
            vendors' = [vendors EXCEPT ![b] = VendorOf(NoOp, tag, a)]
      BY <2>4 DEF UserEntersVendor
    <3>2. tag \in Ops \cup {NoOp}
      OBVIOUS
    <3>3. vendors' \in [Vendors -> Vendor]
      BY <3>1, <3>2
    <3>4. QED BY <2>4, <3>3 DEF UserEntersVendor
  <2>5. QED BY <1>7, <2>1, <2>2, <2>3, <2>4 DEF ProviderStep
<1>8. CASE UNCHANGED vars
  BY <1>8 DEF vars
<1>9. QED
  BY <1>1, <1>2, <1>3, <1>4, <1>5, <1>6, <1>7, <1>8 DEF Next, WorkerStep

----------------------------------------------------------------------------
(***************************************************************************)
(* Who changes what.                                                       *)
(***************************************************************************)
UserStep == \E b \in Vendors : UserEditsVendor(b) \/ UserEntersVendor(b)

\* Each variable is changed by the few actions named here.
LEMMA WhoChanges ==
  ASSUME [Next]_vars
  PROVE  /\ UNCHANGED vendors \/ (\E r \in wire : ProviderCreates(r)) \/ UserStep
         /\ UNCHANGED replies \/ \E r \in wire : ProviderCreates(r) \/ ProviderRejects(r)
         /\ \/ UNCHANGED wire
            \/ \E w \in Workers : SendCreate(w)
            \/ \E r \in wire : ProviderCreates(r) \/ ProviderRejects(r) \/ RequestLost(r)
         /\ UNCHANGED submits \/ \E w \in Workers, o \in Ops : PrepareDispatch(w, o)
         /\ UNCHANGED acked \/ \E w \in Workers : RecordAcknowledged(w)
         /\ UNCHANGED binding \/ \E w \in Workers : RecordMatch(w) \/ AdoptMatch(w)
         /\ UNCHANGED worker \/ \E w \in Workers : WorkerStep(w)
<1>. USE DEF store, provider
<1>1. CASE UNCHANGED vars
  BY <1>1 DEF vars
<1>2. CASE \E o \in Ops : WorldChanges(o) \/ \E to \in IntakeTargets : IntakeMove(o, to)
  BY <1>2 DEF WorldChanges, IntakeMove
<1>3. CASE ProviderStep
  BY <1>3 DEF ProviderStep, ProviderCreates, ProviderRejects, RequestLost, UserStep,
    UserEditsVendor, UserEntersVendor
<1>4. ASSUME NEW w \in Workers, Prepare(w)
      PROVE  /\ UNCHANGED <<vendors, replies, wire, acked, binding>>
             /\ UNCHANGED submits \/ \E o \in Ops : PrepareDispatch(w, o)
  BY <1>4 DEF Prepare, PrepareDenied, PrepareDispatch, PrepareRecoveryRequired, AdoptRefused,
    AdoptStart
<1>5. ASSUME NEW w \in Workers, Submit(w)
      PROVE  /\ UNCHANGED <<vendors, replies, submits, acked, binding>>
             /\ UNCHANGED wire \/ SendCreate(w)
  BY <1>5 DEF Submit, FailBeforeDelivery, SendCreate, ReceiveCreated, ReceiveRejected,
    DeliveryUncertain
<1>6. ASSUME NEW w \in Workers, Record(w)
      PROVE  /\ UNCHANGED <<vendors, replies, wire, submits>>
             /\ UNCHANGED acked \/ RecordAcknowledged(w)
             /\ UNCHANGED binding \/ RecordMatch(w)
  BY <1>6 DEF Record, RecordAcknowledged, RecordFailure, BeginRecovery, RecordMatch,
    RecordNoMatch, CallRejected
<1>7. ASSUME NEW w \in Workers, Read(w) \/ Crash(w)
      PROVE  UNCHANGED <<vendors, replies, wire, submits, acked, binding>>
  BY <1>7 DEF Read, ReadObserved, ReadAbsent, ReadUnavailable, Crash
<1>8. ASSUME NEW w \in Workers, Adopt(w)
      PROVE  /\ UNCHANGED <<vendors, replies, wire, submits, acked>>
             /\ UNCHANGED binding \/ AdoptMatch(w)
  BY <1>8 DEF Adopt, AdoptRead, AdoptMatch, AdoptNoMatch, AdoptOvertaken
<1>9. QED BY <1>1, <1>2, <1>3, <1>4, <1>5, <1>6, <1>7, <1>8 DEF Next, WorkerStep

\* The state of an operation is moved by the intake, by the preparation of its
\* dispatch or of an adoption, and by what a call records about it.
LEMMA StateMoves ==
  ASSUME TypeOK, [Next]_vars, NEW o \in Ops, state'[o] # state[o]
  PROVE  \/ \E to \in IntakeTargets : IntakeMove(o, to)
         \/ \E w \in Workers : PrepareDenied(w, o) \/ PrepareDispatch(w, o)
         \/ \E w \in Workers, x \in Vendors : AdoptRefused(w, o, x) \/ AdoptStart(w, o, x)
         \/ \E w \in Workers :
              /\ worker[w].op = o
              /\ \/ RecordAcknowledged(w) \/ RecordFailure(w) \/ BeginRecovery(w)
                 \/ RecordMatch(w) \/ RecordNoMatch(w) \/ AdoptMatch(w) \/ AdoptNoMatch(w)
<1>1. PICK p \in Ops \cup {worker[w].op : w \in Workers} :
        /\ \/ \E to \in IntakeTargets : IntakeMove(p, to)
           \/ \E w \in Workers : PrepareDenied(w, p) \/ PrepareDispatch(w, p)
           \/ \E w \in Workers, x \in Vendors : AdoptRefused(w, p, x) \/ AdoptStart(w, p, x)
           \/ \E w \in Workers :
                /\ worker[w].op = p
                /\ \/ RecordAcknowledged(w) \/ RecordFailure(w) \/ BeginRecovery(w)
                   \/ RecordMatch(w) \/ RecordNoMatch(w) \/ AdoptMatch(w) \/ AdoptNoMatch(w)
        /\ \E s : SetState(p, s)
  <2>1. CASE \E p \in Ops, to \in IntakeTargets : IntakeMove(p, to)
    BY <2>1 DEF IntakeMove
  <2>2. CASE \E p \in Ops, w \in Workers : PrepareDenied(w, p) \/ PrepareDispatch(w, p)
    BY <2>2 DEF PrepareDenied, PrepareDispatch
  <2>3. CASE \E p \in Ops, w \in Workers, x \in Vendors :
               AdoptRefused(w, p, x) \/ AdoptStart(w, p, x)
    BY <2>3 DEF AdoptRefused, AdoptStart
  <2>4. CASE \E w \in Workers : \/ RecordAcknowledged(w) \/ RecordFailure(w)
                                \/ BeginRecovery(w) \/ RecordMatch(w) \/ RecordNoMatch(w)
    BY <2>4 DEF RecordAcknowledged, RecordFailure, BeginRecovery, RecordMatch, RecordNoMatch
  <2>5. CASE \E w \in Workers : AdoptMatch(w) \/ AdoptNoMatch(w)
    BY <2>5 DEF AdoptMatch, AdoptNoMatch
  <2>6. QED
    BY <2>1, <2>2, <2>3, <2>4, <2>5 DEF Next, vars, store, WorldChanges, WorkerStep, Prepare,
      PrepareRecoveryRequired, Submit, FailBeforeDelivery, SendCreate, ReceiveCreated,
      ReceiveRejected, DeliveryUncertain, Record, CallRejected, Read, ReadObserved, ReadAbsent,
      ReadUnavailable, Adopt, AdoptRead, AdoptOvertaken, Crash, ProviderStep, ProviderCreates,
      ProviderRejects, RequestLost, UserEditsVendor, UserEntersVendor
<1>2. p = o
  BY <1>1 DEF TypeOK, SetState
<1>3. QED BY <1>1, <1>2

USE DEF VendorOf

\* What a bookkeeper does to Vendors never makes one an operation's creation.
LEMMA UsersCreateNothing ==
  ASSUME vendors \in [Vendors -> Vendor], UserStep
  PROVE  /\ \A c \in Vendors : vendors'[c].origin \in {vendors[c].origin, NoOp}
         /\ \A o \in Ops : NothingCreated(o) => NothingCreated(o)'
<1>1. \A c \in Vendors : vendors'[c].origin \in {vendors[c].origin, NoOp}
  <2>1. ASSUME NEW b \in Vendors, UserEditsVendor(b)
        PROVE  \A c \in Vendors : vendors'[c].origin \in {vendors[c].origin, NoOp}
    BY <2>1 DEF UserEditsVendor
  <2>2. ASSUME NEW b \in Vendors, UserEntersVendor(b)
        PROVE  \A c \in Vendors : vendors'[c].origin \in {vendors[c].origin, NoOp}
    BY <2>2 DEF UserEntersVendor
  <2>3. QED BY <2>1, <2>2 DEF UserStep
<1>2. QED BY <1>1, ConstantsAssumption DEF NothingCreated

\* A Vendor that exists keeps its origin and its tag.
LEMMA VendorsStay ==
  ASSUME vendors \in [Vendors -> Vendor], [Next]_vars, NEW b \in Vendors, vendors[b].exists
  PROVE  vendors'[b].tag = vendors[b].tag /\ vendors'[b].origin = vendors[b].origin
<1> DEFINE Goal == vendors'[b].tag = vendors[b].tag /\ vendors'[b].origin = vendors[b].origin
<1>1. ASSUME NEW r \in wire, ProviderCreates(r) PROVE Goal
  BY <1>1 DEF ProviderCreates
<1>2. ASSUME NEW c \in Vendors, UserEditsVendor(c) PROVE Goal
  BY <1>2 DEF UserEditsVendor
<1>3. ASSUME NEW c \in Vendors, UserEntersVendor(c) PROVE Goal
  BY <1>3 DEF UserEntersVendor
<1>4. QED BY <1>1, <1>2, <1>3, WhoChanges DEF UserStep

\* A tag is never taken off its Vendor.
LEMMA TagsStay ==
  ASSUME vendors \in [Vendors -> Vendor], ProviderOrder, [Next]_vars,
         NEW b \in Vendors, vendors[b].tag # NoOp
  PROVE  vendors'[b].tag = vendors[b].tag
BY VendorsStay DEF ProviderOrder

\* An operation about to be dispatched was never sent.
LEMMA DispatchIsFirst ==
  ASSUME SingleSubmit, NEW w \in Workers, NEW o \in Ops, PrepareDispatch(w, o)
  PROVE  /\ submits[o] = 0
         /\ NothingCreated(o) /\ NotOnWire(o) /\ Unanswered(o)
         /\ \A v \in Workers : ~HoldsGrant(v, o)
<1>1. submits[o] = 0
  BY DEF PrepareDispatch, SingleSubmit, InFlightStates
<1>2. QED BY <1>1 DEF SingleSubmit

\* Where nothing of an operation exists and no request of it is written,
\* nothing of it appears.
LEMMA AbsenceStays ==
  ASSUME TypeOK, [Next]_vars, NEW o \in Ops, NothingCreated(o), NotOnWire(o),
         \A w \in Workers : SendCreate(w) => worker[w].op # o
  PROVE  NothingCreated(o)' /\ NotOnWire(o)' /\ (Unanswered(o) => Unanswered(o)')
<1>1. NothingCreated(o)'
  <2>1. ASSUME NEW r \in wire, ProviderCreates(r) PROVE NothingCreated(o)'
    BY <2>1 DEF TypeOK, ProviderCreates, NothingCreated, NotOnWire
  <2>2. QED BY <2>1, UsersCreateNothing, WhoChanges DEF TypeOK, NothingCreated
<1>2. NotOnWire(o)'
  BY WhoChanges DEF NotOnWire, SendCreate, RequestOf, ProviderCreates, ProviderRejects, RequestLost
<1>3. Unanswered(o) => Unanswered(o)'
  BY WhoChanges DEF NotOnWire, Unanswered, ProviderCreates, ProviderRejects
<1>4. QED BY <1>1, <1>2, <1>3

----------------------------------------------------------------------------
(***************************************************************************)
(* The conjuncts of the invariant are preserved.                           *)
(***************************************************************************)

\* A call works for an operation from its first step to its return.
LEMMA WorkersHaveOpsStep == TypeOK /\ WorkersHaveOps /\ [Next]_vars => WorkersHaveOps'
<1> SUFFICES ASSUME TypeOK, WorkersHaveOps, [Next]_vars, NEW v \in Workers
             PROVE  (worker[v].pc # "idle" => worker[v].op \in Ops)'
  BY DEF WorkersHaveOps
<1>1. ASSUME NEW w \in Workers, WorkerStep(w)
      PROVE  (worker[v].pc # "idle" => worker[v].op \in Ops)'
  <2>. USE DEF TypeOK, WorkersHaveOps, WorkerState, Call, Idle, Becomes, Learn, Goto, Return, At
  <2>1. CASE v # w
    BY <1>1, <2>1 DEF WorkerStep, Prepare, PrepareDenied,
      PrepareDispatch, PrepareRecoveryRequired, AdoptRefused, AdoptStart, Submit,
      FailBeforeDelivery, SendCreate, ReceiveCreated, ReceiveRejected, DeliveryUncertain, Record, RecordAcknowledged,
      RecordFailure, BeginRecovery, RecordMatch, RecordNoMatch, CallRejected, Read,
      ReadObserved, ReadAbsent, ReadUnavailable, Adopt, AdoptRead, AdoptMatch,
      AdoptNoMatch, AdoptOvertaken, Crash
  <2>2. CASE v = w
    BY <1>1, <2>2 DEF WorkerStep, Prepare, PrepareDenied,
      PrepareDispatch, PrepareRecoveryRequired, AdoptRefused, AdoptStart, Submit,
      FailBeforeDelivery, SendCreate, ReceiveCreated, ReceiveRejected, DeliveryUncertain, Record, RecordAcknowledged,
      RecordFailure, BeginRecovery, RecordMatch, RecordNoMatch, CallRejected, Read,
      ReadObserved, ReadAbsent, ReadUnavailable, Adopt, AdoptRead, AdoptMatch,
      AdoptNoMatch, AdoptOvertaken, Crash
  <2>3. QED BY <2>1, <2>2
<1>2. QED BY <1>1, WhoChanges DEF WorkersHaveOps

\* What one step does to the call v: it stays, it takes the grant of an
\* operation, it moves on with its grant, or it has none afterwards.
LEMMA GrantMoves ==
  ASSUME TypeOK, WorkersHaveOps, [Next]_vars, NEW v \in Workers,
         worker'[v].pc \in GrantPoints
  PROVE  \/ worker'[v] = worker[v]
         \/ /\ PrepareDispatch(v, worker'[v].op)
            /\ worker'[v].op \in Ops /\ worker'[v].pc = "dispatch"
            /\ worker'[v].attempt = submits[worker'[v].op] + 1
         \/ /\ worker[v].pc \in GrantPoints
            /\ worker'[v].op = worker[v].op /\ worker'[v].attempt = worker[v].attempt
            /\ worker'[v].pc # "dispatch"
            /\ worker'[v].pc = "posting" => SendCreate(v)
            /\ worker'[v].pc = "failSafe" => FailBeforeDelivery(v) \/ ReceiveRejected(v)
<1> DEFINE Goal ==
      \/ worker'[v] = worker[v]
      \/ /\ PrepareDispatch(v, worker'[v].op)
         /\ worker'[v].op \in Ops /\ worker'[v].pc = "dispatch"
         /\ worker'[v].attempt = submits[worker'[v].op] + 1
      \/ /\ worker[v].pc \in GrantPoints
         /\ worker'[v].op = worker[v].op /\ worker'[v].attempt = worker[v].attempt
         /\ worker'[v].pc # "dispatch"
         /\ worker'[v].pc = "posting" => SendCreate(v)
         /\ worker'[v].pc = "failSafe" => FailBeforeDelivery(v) \/ ReceiveRejected(v)
<1>. USE DEF TypeOK, WorkerState, Call, Idle, Becomes, Learn, Goto, Return, At, GrantPoints
<1>1. ASSUME NEW w \in Workers, Prepare(w) PROVE Goal
  <2>1. ASSUME NEW o \in Ops, PrepareDispatch(w, o), w = v PROVE Goal
    <3>1. worker'[v].op = o
      BY <2>1 DEF PrepareDispatch
    <3>2. QED BY <2>1, <3>1 DEF PrepareDispatch
  <2>2. ASSUME NEW o \in Ops, PrepareDispatch(w, o), w # v PROVE Goal
    BY <2>2 DEF PrepareDispatch
  <2>3. ASSUME NEW o \in Ops, PrepareDenied(w, o) \/ PrepareRecoveryRequired(w, o) PROVE Goal
    BY <2>3 DEF PrepareDenied, PrepareRecoveryRequired
  <2>4. ASSUME NEW o \in Ops, NEW x \in Vendors, AdoptRefused(w, o, x) \/ AdoptStart(w, o, x)
        PROVE  Goal
    BY <2>4 DEF AdoptRefused, AdoptStart
  <2>5. QED BY <1>1, <2>1, <2>2, <2>3, <2>4 DEF Prepare
<1>2. ASSUME NEW w \in Workers, Submit(w) PROVE Goal
  <2>1. CASE v # w
    BY <1>2, <2>1 DEF Submit, FailBeforeDelivery, SendCreate, ReceiveCreated, ReceiveRejected,
      DeliveryUncertain
  <2>2. CASE v = w /\ (FailBeforeDelivery(v) \/ SendCreate(v))
    BY <2>2 DEF FailBeforeDelivery, SendCreate
  <2>3. CASE v = w /\ (ReceiveCreated(v) \/ DeliveryUncertain(v))
    BY <2>3 DEF ReceiveCreated, DeliveryUncertain
  <2>4. CASE v = w /\ ReceiveRejected(v)
    BY <2>4 DEF ReceiveRejected
  <2>5. QED BY <1>2, <2>1, <2>2, <2>3, <2>4 DEF Submit
<1>3. ASSUME NEW w \in Workers, RecordAcknowledged(w) \/ BeginRecovery(w) PROVE Goal
  BY <1>3 DEF RecordAcknowledged, BeginRecovery
<1>4. ASSUME NEW w \in Workers,
             RecordFailure(w) \/ RecordMatch(w) \/ RecordNoMatch(w) \/ CallRejected(w) \/ Crash(w)
      PROVE  Goal
  BY <1>4 DEF RecordFailure, RecordMatch, RecordNoMatch, CallRejected, Crash
<1>5. ASSUME NEW w \in Workers, Read(w) PROVE Goal
  BY <1>5 DEF Read, ReadObserved, ReadAbsent, ReadUnavailable
<1>6. ASSUME NEW w \in Workers, Adopt(w) PROVE Goal
  BY <1>6 DEF Adopt, AdoptRead, AdoptMatch, AdoptNoMatch, AdoptOvertaken
<1>7. QED BY <1>1, <1>2, <1>3, <1>4, <1>5, <1>6, WhoChanges DEF WorkerStep, Record

\* What one step does to the call v: it stays, it begins an adoption, it has read
\* the Vendor it adopts, or it adopts nothing afterwards.
LEMMA AdoptMoves ==
  ASSUME TypeOK, WorkersHaveOps, [Next]_vars, NEW v \in Workers, worker'[v].pc \in AdoptPoints
  PROVE  \/ worker'[v] = worker[v]
         \/ /\ worker'[v].op \in Ops /\ worker'[v].vendor \in Vendors
            /\ AdoptStart(v, worker'[v].op, worker'[v].vendor)
         \/ /\ worker[v].pc = "adoptRead" /\ UNCHANGED store
            /\ worker'[v].op = worker[v].op /\ worker'[v].vendor = worker[v].vendor
<1> DEFINE Goal ==
      \/ worker'[v] = worker[v]
      \/ /\ worker'[v].op \in Ops /\ worker'[v].vendor \in Vendors
         /\ AdoptStart(v, worker'[v].op, worker'[v].vendor)
      \/ /\ worker[v].pc = "adoptRead" /\ UNCHANGED store
         /\ worker'[v].op = worker[v].op /\ worker'[v].vendor = worker[v].vendor
<1>. USE DEF TypeOK, WorkerState, Call, Idle, Becomes, Learn, Goto, Return, At, AdoptPoints
<1>1. ASSUME NEW w \in Workers, NEW o \in Ops,
             PrepareDenied(w, o) \/ PrepareDispatch(w, o) \/ PrepareRecoveryRequired(w, o)
      PROVE  Goal
  BY <1>1 DEF PrepareDenied, PrepareDispatch, PrepareRecoveryRequired
<1>2. ASSUME NEW w \in Workers, NEW o \in Ops, NEW x \in Vendors,
             AdoptRefused(w, o, x) \/ AdoptStart(w, o, x)
      PROVE  Goal
  <2>1. ASSUME AdoptStart(w, o, x), w = v PROVE Goal
    <3>1. worker'[v].op = o /\ worker'[v].vendor = x
      BY <2>1 DEF AdoptStart
    <3>2. QED BY <2>1, <3>1
  <2>2. ASSUME AdoptStart(w, o, x), w # v PROVE Goal
    BY <2>2 DEF AdoptStart
  <2>3. ASSUME AdoptRefused(w, o, x) PROVE Goal
    BY <2>3 DEF AdoptRefused
  <2>4. QED BY <1>2, <2>1, <2>2, <2>3
<1>3. ASSUME NEW w \in Workers, Submit(w) PROVE Goal
  BY <1>3 DEF Submit, FailBeforeDelivery, SendCreate, ReceiveCreated, ReceiveRejected,
     DeliveryUncertain
<1>4. ASSUME NEW w \in Workers, Record(w) \/ Crash(w) PROVE Goal
  BY <1>4 DEF Record, RecordAcknowledged, RecordFailure, BeginRecovery, RecordMatch, RecordNoMatch,
     CallRejected, Crash
<1>5. ASSUME NEW w \in Workers, Read(w) PROVE Goal
  BY <1>5 DEF Read, ReadObserved, ReadAbsent, ReadUnavailable
<1>6. ASSUME NEW w \in Workers, AdoptRead(w) PROVE Goal
  BY <1>6 DEF AdoptRead
<1>7. ASSUME NEW w \in Workers, AdoptMatch(w) \/ AdoptNoMatch(w) \/ AdoptOvertaken(w) PROVE Goal
  BY <1>7 DEF AdoptMatch, AdoptNoMatch, AdoptOvertaken
<1>8. QED BY <1>1, <1>2, <1>3, <1>4, <1>5, <1>6, <1>7, WhoChanges DEF WorkerStep, Prepare, Adopt

\* An operation enters the states that stand for "sent" through its first
\* dispatch only.
LEMMA SingleSubmitStep == IInv /\ [Next]_vars => SingleSubmit'
<1> SUFFICES ASSUME IInv, [Next]_vars, NEW o \in Ops
             PROVE  /\ submits'[o] \in {0, 1}
                    /\ state'[o] \notin InFlightStates \cup {"SUCCEEDED", "FAILED_SAFE"}
                         => submits'[o] = 0
                    /\ submits'[o] = 0 =>
                         /\ NothingCreated(o)' /\ NotOnWire(o)' /\ Unanswered(o)'
                         /\ \A w \in Workers : ~HoldsGrant(w, o)'
  BY DEF SingleSubmit
<1>1. ASSUME NEW w \in Workers, NEW p \in Ops, PrepareDispatch(w, p)
      PROVE  submits' = [submits EXCEPT ![p] = 1] /\ state'[p] = "SUBMITTING"
  <2>1. submits[p] = 0 /\ state \in [Ops -> States]
    BY <1>1, DispatchIsFirst DEF IInv, TypeOK
  <2>2. QED BY <1>1, <2>1 DEF PrepareDispatch, SetState
<1>2. submits'[o] \in {0, 1} /\ (submits'[o] = 0 => submits[o] = 0)
  BY <1>1, WhoChanges DEF IInv, TypeOK, SingleSubmit
<1>3. ASSUME state'[o] \notin InFlightStates \cup {"SUCCEEDED", "FAILED_SAFE"}
      PROVE  submits'[o] = 0
  <2>1. CASE state[o] \notin InFlightStates \cup {"SUCCEEDED", "FAILED_SAFE"}
    <3>1. submits[o] = 0
      BY <2>1 DEF IInv, SingleSubmit
    <3>2. QED BY <1>1, <1>3, <3>1, WhoChanges DEF IInv, TypeOK, InFlightStates
  <2>2. CASE state[o] \in InFlightStates \cup {"SUCCEEDED", "FAILED_SAFE"}
    <3>. USE DEF IInv, TypeOK, SetState, InFlightStates
    <3>1. \A to \in IntakeTargets : ~IntakeMove(o, to)
      BY <1>3, <2>2 DEF IntakeMove, PassiveRetryStates, Permitted, IntakeTargets
    <3>2. \A w \in Workers : /\ ~PrepareDenied(w, o) /\ ~PrepareDispatch(w, o)
                             /\ \A x \in Vendors : ~AdoptRefused(w, o, x) /\ ~AdoptStart(w, o, x)
      BY <2>2 DEF PrepareDenied, PrepareDispatch, AdoptRefused, AdoptStart
    <3>3. ASSUME NEW w \in Workers, worker[w].op = o,
                 RecordAcknowledged(w) \/ RecordFailure(w) \/ BeginRecovery(w)
          PROVE  FALSE
      BY <1>3, <3>3 DEF RecordAcknowledged, RecordFailure, BeginRecovery
    <3>4. ASSUME NEW w \in Workers, worker[w].op = o,
                 RecordMatch(w) \/ RecordNoMatch(w) \/ AdoptMatch(w)
          PROVE  FALSE
      BY <1>3, <3>4 DEF RecordMatch, RecordNoMatch, AdoptMatch
    <3>5. state'[o] # state[o]
      BY <1>3, <2>2
    <3>6. PICK w \in Workers : worker[w].op = o /\ AdoptNoMatch(w)
      BY <3>1, <3>2, <3>3, <3>4, <3>5, StateMoves
    <3>7. submits[o] = 0
      BY <3>6 DEF AdoptionToken, Adopts, AdoptPoints, AdoptNoMatch, At
    <3>8. QED BY <3>6, <3>7 DEF AdoptNoMatch
  <2>3. QED BY <2>1, <2>2
<1>4. ASSUME submits'[o] = 0
      PROVE  /\ NothingCreated(o)' /\ NotOnWire(o)' /\ Unanswered(o)'
             /\ \A w \in Workers : ~HoldsGrant(w, o)'
  <2>1. /\ submits[o] = 0 /\ NothingCreated(o) /\ NotOnWire(o) /\ Unanswered(o)
        /\ \A w \in Workers : ~HoldsGrant(w, o)
    BY <1>2, <1>4 DEF IInv, SingleSubmit
  <2>2. \A w \in Workers : SendCreate(w) => worker[w].op # o
    BY <2>1 DEF SendCreate, At, HoldsGrant, GrantPoints
  <2>3. NothingCreated(o)' /\ NotOnWire(o)' /\ Unanswered(o)'
    BY <2>1, <2>2, AbsenceStays DEF IInv
  <2>4. ASSUME NEW w \in Workers, HoldsGrant(w, o)' PROVE FALSE
    <3>1. PrepareDispatch(w, o)
      BY <2>1, <2>4, GrantMoves DEF IInv, HoldsGrant
    <3>2. QED BY <1>1, <1>4, <3>1 DEF IInv, TypeOK
  <2>5. QED BY <2>3, <2>4
<1>5. QED BY <1>2, <1>3, <1>4

\* One call at a time holds the grant of an operation, and the grant is its
\* first and only SUBMIT attempt.
LEMMA OneHolder ==
  ASSUME IInv, [Next]_vars, NEW u \in Workers, NEW v \in Workers
  PROVE  /\ worker'[u].pc \in GrantPoints => worker'[u].attempt = 1
         /\ \A o \in Ops : HoldsGrant(u, o)' /\ HoldsGrant(v, o)' => u = v
<1>1. ASSUME NEW w \in Workers, NEW o \in Ops, PrepareDispatch(w, o)
      PROVE  /\ submits[o] = 0
             /\ \A x \in Workers : ~HoldsGrant(x, o)
             /\ \A x \in Workers \ {w} : worker'[x] = worker[x]
  BY <1>1, DispatchIsFirst DEF IInv, TypeOK, PrepareDispatch, Becomes
<1>2. worker'[u].pc \in GrantPoints => worker'[u].attempt = 1
  BY <1>1, GrantMoves DEF IInv, GrantToken
<1>3. ASSUME NEW o \in Ops, HoldsGrant(u, o)', HoldsGrant(v, o)', u # v PROVE FALSE
  <2>1. HoldsGrant(u, o) \/ PrepareDispatch(u, o)
    BY <1>3, GrantMoves DEF IInv, HoldsGrant
  <2>2. HoldsGrant(v, o) \/ PrepareDispatch(v, o)
    BY <1>3, GrantMoves DEF IInv, HoldsGrant
  <2>3. ~(HoldsGrant(u, o) /\ HoldsGrant(v, o))
    BY <1>3 DEF IInv, GrantToken
  <2>4. PrepareDispatch(u, o) => ~HoldsGrant(v, o) /\ ~HoldsGrant(v, o)'
    BY <1>1, <1>3 DEF HoldsGrant
  <2>5. PrepareDispatch(v, o) => ~HoldsGrant(u, o) /\ ~HoldsGrant(u, o)'
    BY <1>1, <1>3 DEF HoldsGrant
  <2>6. QED BY <1>3, <2>1, <2>2, <2>3, <2>4, <2>5
<1>4. QED BY <1>2, <1>3

\* Nothing of an operation in adoption is ever sent, and it stays in flight.
LEMMA AdoptionStep ==
  ASSUME IInv, [Next]_vars, NEW u \in Workers, NEW o \in Ops, Adopts(u, o)'
  PROVE  /\ submits'[o] = 0 /\ state'[o] \in InFlightStates /\ worker'[u].vendor # NoVendor
         /\ \A v \in Workers : Adopts(v, o)' => u = v
<1>. USE DEF IInv
<1>1. ASSUME NEW w \in Workers, NEW x \in Vendors, AdoptStart(w, o, x)
      PROVE  /\ submits'[o] = 0 /\ state'[o] \in InFlightStates /\ submits' = submits
             /\ \A v \in Workers : ~Adopts(v, o)
             /\ \A v \in Workers \ {w} : worker'[v] = worker[v]
  <2>1. submits[o] = 0
    BY <1>1 DEF AdoptStart, SingleSubmit, InFlightStates
  <2>2. \A v \in Workers : ~Adopts(v, o)
    BY <1>1 DEF AdoptStart, AdoptionToken, InFlightStates
  <2>3. QED BY <1>1, <2>1, <2>2 DEF AdoptStart, TypeOK, SetState, InFlightStates, Becomes
<1>2. ASSUME NEW v \in Workers, Adopts(v, o)'
      PROVE  Adopts(v, o) \/ \E x \in Vendors : AdoptStart(v, o, x)
  BY <1>2, AdoptMoves DEF Adopts, AdoptPoints
<1>3. ASSUME NEW v \in Workers, Adopts(v, o)' PROVE u = v
  <2>1. CASE Adopts(u, o) /\ Adopts(v, o)
    BY <2>1 DEF AdoptionToken
  <2>2. CASE ~(Adopts(u, o) /\ Adopts(v, o))
    <3>1. PICK w \in Workers, x \in Vendors : AdoptStart(w, o, x)
      BY <1>2, <1>3, <2>2
    <3>2. \A y \in Workers \ {w} : ~Adopts(y, o)'
      BY <1>1, <3>1 DEF Adopts
    <3>3. QED BY <1>3, <3>2
  <2>3. QED BY <2>1, <2>2
<1>4. CASE \E w \in Workers, x \in Vendors : AdoptStart(w, o, x)
  <2>1. submits'[o] = 0 /\ state'[o] \in InFlightStates
    BY <1>1, <1>4
  <2>2. worker'[u].vendor # NoVendor
    <3>1. Adopts(u, o) => worker'[u] = worker[u]
      BY <1>1, <1>4
    <3>2. ~Adopts(u, o) => worker'[u].vendor \in Vendors
      BY AdoptMoves DEF Adopts, AdoptPoints
    <3>3. QED BY <1>1, <1>4, <3>2, ConstantsAssumption
  <2>3. QED BY <1>3, <2>1, <2>2
<1>5. CASE ~\E w \in Workers, x \in Vendors : AdoptStart(w, o, x)
  <2>1. Adopts(u, o)
    BY <1>2, <1>5
  <2>2. submits[o] = 0 /\ state[o] \in InFlightStates /\ worker[u].vendor # NoVendor
    BY <2>1 DEF AdoptionToken
  <2>3. submits'[o] = 0
    <3>1. ASSUME NEW w \in Workers, NEW p \in Ops, PrepareDispatch(w, p) PROVE p # o
      BY <2>2, <3>1 DEF PrepareDispatch, InFlightStates
    <3>2. QED BY <2>2, <3>1, WhoChanges DEF TypeOK, PrepareDispatch
  <2>4. worker'[u].vendor # NoVendor
    BY <1>5, <2>2, AdoptMoves DEF Adopts, AdoptPoints
  <2>5. state'[o] \in InFlightStates
    <3>1. ASSUME NEW w \in Workers, worker[w].op = o, RecordFailure(w) PROVE FALSE
      <4>1. HoldsGrant(w, o)
        BY <3>1 DEF RecordFailure, HoldsGrant, GrantPoints
      <4>2. QED BY <2>2, <4>1 DEF SingleSubmit
    <3>2. ASSUME NEW w \in Workers, worker[w].op = o, RecordMatch(w) PROVE FALSE
      <4>1. vendors[worker[w].vendor].tag = o /\ worker[w].vendor \in Vendors
        BY <3>2 DEF RecordMatch, At, ReferencesAreTagged, AdoptPoints, TypeOK, WorkerState
      <4>2. \E c \in Vendors : vendors[c].origin = o
        BY <4>1, ConstantsAssumption DEF ProviderOrder
      <4>3. QED BY <2>2, <4>2 DEF SingleSubmit, NothingCreated
    <3>3. ASSUME NEW w \in Workers, worker[w].op = o, AdoptMatch(w) \/ AdoptNoMatch(w) PROVE FALSE
      <4>1. Adopts(w, o)
        BY <3>3 DEF AdoptMatch, AdoptNoMatch, Adopts, AdoptPoints, At
      <4>2. w = u
        BY <2>1, <4>1 DEF AdoptionToken
      <4>3. worker'[u].pc = "idle"
        BY <3>3, <4>2 DEF AdoptMatch, AdoptNoMatch, Return, Becomes, Idle, Call, TypeOK
      <4>4. QED BY <4>3 DEF Adopts, AdoptPoints
    <3>4. QED BY <2>2, <3>1, <3>2, <3>3, StateMoves DEF TypeOK, SetState, InFlightStates, IntakeMove,
            PassiveRetryStates, PrepareDenied, PrepareDispatch, AdoptRefused, AdoptStart,
            RecordAcknowledged, BeginRecovery, RecordNoMatch
  <2>6. QED BY <1>3, <2>3, <2>4, <2>5
<1>6. QED BY <1>4, <1>5

\* Only the holder of the grant can send, so nobody else sends what it waits for.
LEMMA OnlyHolderSends ==
  ASSUME IInv, NEW v \in Workers, NEW o \in Ops, HoldsGrant(v, o), worker[v].pc # "dispatch"
  PROVE  \A w \in Workers : SendCreate(w) => worker[w].op # o
BY DEF IInv, GrantToken, HoldsGrant, GrantPoints, SendCreate, At

\* Before the request is written, nothing of the operation is at the provider.
LEMMA UnspentGrant ==
  ASSUME IInv, [Next]_vars, NEW v \in Workers, NEW o \in Ops,
         worker'[v].pc = "dispatch", worker'[v].op = o
  PROVE  NothingCreated(o)' /\ NotOnWire(o)' /\ Unanswered(o)'
<1>1. PrepareDispatch(v, o) \/ worker'[v] = worker[v]
  BY GrantMoves DEF IInv, GrantPoints
<1>2. CASE PrepareDispatch(v, o)
  <2>1. /\ NothingCreated(o) /\ NotOnWire(o) /\ Unanswered(o)
        /\ \A w \in Workers : ~HoldsGrant(w, o)
    BY <1>2, DispatchIsFirst DEF IInv
  <2>2. \A w \in Workers : SendCreate(w) => worker[w].op # o
    BY <2>1 DEF HoldsGrant, GrantPoints, SendCreate, At
  <2>3. QED BY <2>1, <2>2, AbsenceStays DEF IInv
<1>3. CASE worker'[v] = worker[v]
  <2>1. NothingCreated(o) /\ NotOnWire(o) /\ Unanswered(o)
    BY <1>3 DEF IInv, GrantToken
  <2>2. ASSUME NEW w \in Workers, SendCreate(w), worker[w].op = o PROVE FALSE
    <3>1. HoldsGrant(w, o) /\ HoldsGrant(v, o)
      BY <1>3, <2>2 DEF HoldsGrant, GrantPoints, SendCreate, At
    <3>2. w = v
      BY <3>1 DEF IInv, GrantToken
    <3>3. worker'[v].pc = "posting"
      BY <2>2, <3>2 DEF IInv, TypeOK, SendCreate, Goto, Learn, Becomes, Call
    <3>4. QED BY <3>3
  <2>3. QED BY <2>1, <2>2, AbsenceStays DEF IInv
<1>4. QED BY <1>1, <1>2, <1>3

\* A request under way was not processed before.
LEMMA UnprocessedRequest ==
  ASSUME IInv, [Next]_vars, NEW x \in wire'
  PROVE  x.attempt = 1 /\ NothingCreated(x.op)' /\ Unanswered(x.op)'
<1>1. CASE x \notin wire
  <2>1. PICK w \in Workers : SendCreate(w) /\ x = RequestOf(w)
    BY <1>1, WhoChanges DEF SendCreate, ProviderCreates, ProviderRejects, RequestLost
  <2>2. x.attempt = 1 /\ NothingCreated(x.op) /\ Unanswered(x.op)
    BY <2>1 DEF IInv, GrantToken, GrantPoints, SendCreate, At, RequestOf
  <2>3. UNCHANGED <<vendors, replies>>
    BY <2>1 DEF SendCreate
  <2>4. QED BY <2>2, <2>3 DEF NothingCreated, Unanswered
<1>2. CASE x \in wire
  <2>1. x \in Requests /\ x.op \in Ops /\ x.attempt = 1 /\ NothingCreated(x.op) /\ Unanswered(x.op)
    BY <1>2 DEF IInv, TypeOK, GrantToken, Requests
  <2>2. ASSUME NEW r \in wire, ProviderCreates(r) \/ ProviderRejects(r) PROVE r.op # x.op
    <3>1. r # x
      BY <2>2 DEF ProviderCreates, ProviderRejects
    <3>2. r \in Requests /\ r.attempt = 1
      BY DEF IInv, TypeOK, GrantToken
    <3>3. QED BY <2>1, <3>1, <3>2 DEF Requests
  <2>3. NothingCreated(x.op)'
    <3>1. ASSUME NEW r \in wire, ProviderCreates(r) PROVE NothingCreated(x.op)'
      <4>1. r.op # x.op
        BY <2>2, <3>1
      <4>2. QED BY <2>1, <3>1, <4>1 DEF IInv, TypeOK, ProviderCreates, NothingCreated
    <3>2. QED BY <2>1, <3>1, UsersCreateNothing, WhoChanges DEF IInv, TypeOK, NothingCreated
  <2>4. Unanswered(x.op)'
    BY <2>1, <2>2, WhoChanges DEF Unanswered, ProviderCreates, ProviderRejects
  <2>5. QED BY <2>1, <2>3, <2>4
<1>3. QED BY <1>1, <1>2

\* A rejected request created nothing, and is not sent again.
LEMMA RejectionIsProof ==
  ASSUME IInv, [Next]_vars, NEW x \in replies', x.vendor = NoVendor
  PROVE  NothingCreated(x.op)' /\ NotOnWire(x.op)'
<1>1. CASE x \in replies
  <2>1. x.op \in Ops /\ NothingCreated(x.op) /\ NotOnWire(x.op)
    BY <1>1 DEF IInv, TypeOK, Replies, GrantToken
  <2>2. \A w \in Workers : SendCreate(w) => worker[w].op # x.op
    BY <1>1 DEF IInv, GrantToken, SendCreate, At, Unanswered
  <2>3. QED BY <2>1, <2>2, AbsenceStays DEF IInv
<1>2. CASE x \notin replies
  <2>1. PICK r \in wire : ProviderCreates(r) \/ ProviderRejects(r)
    BY <1>2, WhoChanges
  <2>2. ~ProviderCreates(r)
    BY <1>2, ConstantsAssumption DEF ProviderCreates
  <2>3. x.op = r.op /\ wire' = wire \ {r} /\ UNCHANGED vendors
    BY <1>2, <2>1, <2>2 DEF ProviderRejects
  <2>4. NothingCreated(r.op) /\ NotOnWire(r.op)'
    BY <2>3 DEF IInv, TypeOK, GrantToken, NotOnWire, Requests
  <2>5. QED BY <2>3, <2>4 DEF NothingCreated
<1>3. QED BY <1>1, <1>2

\* The Vendor of an answer carries the tag of its operation.
LEMMA AnswerIsTagged ==
  ASSUME IInv, [Next]_vars, NEW x \in replies', x.vendor # NoVendor
  PROVE  vendors'[x.vendor].tag = x.op
<1>1. CASE x \in replies
  <2>1. x.op # NoOp /\ x.vendor \in Vendors /\ vendors[x.vendor].tag = x.op
    BY <1>1, ConstantsAssumption DEF IInv, TypeOK, Replies, GrantToken
  <2>2. QED BY <2>1, TagsStay DEF IInv, TypeOK
<1>2. CASE x \notin replies
  <2>1. PICK r \in wire : ProviderCreates(r) \/ ProviderRejects(r)
    BY <1>2, WhoChanges
  <2>2. CASE ProviderCreates(r)
    BY <1>2, <2>2 DEF ProviderCreates, IInv, TypeOK
  <2>3. CASE ProviderRejects(r)
    BY <1>2, <2>3 DEF ProviderRejects
  <2>4. QED BY <2>1, <2>2, <2>3
<1>3. QED BY <1>1, <1>2

\* A call about to record a safe failure knows that nothing was created.
LEMMA FailSafeIsProof ==
  ASSUME IInv, [Next]_vars, NEW v \in Workers, NEW o \in Ops,
         worker'[v].pc = "failSafe", worker'[v].op = o
  PROVE  NothingCreated(o)' /\ NotOnWire(o)'
<1>1. \/ worker'[v] = worker[v]
      \/ HoldsGrant(v, o) /\ (FailBeforeDelivery(v) \/ ReceiveRejected(v))
  BY GrantMoves DEF IInv, GrantPoints, HoldsGrant
<1>2. CASE worker'[v] = worker[v]
  <2>1. NothingCreated(o) /\ NotOnWire(o) /\ HoldsGrant(v, o) /\ worker[v].pc # "dispatch"
    BY <1>2 DEF IInv, FailureIsProof, HoldsGrant, GrantPoints
  <2>2. QED BY <2>1, OnlyHolderSends, AbsenceStays DEF IInv
<1>3. CASE HoldsGrant(v, o) /\ (FailBeforeDelivery(v) \/ ReceiveRejected(v))
  <2>1. UNCHANGED <<wire, vendors>>
    BY <1>3 DEF FailBeforeDelivery, ReceiveRejected, provider
  <2>2. NothingCreated(o) /\ NotOnWire(o)
    BY <1>3 DEF IInv, GrantToken, HoldsGrant, FailBeforeDelivery, ReceiveRejected, Answers, At
  <2>3. QED BY <2>1, <2>2 DEF NothingCreated, NotOnWire
<1>4. QED BY <1>1, <1>2, <1>3

\* FAILED_SAFE is recorded on proof, and the proof stays valid.
LEMMA FailedSafeStaysProof ==
  ASSUME IInv, [Next]_vars, NEW o \in Ops, state'[o] = "FAILED_SAFE"
  PROVE  /\ NothingCreated(o)' /\ NotOnWire(o)'
         /\ \A v \in Workers : worker'[v].op = o => worker'[v].pc \notin {"dispatch", "posting"}
<1>1. CASE state[o] = "FAILED_SAFE"
  <2>1. /\ NothingCreated(o) /\ NotOnWire(o)
        /\ \A w \in Workers : worker[w].op = o => worker[w].pc \notin {"dispatch", "posting"}
    BY <1>1 DEF IInv, FailureIsProof
  <2>2. \A w \in Workers : SendCreate(w) => worker[w].op # o
    BY <2>1 DEF SendCreate, At
  <2>3. ASSUME NEW v \in Workers, worker'[v].op = o, worker'[v].pc \in {"dispatch", "posting"}
        PROVE  FALSE
    <3>1. \/ PrepareDispatch(v, o)
          \/ SendCreate(v) /\ worker[v].op = o
          \/ worker'[v] = worker[v]
      BY <2>3, GrantMoves DEF IInv, GrantPoints
    <3>2. ~PrepareDispatch(v, o)
      BY <1>1 DEF PrepareDispatch
    <3>3. QED BY <2>1, <2>2, <2>3, <3>1, <3>2
  <2>4. QED BY <2>1, <2>2, <2>3, AbsenceStays DEF IInv
<1>2. CASE state[o] # "FAILED_SAFE"
  <2>1. PICK w \in Workers : worker[w].op = o /\ RecordFailure(w) /\ At(w, "failSafe")
    <3>. USE DEF IInv, TypeOK, SetState
    <3>1. \A to \in IntakeTargets : ~IntakeMove(o, to)
      BY DEF IntakeMove, IntakeTargets
    <3>2. \A w \in Workers : /\ ~PrepareDenied(w, o) /\ ~PrepareDispatch(w, o)
                             /\ \A x \in Vendors : ~AdoptRefused(w, o, x) /\ ~AdoptStart(w, o, x)
      BY DEF PrepareDenied, PrepareDispatch, AdoptRefused, AdoptStart
    <3>3. ASSUME NEW w \in Workers, worker[w].op = o,
                 \/ RecordAcknowledged(w) \/ BeginRecovery(w) \/ RecordMatch(w)
                 \/ RecordNoMatch(w) \/ AdoptMatch(w) \/ AdoptNoMatch(w)
          PROVE  FALSE
      BY <3>3 DEF RecordAcknowledged, BeginRecovery, RecordMatch, RecordNoMatch, AdoptMatch,
        AdoptNoMatch
    <3>4. PICK w \in Workers : worker[w].op = o /\ RecordFailure(w)
      BY <1>2, <3>1, <3>2, <3>3, StateMoves
    <3>5. QED BY <3>4 DEF RecordFailure
  <2>2. UNCHANGED <<wire, vendors>> /\ HoldsGrant(w, o) /\ worker'[w].pc = "idle"
    BY <2>1 DEF IInv, TypeOK, RecordFailure, provider, HoldsGrant, GrantPoints, At, Return, Becomes,
      Idle, Call
  <2>3. NothingCreated(o) /\ NotOnWire(o)
    BY <2>1 DEF IInv, FailureIsProof, At
  <2>4. ASSUME NEW v \in Workers, worker'[v].op = o, worker'[v].pc \in {"dispatch", "posting"}
        PROVE  FALSE
    <3>1. v # w /\ worker'[v] = worker[v]
      BY <2>1, <2>2, <2>4 DEF IInv, TypeOK, RecordFailure, Return, Becomes
    <3>2. HoldsGrant(v, o)
      BY <2>4, <3>1 DEF HoldsGrant, GrantPoints
    <3>3. QED BY <2>2, <3>1, <3>2 DEF IInv, GrantToken
  <2>5. QED BY <2>2, <2>3, <2>4 DEF NothingCreated, NotOnWire
<1>3. QED BY <1>1, <1>2

\* No operation creates a second Vendor.
LEMMA OneVendorPerOperation == IInv /\ [Next]_vars => NoDuplicateVendor'
<1> SUFFICES ASSUME IInv, [Next]_vars, NEW b \in Vendors, NEW c \in Vendors,
                    vendors'[b].origin # NoOp, vendors'[b].origin = vendors'[c].origin
             PROVE  b = c
  BY DEF NoDuplicateVendor
<1>. USE DEF IInv, TypeOK, ProviderOrder, NoDuplicateVendor
<1>1. ASSUME NEW r \in wire, ProviderCreates(r) PROVE b = c
  <2>1. NothingCreated(r.op)
    BY DEF GrantToken
  <2>2. QED BY <1>1, <2>1 DEF ProviderCreates, NothingCreated
<1>2. QED BY <1>1, UsersCreateNothing, WhoChanges

\* An identifier the provider has not used refers to nothing.
LEMMA FreshIds ==
  ASSUME IInv, [Next]_vars, NEW b \in Vendors, ~vendors'[b].exists
  PROVE  vendors'[b].origin = NoOp /\ vendors'[b].tag = NoOp
<1> DEFINE Goal == vendors'[b].origin = NoOp /\ vendors'[b].tag = NoOp
<1>. USE DEF IInv, TypeOK, ProviderOrder
<1>1. ASSUME NEW r \in wire, ProviderCreates(r) PROVE Goal
  BY <1>1 DEF ProviderCreates
<1>2. ASSUME NEW c \in Vendors, UserEditsVendor(c) PROVE Goal
  BY <1>2 DEF UserEditsVendor
<1>3. ASSUME NEW c \in Vendors, UserEntersVendor(c) PROVE Goal
  BY <1>3 DEF UserEntersVendor
<1>4. QED BY <1>1, <1>2, <1>3, WhoChanges DEF UserStep

\* Every tag goes back to a Vendor that its operation created.
LEMMA TagsHaveCreators ==
  ASSUME IInv, [Next]_vars, NEW b \in Vendors, vendors'[b].tag # NoOp
  PROVE  \E c \in Vendors : vendors'[c].origin = vendors'[b].tag
<1>. USE DEF IInv, TypeOK
<1>1. ASSUME NEW x \in Vendors, vendors[x].tag # NoOp
      PROVE  \E c \in Vendors : vendors'[c].origin = vendors[x].tag
  <2>1. PICK c \in Vendors : vendors[c].origin = vendors[x].tag
    BY <1>1 DEF ProviderOrder
  <2>2. vendors[c].exists
    BY <1>1, <2>1 DEF ProviderOrder
  <2>3. QED BY <2>1, <2>2, VendorsStay
<1>2. CASE vendors[b].tag # NoOp
  BY <1>1, <1>2, TagsStay
<1>3. CASE vendors[b].tag = NoOp
  <2>1. ASSUME NEW r \in wire, ProviderCreates(r)
        PROVE  \E c \in Vendors : vendors'[c].origin = vendors'[b].tag
    BY <1>3, <2>1 DEF ProviderCreates
  <2>2. ASSUME NEW x \in Vendors, UserEditsVendor(x)
        PROVE  \E c \in Vendors : vendors'[c].origin = vendors'[b].tag
    BY <1>3, <2>2 DEF UserEditsVendor
  <2>3. ASSUME NEW x \in Vendors, UserEntersVendor(x)
        PROVE  \E c \in Vendors : vendors'[c].origin = vendors'[b].tag
    <3>1. PICK tag \in {NoOp} \cup {vendors[u].tag : u \in Vendors}, a \in BOOLEAN :
            vendors' = [vendors EXCEPT ![x] = VendorOf(NoOp, tag, a)]
      BY <2>3 DEF UserEntersVendor
    <3>2. vendors'[b].tag = tag
      BY <1>3, <3>1
    <3>3. PICK u \in Vendors : tag = vendors[u].tag
      BY <3>1, <3>2
    <3>4. QED BY <1>1, <3>2, <3>3
  <2>4. QED BY <1>3, <2>1, <2>2, <2>3, WhoChanges DEF UserStep
<1>4. QED BY <1>2, <1>3

\* Where a call that does not adopt may learn of a Vendor: the answer to its
\* request, the recorded acknowledgement, or what it reads at the provider.
LEMMA VendorMoves ==
  ASSUME TypeOK, [Next]_vars, NEW v \in Workers, worker'[v].pc \notin AdoptPoints
  PROVE  \/ worker'[v].vendor = NoVendor /\ worker'[v].verdict # "MATCH"
         \/ /\ worker'[v].op = worker[v].op /\ worker'[v].vendor = worker[v].vendor
            /\ worker[v].pc \notin AdoptPoints
            /\ worker'[v].verdict = "MATCH" => worker[v].verdict = "MATCH"
         \/ /\ worker'[v].op = worker[v].op /\ worker[v].pc \notin AdoptPoints \cup {"idle"}
            /\ UNCHANGED vendors
            /\ \/ \E r \in replies : Answers(r, v) /\ r.vendor # NoVendor /\ worker'[v].vendor = r.vendor
               \/ worker'[v].vendor = acked[worker[v].op] /\ worker'[v].verdict # "MATCH"
               \/ worker'[v].vendor \in ReadTargets(v)
<1> DEFINE Goal ==
      \/ worker'[v].vendor = NoVendor /\ worker'[v].verdict # "MATCH"
      \/ /\ worker'[v].op = worker[v].op /\ worker'[v].vendor = worker[v].vendor
         /\ worker[v].pc \notin AdoptPoints
         /\ worker'[v].verdict = "MATCH" => worker[v].verdict = "MATCH"
      \/ /\ worker'[v].op = worker[v].op /\ worker[v].pc \notin AdoptPoints \cup {"idle"}
         /\ UNCHANGED vendors
         /\ \/ \E r \in replies : Answers(r, v) /\ r.vendor # NoVendor /\ worker'[v].vendor = r.vendor
            \/ worker'[v].vendor = acked[worker[v].op] /\ worker'[v].verdict # "MATCH"
            \/ worker'[v].vendor \in ReadTargets(v)
<1>. USE DEF TypeOK, WorkerState, Call, Idle, Becomes, Learn, Goto, Return, At, provider,
       AdoptPoints
<1>1. ASSUME NEW w \in Workers, Prepare(w) PROVE Goal
  <2>1. ASSUME NEW o \in Ops,
               PrepareDenied(w, o) \/ PrepareDispatch(w, o) \/ PrepareRecoveryRequired(w, o)
        PROVE  Goal
    BY <2>1 DEF PrepareDenied, PrepareDispatch, PrepareRecoveryRequired
  <2>2. ASSUME NEW o \in Ops, NEW x \in Vendors, AdoptRefused(w, o, x) \/ AdoptStart(w, o, x)
        PROVE  Goal
    BY <2>2 DEF AdoptRefused, AdoptStart
  <2>3. QED BY <1>1, <2>1, <2>2 DEF Prepare
<1>2. ASSUME NEW w \in Workers, ReceiveCreated(w) PROVE Goal
  <2>1. CASE v = w
    <3>1. PICK r \in replies : Answers(r, v) /\ r.vendor # NoVendor /\ worker'[v].vendor = r.vendor
      BY <1>2, <2>1 DEF ReceiveCreated
    <3>2. /\ worker'[v].op = worker[v].op /\ worker[v].pc \notin AdoptPoints \cup {"idle"}
          /\ UNCHANGED vendors
      BY <1>2, <2>1 DEF ReceiveCreated
    <3>3. QED BY <3>1, <3>2
  <2>2. CASE v # w
    BY <1>2, <2>2 DEF ReceiveCreated
  <2>3. QED BY <2>1, <2>2
<1>3. ASSUME NEW w \in Workers,
             FailBeforeDelivery(w) \/ SendCreate(w) \/ ReceiveRejected(w) \/ DeliveryUncertain(w)
      PROVE  Goal
  <2>1. /\ Goto(w, "failSafe") \/ Goto(w, "posting") \/ Goto(w, "failUncertain")
        /\ worker[w].pc \notin AdoptPoints
    BY <1>3 DEF FailBeforeDelivery, SendCreate, ReceiveRejected, DeliveryUncertain
  <2>2. QED BY <2>1
<1>4. ASSUME NEW w \in Workers, RecordAcknowledged(w) PROVE Goal
  BY <1>4 DEF RecordAcknowledged
<1>5. ASSUME NEW w \in Workers, BeginRecovery(w) PROVE Goal
  BY <1>5 DEF BeginRecovery
<1>6. ASSUME NEW w \in Workers,
             RecordFailure(w) \/ RecordMatch(w) \/ RecordNoMatch(w) \/ CallRejected(w) \/ Crash(w)
      PROVE  Goal
  BY <1>6 DEF RecordFailure, RecordMatch, RecordNoMatch, CallRejected, Crash
<1>7. ASSUME NEW w \in Workers, ReadObserved(w) PROVE Goal
  BY <1>7 DEF ReadObserved
<1>8. ASSUME NEW w \in Workers, ReadAbsent(w) \/ ReadUnavailable(w) PROVE Goal
  BY <1>8 DEF ReadAbsent, ReadUnavailable
<1>9. ASSUME NEW w \in Workers, Adopt(w) PROVE Goal
  BY <1>9 DEF Adopt, AdoptRead, AdoptMatch, AdoptNoMatch, AdoptOvertaken
<1>10. QED
  BY <1>1, <1>2, <1>3, <1>4, <1>5, <1>6, <1>7, <1>8, <1>9, WhoChanges
     DEF WorkerStep, Submit, Record, Read

\* The Vendor a call works with carries the tag of its operation, unless the call
\* adopts it.
LEMMA CallsKnowTaggedVendors ==
  ASSUME IInv, [Next]_vars, NEW v \in Workers
  PROVE  /\ worker'[v].verdict = "MATCH" => worker'[v].vendor # NoVendor
         /\ worker'[v].vendor # NoVendor =>
              /\ worker'[v].op \in Ops
              /\ worker'[v].pc \notin AdoptPoints =>
                   vendors'[worker'[v].vendor].tag = worker'[v].op
<1>. USE DEF IInv
<1>1. CASE worker'[v].pc \in AdoptPoints
  <2>1. worker'[v].op \in Ops
    BY <1>1, WorkersHaveOpsStep DEF WorkersHaveOps, AdoptPoints
  <2>2. worker'[v].vendor # NoVendor
    BY <1>1, <2>1, AdoptionStep DEF Adopts
  <2>3. QED BY <1>1, <2>1, <2>2
<1>2. CASE worker'[v].pc \notin AdoptPoints
  <2>1. \A b \in Vendors, o \in Ops : vendors[b].tag = o => vendors'[b].tag = o
    BY TagsStay, ConstantsAssumption DEF TypeOK
  <2>2. /\ worker[v].vendor \in Vendors \cup {NoVendor}
        /\ worker[v].pc # "idle" => worker[v].op \in Ops
    BY DEF TypeOK, WorkerState, WorkersHaveOps
  <2>3. \A b \in ReadTargets(v) : worker[v].pc \notin AdoptPoints \cup {"idle"} =>
          b \in Vendors /\ vendors[b].tag = worker[v].op
    BY <2>2 DEF ReadTargets, Correlated, ReferencesAreTagged
  <2>4. \A r \in replies : Answers(r, v) /\ r.vendor # NoVendor =>
          r.vendor \in Vendors /\ vendors[r.vendor].tag = worker[v].op
    BY DEF TypeOK, Replies, Answers, GrantToken
  <2>5. worker[v].pc # "idle" /\ acked[worker[v].op] # NoVendor =>
          acked[worker[v].op] \in Vendors /\ vendors[acked[worker[v].op]].tag = worker[v].op
    BY <2>2 DEF TypeOK, ReferencesAreTagged
  <2>6. \/ worker'[v].vendor = NoVendor /\ worker'[v].verdict # "MATCH"
        \/ /\ worker'[v].op = worker[v].op /\ worker'[v].vendor = worker[v].vendor
           /\ worker[v].pc \notin AdoptPoints
           /\ worker'[v].verdict = "MATCH" => worker[v].verdict = "MATCH"
        \/ /\ worker'[v].op = worker[v].op /\ worker[v].pc \notin AdoptPoints \cup {"idle"}
           /\ UNCHANGED vendors
           /\ \/ \E r \in replies : /\ Answers(r, v) /\ r.vendor # NoVendor
                                    /\ worker'[v].vendor = r.vendor
              \/ worker'[v].vendor = acked[worker[v].op] /\ worker'[v].verdict # "MATCH"
              \/ worker'[v].vendor \in ReadTargets(v)
    BY <1>2, VendorMoves
  <2>7. QED BY <1>2, <2>1, <2>2, <2>3, <2>4, <2>5, <2>6, ConstantsAssumption
            DEF ReferencesAreTagged
<1>3. QED BY <1>1, <1>2

\* An acknowledged Vendor carries the tag of its operation.
LEMMA AcknowledgedIsTagged ==
  ASSUME IInv, [Next]_vars, NEW o \in Ops, acked'[o] # NoVendor
  PROVE  vendors'[acked'[o]].tag = o
<1>1. acked'[o] \in Vendors /\ vendors[acked'[o]].tag = o
  <2>1. ASSUME NEW w \in Workers, RecordAcknowledged(w)
        PROVE  acked'[o] \in Vendors /\ vendors[acked'[o]].tag = o
    BY <2>1 DEF IInv, TypeOK, WorkerState, RecordAcknowledged, ReferencesAreTagged, At, AdoptPoints
  <2>2. QED BY <2>1, WhoChanges DEF IInv, TypeOK, ReferencesAreTagged
<1>2. QED BY <1>1, TagsStay, ConstantsAssumption DEF IInv, TypeOK

\* Who bound a Vendor, and to what.
Binds(w, o) == worker[w].op = o /\ (RecordMatch(w) \/ AdoptMatch(w))

LEMMA BoundStep ==
  ASSUME IInv, [Next]_vars, NEW w \in Workers, NEW o \in Ops, Binds(w, o)
  PROVE  /\ state[o] = "VERIFYING" /\ state'[o] = "SUCCEEDED"
         /\ worker[w].vendor \in Vendors /\ ~TakenFrom(o, worker[w].vendor)
         /\ binding'[o].vendor = worker[w].vendor /\ binding'[o] # Unbound
         /\ binding'[o].kind \in {"CREATED", "ADOPTED"}
         /\ binding'[o].kind = "CREATED" => vendors[worker[w].vendor].tag = o
         /\ binding'[o].kind = "ADOPTED" => submits[o] = 0
         /\ \A p \in Ops \ {o} : binding'[p] = binding[p]
         /\ UNCHANGED <<vendors, submits>>
<1>. USE DEF IInv
<1>1. worker[w].vendor \in Vendors
  BY DEF Binds, RecordMatch, AdoptMatch, TypeOK, WorkerState, ReferencesAreTagged
<1>2. CASE RecordMatch(w)
  <2>1. vendors[worker[w].vendor].tag = o
    BY <1>1, <1>2, ConstantsAssumption DEF Binds, RecordMatch, ReferencesAreTagged, At, AdoptPoints
  <2>2. QED BY <1>1, <1>2, <2>1, ConstantsAssumption
            DEF Binds, RecordMatch, TypeOK, SetState, Unbound, provider
<1>3. CASE AdoptMatch(w)
  <2>1. submits[o] = 0
    BY <1>3 DEF Binds, AdoptMatch, AdoptionToken, Adopts, AdoptPoints, At
  <2>2. QED BY <1>1, <1>3, <2>1, ConstantsAssumption
            DEF Binds, AdoptMatch, TypeOK, SetState, Unbound, provider
<1>4. QED BY <1>2, <1>3 DEF Binds

\* Where nobody binds, SUCCEEDED and the bindings stay.
LEMMA UnboundStep ==
  ASSUME IInv, [Next]_vars, NEW o \in Ops, \A w \in Workers : ~Binds(w, o)
  PROVE  /\ state'[o] = "SUCCEEDED" <=> state[o] = "SUCCEEDED"
         /\ binding'[o] = binding[o]
<1>1. state'[o] = "SUCCEEDED" <=> state[o] = "SUCCEEDED"
  BY StateMoves DEF IInv, TypeOK, SetState, InFlightStates, IntakeMove, IntakeTargets,
    PassiveRetryStates, PrepareDenied, PrepareDispatch, AdoptRefused, AdoptStart,
    RecordAcknowledged, RecordFailure, BeginRecovery, RecordNoMatch, AdoptNoMatch, Binds
<1>2. binding'[o] = binding[o]
  BY WhoChanges DEF IInv, TypeOK, RecordMatch, AdoptMatch, Binds
<1>3. QED BY <1>1, <1>2

LEMMA AdoptedStep == IInv /\ [Next]_vars => AdoptedIsUnsent'
<1> SUFFICES ASSUME IInv, [Next]_vars, NEW o \in Ops
             PROVE  /\ binding'[o] # Unbound =>
                         binding'[o].vendor \in Vendors /\ binding'[o].kind \in {"CREATED", "ADOPTED"}
                    /\ binding'[o].kind = "ADOPTED" => submits'[o] = 0
  BY DEF AdoptedIsUnsent
<1>1. CASE \E w \in Workers : Binds(w, o)
  BY <1>1, BoundStep
<1>2. CASE \A w \in Workers : ~Binds(w, o)
  <2>1. binding'[o] = binding[o]
    BY <1>2, UnboundStep
  <2>2. ASSUME binding[o].kind = "ADOPTED" PROVE submits'[o] = 0
    <3>1. submits[o] = 0 /\ state[o] = "SUCCEEDED"
      BY <2>2 DEF IInv, AdoptedIsUnsent, BindingsAreTrue, Unbound
    <3>2. ASSUME NEW w \in Workers, NEW p \in Ops, PrepareDispatch(w, p) PROVE p # o
      BY <3>1, <3>2 DEF PrepareDispatch
    <3>3. QED BY <3>1, <3>2, WhoChanges DEF IInv, TypeOK, PrepareDispatch
  <2>3. QED BY <2>1, <2>2 DEF IInv, AdoptedIsUnsent
<1>3. QED BY <1>1, <1>2

\* Two operations are never bound in one step.
LEMMA OneBinder ==
  ASSUME IInv, [Next]_vars, NEW w \in Workers, NEW o \in Ops, Binds(w, o),
         NEW v \in Workers, NEW p \in Ops, Binds(v, p)
  PROVE  p = o
<1>1. binding'[p] # binding[p]
  BY BoundStep DEF IInv, BindingsAreTrue
<1>2. QED BY <1>1, BoundStep

LEMMA BindingsStep == IInv /\ [Next]_vars => BindingsAreTrue'
<1> SUFFICES ASSUME IInv, [Next]_vars, NEW o \in Ops
             PROVE  /\ state'[o] = "SUCCEEDED" <=> binding'[o] # Unbound
                    /\ \A p \in Ops \ {o} :
                         binding'[o] # Unbound => binding'[o].vendor # binding'[p].vendor
                    /\ binding'[o].kind = "CREATED" => vendors'[binding'[o].vendor].tag = o
                    /\ binding'[o].kind = "ADOPTED" => Created(o)' = {} /\ Requested(o)' = {}
  BY DEF BindingsAreTrue
<1>1. state'[o] = "SUCCEEDED" <=> binding'[o] # Unbound
  BY BoundStep, UnboundStep DEF IInv, BindingsAreTrue
<1>2. ASSUME NEW p \in Ops \ {o}, binding'[o] # Unbound
      PROVE  binding'[o].vendor # binding'[p].vendor
  <2>1. binding[p] = Unbound \/ binding[p].vendor \in Vendors
    BY DEF IInv, AdoptedIsUnsent
  <2>2. CASE \E w \in Workers : Binds(w, o)
    <3>1. PICK w \in Workers : Binds(w, o)
      BY <2>2
    <3>2. /\ binding'[o].vendor = worker[w].vendor /\ ~TakenFrom(o, worker[w].vendor)
          /\ binding'[p] = binding[p]
      BY <3>1, BoundStep
    <3>3. QED BY <3>2 DEF TakenFrom
  <2>3. CASE \E w \in Workers : Binds(w, p)
    <3>1. PICK w \in Workers : Binds(w, p)
      BY <2>3
    <3>2. /\ binding'[p].vendor = worker[w].vendor /\ ~TakenFrom(p, worker[w].vendor)
          /\ binding'[o] = binding[o]
      BY <3>1, BoundStep
    <3>3. QED BY <3>2 DEF TakenFrom
  <2>4. CASE \A w \in Workers : ~Binds(w, o) /\ ~Binds(w, p)
    <3>1. binding'[o] = binding[o] /\ binding'[p] = binding[p]
      BY <2>4, UnboundStep
    <3>2. QED BY <1>2, <3>1 DEF IInv, BindingsAreTrue
  <2>5. QED BY <2>2, <2>3, <2>4
<1>3. binding'[o].kind = "CREATED" => vendors'[binding'[o].vendor].tag = o
  <2>1. CASE \E w \in Workers : Binds(w, o)
    BY <2>1, BoundStep
  <2>2. CASE \A w \in Workers : ~Binds(w, o)
    <3>1. binding'[o] = binding[o]
      BY <2>2, UnboundStep
    <3>2. binding[o].kind = "CREATED" =>
            binding[o].vendor \in Vendors /\ vendors[binding[o].vendor].tag = o
      BY DEF IInv, AdoptedIsUnsent, BindingsAreTrue, Unbound
    <3>3. QED BY <3>1, <3>2, TagsStay, ConstantsAssumption DEF IInv, TypeOK
  <2>3. QED BY <2>1, <2>2
<1>4. binding'[o].kind = "ADOPTED" => Created(o)' = {} /\ Requested(o)' = {}
  <2>1. binding'[o].kind = "ADOPTED" => submits'[o] = 0
    BY AdoptedStep DEF AdoptedIsUnsent
  <2>2. submits'[o] = 0 => NothingCreated(o)' /\ NotOnWire(o)'
    BY SingleSubmitStep DEF SingleSubmit
  <2>3. QED BY <2>1, <2>2 DEF NothingCreated, NotOnWire, Created, Requested
<1>5. QED BY <1>1, <1>2, <1>3, <1>4

----------------------------------------------------------------------------
(***************************************************************************)
(* The invariant, and what follows from it.                                *)
(***************************************************************************)
LEMMA IInvInit == Init => IInv
<1> SUFFICES ASSUME Init PROVE IInv
  OBVIOUS
<1>1. TypeOK
  <2>1. Idle \in WorkerState
    BY DEF WorkerState, Points, Verdicts, Idle, Call
  <2>2. AbsentVendor \in Vendor /\ VendorOf(NoOp, NoOp, TRUE) \in Vendor
    BY DEF Vendor, AbsentVendor
  <2>3. Unbound \in Binding
    BY DEF Binding, Unbound
  <2>4. vendors \in [Vendors -> Vendor]
    BY <2>2 DEF Init
  <2>5. QED BY <2>1, <2>3, <2>4 DEF Init, TypeOK, States
<1>2. \A w \in Workers : worker[w] = Idle
  BY DEF Init
<1>3. \A o \in Ops : state[o] = "PROPOSED" /\ submits[o] = 0 /\ binding[o] = Unbound
  BY DEF Init
<1>4. \A b \in Vendors : vendors[b].origin = NoOp /\ vendors[b].tag = NoOp
  BY DEF Init, AbsentVendor, VendorOf
<1>5. WorkersHaveOps /\ GrantToken /\ ReferencesAreTagged /\ AdoptionToken
  BY <1>2, ConstantsAssumption DEF Init, WorkersHaveOps, GrantToken, ReferencesAreTagged, HoldsGrant,
    GrantPoints, Idle, Call, AdoptionToken, Adopts, AdoptPoints
<1>6. SingleSubmit /\ FailureIsProof
  BY <1>2, <1>3, <1>4, ConstantsAssumption DEF Init, SingleSubmit, FailureIsProof,
    NothingCreated, NotOnWire, Unanswered, HoldsGrant, GrantPoints, Idle, Call, InFlightStates
<1>7. ProviderOrder
  BY <1>4, ConstantsAssumption DEF ProviderOrder, NoDuplicateVendor
<1>8. BindingsAreTrue /\ AdoptedIsUnsent
  BY <1>3 DEF BindingsAreTrue, AdoptedIsUnsent, Unbound
<1>9. QED BY <1>1, <1>5, <1>6, <1>7, <1>8 DEF IInv

LEMMA IInvStep == IInv /\ [Next]_vars => IInv'
<1> SUFFICES ASSUME IInv, [Next]_vars PROVE IInv'
  OBVIOUS
<1>1. TypeOK' /\ WorkersHaveOps'
  BY TypeOKStep, WorkersHaveOpsStep DEF IInv
<1>2. SingleSubmit'
  BY SingleSubmitStep
<1>3. GrantToken'
  BY <1>1, OneHolder, UnspentGrant, UnprocessedRequest, RejectionIsProof, AnswerIsTagged
     DEF GrantToken, WorkersHaveOps
<1>4. AdoptionToken'
  BY AdoptionStep DEF AdoptionToken
<1>5. FailureIsProof'
  BY <1>1, FailSafeIsProof, FailedSafeStaysProof DEF FailureIsProof, WorkersHaveOps
<1>6. ProviderOrder'
  BY OneVendorPerOperation, FreshIds, TagsHaveCreators DEF ProviderOrder
<1>7. ReferencesAreTagged'
  BY CallsKnowTaggedVendors, AcknowledgedIsTagged DEF ReferencesAreTagged
<1>8. BindingsAreTrue' /\ AdoptedIsUnsent'
  BY BindingsStep, AdoptedStep
<1>9. QED BY <1>1, <1>2, <1>3, <1>4, <1>5, <1>6, <1>7, <1>8 DEF IInv

\* The strengthened invariant holds of every execution.
THEOREM Invariant == Spec => []IInv
BY IInvInit, IInvStep, PTL DEF Spec

\* The posting tables, the calls and the provider keep their types.
THEOREM TypeCorrect == Spec => []TypeOK
BY Invariant, PTL DEF IInv

\* No crash, lost answer, late request or concurrent call, and no adoption that
\* reopens its operation, makes the service create a second Vendor for it.
THEOREM AtMostOneVendor == Spec => []NoDuplicateVendor
<1>1. IInv => NoDuplicateVendor
  BY DEF IInv, ProviderOrder
<1>2. QED BY <1>1, Invariant, PTL

\* What the service calls safely failed, or hands back to a person, left nothing
\* in QuickBooks and has nothing under way.
THEOREM NothingLeftBehind == Spec => []NothingIsDisowned
<1>1. IInv => NothingIsDisowned
  <2> SUFFICES ASSUME IInv, NEW o \in Ops
               PROVE  /\ state[o] \notin InFlightStates \cup {"SUCCEEDED"} =>
                           Created(o) = {} /\ Requested(o) = {}
                      /\ state[o] \notin InFlightStates \cup {"SUCCEEDED", "FAILED_SAFE"} =>
                           submits[o] = 0
                      /\ state[o] = "FAILED_SAFE" => \A w \in Workers :
                           worker[w].op = o => worker[w].pc \notin {"dispatch", "posting"}
    BY DEF NothingIsDisowned
  <2>1. state[o] \notin InFlightStates \cup {"SUCCEEDED"} => NothingCreated(o) /\ NotOnWire(o)
    BY DEF IInv, SingleSubmit, FailureIsProof
  <2>2. QED BY <2>1 DEF IInv, SingleSubmit, FailureIsProof, NothingCreated, NotOnWire,
               Created, Requested
<1>2. QED BY <1>1, Invariant, PTL

\* A posted operation is bound to a Vendor no other operation has, and to one of
\* its own making unless it never sent anything.
THEOREM BoundToItsOwn == Spec => []BindingsAreTrue
<1>1. IInv => BindingsAreTrue
  BY DEF IInv
<1>2. QED BY <1>1, Invariant, PTL

----------------------------------------------------------------------------
(***************************************************************************)
(* The refinement of PostingContract.                                      *)
(***************************************************************************)
Promised == <<[o \in Ops |-> Outcome(o)], [o \in Ops |-> Created(o)]>>

\* The step that moves one operation moves no other and creates nothing.
LEMMA OthersStay ==
  ASSUME IInv, [Next]_vars, NEW o \in Ops, state'[o] # state[o]
  PROVE  /\ UNCHANGED vendors
         /\ \A p \in Ops \ {o} : state'[p] = state[p]
<1> USE DEF IInv, TypeOK, SetState, provider
<1>1. CASE \E to \in IntakeTargets : IntakeMove(o, to)
  BY <1>1 DEF IntakeMove
<1>2. CASE \E w \in Workers : PrepareDenied(w, o) \/ PrepareDispatch(w, o)
  BY <1>2 DEF PrepareDenied, PrepareDispatch
<1>3. CASE \E w \in Workers, x \in Vendors : AdoptRefused(w, o, x) \/ AdoptStart(w, o, x)
  BY <1>3 DEF AdoptRefused, AdoptStart
<1>4. ASSUME NEW w \in Workers, worker[w].op = o,
             \/ RecordAcknowledged(w) \/ RecordFailure(w) \/ BeginRecovery(w)
             \/ RecordMatch(w) \/ RecordNoMatch(w) \/ AdoptMatch(w) \/ AdoptNoMatch(w)
      PROVE  UNCHANGED vendors /\ \E s : SetState(o, s)
  BY <1>4 DEF RecordAcknowledged, RecordFailure, BeginRecovery, RecordMatch, RecordNoMatch,
    AdoptMatch, AdoptNoMatch
<1>5. QED BY <1>1, <1>2, <1>3, <1>4, StateMoves

\* A settled operation stays as it is: it is left where it was and keeps its
\* binding.
LEMMA SettledIsKept ==
  ASSUME IInv, [Next]_vars, NEW o \in Ops, state[o] \in {"SUCCEEDED", "DENIED", "FAILED_SAFE"}
  PROVE  state'[o] = state[o] /\ binding'[o] = binding[o]
<1>1. state'[o] = state[o]
  <2> SUFFICES ASSUME state'[o] # state[o] PROVE FALSE
    OBVIOUS
  <2>1. ASSUME NEW w \in Workers, worker[w].op = o, AdoptMatch(w) \/ AdoptNoMatch(w) PROVE FALSE
    BY <2>1 DEF AdoptMatch, AdoptNoMatch
  <2>2. QED
    BY <2>1, StateMoves DEF IInv, InFlightStates, IntakeMove, PassiveRetryStates, PrepareDenied,
      PrepareDispatch, AdoptRefused, AdoptStart, RecordAcknowledged, RecordFailure,
      BeginRecovery, RecordMatch, RecordNoMatch
<1>2. \A w \in Workers : ~Binds(w, o)
  BY BoundStep
<1>3. QED BY <1>1, <1>2, UnboundStep

\* What is still open is not bound, for a bound operation has succeeded.
LEMMA OpenIsUnbound ==
  ASSUME IInv, NEW o \in Ops, state[o] \notin {"SUCCEEDED", "DENIED", "FAILED_SAFE"}
  PROVE  binding[o] = Unbound /\ Outcome(o) = "OPEN"
BY DEF IInv, BindingsAreTrue, Outcome, Unbound

\* A success settles the operation as created with its Vendor in QuickBooks, or
\* as adopted with nothing of its own there.
LEMMA SuccessSettles ==
  ASSUME IInv, [Next]_vars, NEW w \in Workers, NEW o \in Ops, Binds(w, o)
  PROVE  \/ Outcome(o)' = "NOT_POSTED" /\ Created(o) = {}
         \/ Outcome(o)' = "POSTED" /\ Created(o) # {}
<1>1. /\ state'[o] = "SUCCEEDED" /\ binding'[o].kind \in {"CREATED", "ADOPTED"}
      /\ worker[w].vendor \in Vendors
      /\ binding'[o].kind = "CREATED" => vendors[worker[w].vendor].tag = o
      /\ binding'[o].kind = "ADOPTED" => submits[o] = 0
  BY BoundStep
<1>2. CASE binding'[o].kind = "CREATED"
  <2>1. PICK c \in Vendors : vendors[c].origin = o
    BY <1>1, <1>2, ConstantsAssumption DEF IInv, ProviderOrder
  <2>2. Created(o) # {}
    BY <2>1 DEF Created
  <2>3. QED BY <1>1, <1>2, <2>2 DEF Outcome
<1>3. CASE binding'[o].kind = "ADOPTED"
  <2>1. Created(o) = {}
    BY <1>1, <1>3 DEF IInv, SingleSubmit, NothingCreated, Created
  <2>2. QED BY <1>3, <2>1 DEF Outcome
<1>4. QED BY <1>1, <1>2, <1>3

\* An operation is denied or declared failed only while nothing of it exists.
LEMMA RefusalSettles ==
  ASSUME IInv, [Next]_vars, NEW o \in Ops, state'[o] # state[o],
         state'[o] \in {"DENIED", "FAILED_SAFE"}
  PROVE  Created(o) = {}
<1>1. CASE state'[o] = "FAILED_SAFE"
  BY <1>1, FailedSafeStaysProof, OthersStay DEF NothingCreated, Created
<1>2. CASE state'[o] = "DENIED"
  <2>. USE DEF IInv, TypeOK, SetState
  <2>1. ASSUME NEW to \in IntakeTargets, IntakeMove(o, to)
        PROVE  state[o] \in {"PROPOSED", "REVIEW", "VALIDATED"}
    BY <2>1 DEF IntakeMove, PassiveRetryStates, States
  <2>2. ASSUME NEW w \in Workers, PrepareDenied(w, o) PROVE state[o] = "AUTHORIZED"
    BY <2>2 DEF PrepareDenied
  <2>3. ASSUME NEW w \in Workers PROVE ~PrepareDispatch(w, o)
    BY <1>2 DEF PrepareDispatch
  <2>4. ASSUME NEW w \in Workers, NEW x \in Vendors
        PROVE  ~AdoptRefused(w, o, x) /\ ~AdoptStart(w, o, x)
    BY <1>2 DEF AdoptRefused, AdoptStart
  <2>5. ASSUME NEW w \in Workers, worker[w].op = o
        PROVE  /\ ~RecordAcknowledged(w) /\ ~RecordFailure(w) /\ ~BeginRecovery(w)
               /\ ~RecordMatch(w) /\ ~RecordNoMatch(w) /\ ~AdoptMatch(w) /\ ~AdoptNoMatch(w)
    BY <1>2, <2>5 DEF RecordAcknowledged, RecordFailure, BeginRecovery, RecordMatch, RecordNoMatch,
      AdoptMatch, AdoptNoMatch
  <2>6. state[o] \in {"PROPOSED", "REVIEW", "VALIDATED", "AUTHORIZED"}
    BY <2>1, <2>2, <2>3, <2>4, <2>5, StateMoves
  <2>7. NothingCreated(o)
    BY <2>6 DEF SingleSubmit, InFlightStates
  <2>8. QED BY <2>7 DEF NothingCreated, Created
<1>3. QED BY <1>1, <1>2

\* What a step does to the outcome of an operation: nothing, or it moves the
\* operation and settles what was open, truly.
LEMMA OutcomeMoves ==
  ASSUME IInv, [Next]_vars, NEW o \in Ops, Outcome(o)' # Outcome(o)
  PROVE  /\ state'[o] # state[o] /\ Outcome(o) = "OPEN"
         /\ \/ Outcome(o)' = "NOT_POSTED" /\ Created(o) = {}
            \/ Outcome(o)' = "POSTED" /\ Created(o) # {}
<1>1. state[o] \notin {"SUCCEEDED", "DENIED", "FAILED_SAFE"}
  BY SettledIsKept DEF Outcome
<1>2. ASSUME NEW w \in Workers, Binds(w, o)
      PROVE  state'[o] # state[o]
  BY <1>2, BoundStep
<1>3. ASSUME \A w \in Workers : ~Binds(w, o)
      PROVE  state'[o] # state[o] /\ Outcome(o)' = "NOT_POSTED" /\ Created(o) = {}
  <2>1. binding'[o].kind = "NONE" /\ binding[o].kind = "NONE"
    BY <1>1, <1>3, OpenIsUnbound, UnboundStep DEF Unbound
  <2>2. state'[o] \in {"DENIED", "FAILED_SAFE"} /\ Outcome(o)' = "NOT_POSTED"
    BY <1>1, <2>1 DEF Outcome
  <2>3. QED BY <1>1, <2>2, RefusalSettles
<1>4. QED BY <1>1, <1>2, <1>3, OpenIsUnbound, SuccessSettles

\* The provider creates the Vendor of an operation that is still open and has
\* created none.
LEMMA CreatesOnce ==
  ASSUME IInv, NEW r \in wire, ProviderCreates(r)
  PROVE  r.op \in Ops /\ Contract!Create(r.op)
<1>. USE DEF IInv, TypeOK
<1>1. r.op \in Ops /\ r.op # NoOp /\ NothingCreated(r.op)
  BY ConstantsAssumption DEF Requests, GrantToken
<1>2. Outcome(r.op) = "OPEN"
  <2>1. submits[r.op] # 0
    BY <1>1 DEF SingleSubmit, NotOnWire
  <2>2. state[r.op] \notin {"DENIED", "FAILED_SAFE"}
    BY <1>1, <2>1 DEF SingleSubmit, InFlightStates, FailureIsProof, NotOnWire
  <2>3. binding[r.op].kind # "ADOPTED"
    BY <1>1, <2>1 DEF AdoptedIsUnsent
  <2>4. binding[r.op].kind # "CREATED"
    <3>1. ASSUME binding[r.op].kind = "CREATED"
          PROVE  vendors[binding[r.op].vendor].tag = r.op /\ binding[r.op].vendor \in Vendors
      BY <1>1, <3>1 DEF BindingsAreTrue, AdoptedIsUnsent, Unbound
    <3>2. QED BY <1>1, <3>1 DEF ProviderOrder, NothingCreated
  <2>5. QED BY <2>2, <2>3, <2>4 DEF Outcome
<1>3. PICK v \in Vendors :
        ~vendors[v].exists /\ vendors' = [vendors EXCEPT ![v] = VendorOf(r.op, r.op, TRUE)]
  BY DEF ProviderCreates
<1>4. \A p \in Ops : v \notin Created(p)
  BY <1>3, ConstantsAssumption DEF ProviderOrder, Created
<1>5. Created(r.op) = {} /\ Created(r.op)' = {v}
  BY <1>1, <1>3 DEF Created, NothingCreated
<1>6. \A p \in Ops \ {r.op} : Created(p)' = Created(p)
  BY <1>1, <1>3, <1>4 DEF Created
<1>7. [p \in Ops |-> Created(p)]' = [[p \in Ops |-> Created(p)] EXCEPT ![r.op] = {v}]
  BY <1>1, <1>5, <1>6
<1>8. UNCHANGED [p \in Ops |-> Outcome(p)]
  BY DEF ProviderCreates, store, Outcome
<1>9. QED BY <1>1, <1>2, <1>4, <1>5, <1>7, <1>8 DEF Contract!Create

\* Every step of the service is a step of the contract or changes nothing the
\* contract speaks of.
LEMMA ContractStep == IInv /\ [Next]_vars => [Contract!Next]_Promised
<1> SUFFICES ASSUME IInv, [Next]_vars PROVE Contract!Next \/ UNCHANGED Promised
  OBVIOUS
<1>1. ASSUME NEW r \in wire, ProviderCreates(r) PROVE Contract!Next
  BY <1>1, CreatesOnce DEF Contract!Next
<1>2. ASSUME \A r \in wire : ~ProviderCreates(r)
      PROVE  UNCHANGED [o \in Ops |-> Created(o)]
  <2>1. CASE UserStep
    <3>1. \A c \in Vendors : vendors'[c].origin = vendors[c].origin
      BY <2>1, UsersCreateNothing, VendorsStay DEF IInv, TypeOK, ProviderOrder
    <3>2. QED BY <3>1 DEF Created
  <2>2. CASE UNCHANGED vendors
    BY <2>2 DEF Created
  <2>3. QED BY <1>2, <2>1, <2>2, WhoChanges
<1>3. CASE \A o \in Ops : Outcome(o)' = Outcome(o)
  BY <1>1, <1>2, <1>3 DEF Promised
<1>4. ASSUME NEW o \in Ops, Outcome(o)' # Outcome(o) PROVE Contract!Next
  <2>1. /\ Outcome(o) = "OPEN" /\ state'[o] # state[o]
        /\ \/ Outcome(o)' = "NOT_POSTED" /\ Created(o) = {}
           \/ Outcome(o)' = "POSTED" /\ Created(o) # {}
    BY <1>4, OutcomeMoves
  <2>2. UNCHANGED [p \in Ops |-> Created(p)]
    BY <2>1, OthersStay DEF Created
  <2>3. \A p \in Ops \ {o} : Outcome(p)' = Outcome(p)
    BY <2>1, OthersStay, OutcomeMoves
  <2>4. [p \in Ops |-> Outcome(p)]' = [[p \in Ops |-> Outcome(p)] EXCEPT ![o] = Outcome(o)']
    BY <2>3
  <2>5. Contract!SettlePosted(o) \/ Contract!SettleNotPosted(o)
    BY <2>1, <2>2, <2>4 DEF Contract!SettlePosted, Contract!SettleNotPosted
  <2>6. QED BY <2>5 DEF Contract!Next
<1>5. QED BY <1>3, <1>4

\* VendorExecution implements PostingContract: at most one Vendor is created for
\* an operation, and it is settled as created only when the Vendor exists, as not
\* created only when none will, adoptions included.
THEOREM Refinement == Spec => KeepsVendorContract
<1>1. Init => Contract!Init
  BY ConstantsAssumption DEF Init, Contract!Init, Outcome, Created, Unbound, AbsentVendor
<1>2. QED
  BY <1>1, ContractStep, Invariant, PTL DEF Spec, KeepsVendorContract, Contract!Spec, Promised

=============================================================================
