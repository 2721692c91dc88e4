------------------------- MODULE SandboxPilot_proofs -------------------------
(***************************************************************************)
(* The safety of SandboxPilot and of the connection it takes credentials   *)
(* from, for every set of requests, Vendors, companies and callers.  Two   *)
(* tokens carry the proof: one request at a time reads the Vendor of an    *)
(* adoption, and one at a time is between the dispatch of the Bill and its *)
(* read-back; each is created by leaving AUTHORIZED, which happens once.   *)
(***************************************************************************)
EXTENDS SandboxPilot, TLAPS

\* A request that is past the adoption, and one that has recorded it.
AfterAdoption == {"mark", "bill", "post", "answer", "readBill", "succeeded"}
AfterMark == {"bill", "post", "answer", "readBill"}

\* The points between the dispatch of the Bill and what its read-back records.
BillPoints == {"post", "answer", "readBill"}

\* One request adopts, and what it adopted stands for all that come after it.
AdoptionStands ==
  /\ vendorState = "SUCCEEDED" => vendorBinding \in Vendors
  /\ \A p \in Pilots : At(p, "readVendor") => vendorState = "VERIFYING"
  /\ \A p, q \in Pilots : At(p, "readVendor") /\ At(q, "readVendor") => p = q
  /\ \A p \in Pilots : pilot[p].pc \in AfterAdoption =>
       vendorState = "SUCCEEDED" /\ vendorBinding = pilot[p].vendor
  /\ \A p \in Pilots : pilot[p].pc \in AfterMark => vendorBinding \in marked

\* One request dispatches, and the state of the Bill says how far it is.
DispatchToken ==
  /\ \A p, q \in Pilots : pilot[p].pc \in BillPoints /\ pilot[q].pc \in BillPoints => p = q
  /\ \A p \in Pilots : pilot[p].pc \in {"post", "answer"} => billState = "SUBMITTING"
  /\ \A p \in Pilots : At(p, "post") => created = 0
  /\ \A p \in Pilots : At(p, "readBill") => billState = "VERIFYING" /\ created = 1

\* What was created was dispatched under the adopted and recorded Vendor.
CreatedUnderVendor ==
  /\ created <= 1
  /\ created > 0 => vendorState = "SUCCEEDED" /\ vendorBinding \in marked
  /\ billState = "AUTHORIZED" => created = 0
  /\ billState = "SUCCEEDED" => created = 1

\* A Bill that was seen verified stays so, and its Vendor is the request's.
SuccessIsTrue ==
  /\ \A p \in Pilots : pilot[p].billSeen = "SUCCEEDED" =>
       /\ billState = "SUCCEEDED"
       /\ vendorState = "SUCCEEDED" /\ vendorBinding = pilot[p].vendor
  /\ \A p \in Pilots : At(p, "succeeded") => billState = "SUCCEEDED"

IInv ==
  /\ TypeOK
  /\ PairsStand
  /\ AdoptionStands
  /\ DispatchToken
  /\ CreatedUnderVendor
  /\ SuccessIsTrue

----------------------------------------------------------------------------
(***************************************************************************)
(* The connection.                                                         *)
(***************************************************************************)
\* One step of getValidQboAccess, or the use of what it returned.
AccessStep(c) ==
  \/ Load(c) \/ Refresh(c) \/ SaveRefreshed(c) \/ AccessFails(c)
  \/ Release(c) /\ UNCHANGED connection

\* The connection and the calls that read it are changed in no other way.
LEMMA ConnectionMoves ==
  ASSUME [Next]_vars
  PROVE  \/ UNCHANGED connectionVars
         \/ \E c \in Callers : AccessStep(c)
         \/ \E r \in Realms : Connect(r)
         \/ Disconnect \/ Expire
<1>. USE PilotAssumption DEF AccessStep
<1>1. ASSUME NEW p \in Pilots, Execute(p)
      PROVE  UNCHANGED connectionVars \/ AccessStep(p)
  BY <1>1 DEF Execute, ValidateEligibility, VerifyOAuth, GetMappingExpectations,
    ObserveMappings, RefreshMappings, ReverifyMappings, RefreshAuthorization,
    PrepareDispatch, AdoptionSettled, PrepareAdoption, RecordAdoption,
    MarkVendorSucceeded, BillSettled, PrepareBill, PostBill, ReceiveAnswer, RecordBill,
    Checks, Used
<1>2. ASSUME NEW p \in Pilots, GetAccess(p) \/ Abort(p) PROVE AccessStep(p)
  BY <1>2 DEF GetAccess, Abort
<1>3. ASSUME NEW c \in Callers, OtherCaller(c) PROVE AccessStep(c)
  BY <1>3 DEF OtherCaller
<1>4. QED
  BY <1>1, <1>2, <1>3 DEF Next, UserActs, WorldChanges, vars, connectionVars

\* Each of those steps keeps the connection, and every copy of it, well typed and
\* labelled with the company it opens.
LEMMA ConnectionStep ==
  ASSUME ConnectionTypeOK, PairsStand, [Next]_vars
  PROVE  ConnectionTypeOK' /\ PairsStand'
<1>. USE ConnectionAssumption
     DEF ConnectionTypeOK, PairsStand, Access, AccessStates, NoAccess, Connections, Fresh,
         Save, Proceeds
<1>1. CASE UNCHANGED connectionVars
  BY <1>1 DEF connectionVars
<1>2. ASSUME NEW r \in Realms, Connect(r) PROVE ConnectionTypeOK' /\ PairsStand'
  BY <1>2 DEF Connect
<1>3. CASE Disconnect
  BY <1>3 DEF Disconnect
<1>4. CASE Expire
  <2>1. /\ connection \in Connections
        /\ connection' = [connection EXCEPT !.expired = TRUE]
    BY <1>4 DEF Expire
  <2>2. connection' \in Connections /\ connection'.opens = connection.opens
          /\ connection'.org = connection.org
    BY <2>1
  <2>3. QED BY <1>4, <2>1, <2>2 DEF Expire
<1>5. ASSUME NEW c \in Callers, AccessStep(c) PROVE ConnectionTypeOK' /\ PairsStand'
  <2>1. CASE Load(c)
    <3>1. PICK s \in {"FAILED", "LOADED", "HELD"} :
            /\ access' = [access EXCEPT ![c] = [state |-> s, conn |-> connection]]
            /\ s # "FAILED" => connection # NoConnection
      BY <2>1 DEF Load
    <3>2. access' \in [Callers -> Access]
      BY <3>1
    <3>3. QED BY <2>1, <3>1, <3>2 DEF Load
  <2>2. CASE Refresh(c)
    <3>1. PICK k \in Connections : k = [access[c].conn EXCEPT !.expired = FALSE]
      BY <2>2 DEF Refresh
    <3>2. k.opens = k.org
      BY <3>1, <2>2 DEF Refresh
    <3>3. access' = [access EXCEPT ![c] = [state |-> "REFRESHED", conn |-> k]]
      BY <2>2, <3>1 DEF Refresh
    <3>4. access' \in [Callers -> Access]
      BY <3>3
    <3>5. connection' = connection
      BY <2>2 DEF Refresh
    <3>6. QED BY <3>2, <3>3, <3>4, <3>5
  <2>3. CASE SaveRefreshed(c)
    <3>1. PICK k \in Connections : k = access[c].conn /\ k.opens = k.org
      BY <2>3 DEF SaveRefreshed
    <3>2. /\ connection' = [opens |-> k.opens, org |-> k.org, expired |-> FALSE]
          /\ access' = [access EXCEPT ![c] = [state |-> "HELD", conn |-> k]]
      BY <2>3, <3>1 DEF SaveRefreshed
    <3>3. connection' \in Connections /\ access' \in [Callers -> Access]
      BY <3>2
    <3>4. QED BY <3>1, <3>2, <3>3
  <2>4. CASE AccessFails(c)
    BY <2>4 DEF AccessFails
  <2>5. CASE Release(c) /\ UNCHANGED connection
    BY <2>5 DEF Release
  <2>6. QED BY <1>5, <2>1, <2>2, <2>3, <2>4, <2>5 DEF AccessStep
<1>6. QED BY <1>1, <1>2, <1>3, <1>4, <1>5, ConnectionMoves

----------------------------------------------------------------------------
(***************************************************************************)
(* Type correctness.                                                       *)
(***************************************************************************)
\* The variables that are the pilot's own.
PilotTypeOK ==
  /\ vendorState \in States /\ billState \in States
  /\ vendorBinding \in Vendors \cup {NoVendor}
  /\ marked \subseteq Vendors
  /\ created \in Nat
  /\ lapsed \subseteq Currents
  /\ pilot \in [Pilots -> PilotState]

\* A request moves on, stops, or starts with the state of the Bill it saw.
LEMMA PilotType ==
  ASSUME PilotTypeOK, NEW p \in Pilots,
         \/ Stop(p)
         \/ \E pc \in Points : Goto(p, pc)
         \/ \E v \in Vendors : pilot' = [pilot EXCEPT ![p] =
                [Start("oauth", v) EXCEPT !.billSeen = billState]]
  PROVE  pilot' \in [Pilots -> PilotState]
<1>. USE DEF PilotTypeOK, Stop, Goto, Start, PilotState, Points, States
<1>1. CASE Stop(p)
  BY <1>1
<1>2. ASSUME NEW pc \in Points, Goto(p, pc) PROVE pilot' \in [Pilots -> PilotState]
  <2>1. pilot[p] \in PilotState
    OBVIOUS
  <2>2. [pilot[p] EXCEPT !.pc = pc] \in PilotState
    BY <2>1
  <2>3. pilot' = [pilot EXCEPT ![p] = [pilot[p] EXCEPT !.pc = pc]]
    BY <1>2
  <2>4. QED BY <2>2, <2>3
<1>3. ASSUME NEW v \in Vendors,
             pilot' = [pilot EXCEPT ![p] = [Start("oauth", v) EXCEPT !.billSeen = billState]]
      PROVE  pilot' \in [Pilots -> PilotState]
  <2>1. [Start("oauth", v) EXCEPT !.billSeen = billState]
          = [pc |-> "oauth", vendor |-> v, billSeen |-> billState]
    OBVIOUS
  <2>2. QED BY <1>3, <2>1
<1>4. QED BY <1>1, <1>2, <1>3

\* Every step of a request keeps the types.
LEMMA ExecuteType ==
  ASSUME PilotTypeOK, AdoptionStands, NEW p \in Pilots, Execute(p)
  PROVE  PilotTypeOK'
<1>1. pilot' \in [Pilots -> PilotState]
  <2>1. CASE \E v \in Vendors : ValidateEligibility(p, v)
    BY <2>1, PilotType DEF ValidateEligibility
  <2>2. CASE \/ VerifyOAuth(p) \/ GetMappingExpectations(p) \/ ObserveMappings(p)
             \/ RefreshMappings(p) \/ ReverifyMappings(p) \/ RefreshAuthorization(p)
             \/ PrepareDispatch(p) \/ AdoptionSettled(p)
    BY <2>2, PilotType DEF VerifyOAuth, GetMappingExpectations, ObserveMappings,
      RefreshMappings, ReverifyMappings, RefreshAuthorization, PrepareDispatch,
      AdoptionSettled, Checks, GoOn, Points
  <2>3. CASE \/ PrepareAdoption(p) \/ RecordAdoption(p) \/ MarkVendorSucceeded(p)
             \/ BillSettled(p) \/ PrepareBill(p) \/ PostBill(p) \/ ReceiveAnswer(p)
             \/ RecordBill(p)
    BY <2>3, PilotType DEF PrepareAdoption, RecordAdoption, MarkVendorSucceeded,
      BillSettled, PrepareBill, PostBill, ReceiveAnswer, RecordBill, GoOn, Points
  <2>4. QED BY <2>1, <2>2, <2>3 DEF Execute
<1>2. lapsed' \subseteq Currents
  BY DEF PilotTypeOK, Execute, ValidateEligibility, VerifyOAuth, GetMappingExpectations,
    ObserveMappings, RefreshMappings, ReverifyMappings, RefreshAuthorization,
    PrepareDispatch, AdoptionSettled, PrepareAdoption, RecordAdoption,
    MarkVendorSucceeded, BillSettled, PrepareBill, PostBill, ReceiveAnswer, RecordBill,
    Checks
<1>3. /\ vendorState' \in States /\ billState' \in States
      /\ vendorBinding' \in Vendors \cup {NoVendor}
      /\ created' \in Nat
  <2>1. CASE UNCHANGED <<operations, created>>
    BY <2>1 DEF PilotTypeOK, operations
  <2>2. CASE PrepareAdoption(p) \/ MarkVendorSucceeded(p)
    BY <2>2 DEF PrepareAdoption, MarkVendorSucceeded, PilotTypeOK, States
  <2>3. CASE RecordAdoption(p)
    BY <2>3, PilotAssumption DEF RecordAdoption, PilotTypeOK, States
  <2>4. CASE PrepareBill(p)
    BY <2>4 DEF PrepareBill, PilotTypeOK, States
  <2>5. CASE PostBill(p) \/ ReceiveAnswer(p) \/ RecordBill(p)
    BY <2>5 DEF PostBill, ReceiveAnswer, RecordBill, PilotTypeOK, States
  <2>6. QED
    BY <2>1, <2>2, <2>3, <2>4, <2>5 DEF Execute, ValidateEligibility, VerifyOAuth,
      GetMappingExpectations, ObserveMappings, RefreshMappings, ReverifyMappings,
      RefreshAuthorization, PrepareDispatch, AdoptionSettled, BillSettled, Checks
<1>4. marked' \subseteq Vendors
  <2>1. CASE MarkVendorSucceeded(p)
    BY <2>1 DEF MarkVendorSucceeded, AdoptionStands, AfterAdoption, At, PilotTypeOK
  <2>2. CASE UNCHANGED marked
    BY <2>2 DEF PilotTypeOK
  <2>3. QED
    BY <2>1, <2>2 DEF Execute, operations, ValidateEligibility, VerifyOAuth,
      GetMappingExpectations, ObserveMappings, RefreshMappings, ReverifyMappings,
      RefreshAuthorization, PrepareDispatch, AdoptionSettled, PrepareAdoption,
      RecordAdoption, BillSettled, PrepareBill, PostBill, ReceiveAnswer, RecordBill, Checks
<1>5. QED BY <1>1, <1>2, <1>3, <1>4 DEF PilotTypeOK

\* And so does every other step.
LEMMA TypeOKStep == TypeOK /\ PairsStand /\ AdoptionStands /\ [Next]_vars => TypeOK'
<1>. SUFFICES ASSUME TypeOK, PairsStand, AdoptionStands, [Next]_vars PROVE TypeOK'
  OBVIOUS
<1>1. ConnectionTypeOK'
  BY ConnectionStep DEF TypeOK
<1>2. PilotTypeOK
  BY DEF TypeOK, PilotTypeOK
<1>3. PilotTypeOK'
  <2>1. ASSUME NEW p \in Pilots, Execute(p) PROVE PilotTypeOK'
    BY <1>2, <2>1, ExecuteType
  <2>2. ASSUME NEW p \in Pilots, Abort(p) PROVE PilotTypeOK'
    <3>1. pilot' \in [Pilots -> PilotState]
      BY <1>2, <2>2, PilotType DEF Abort
    <3>2. QED BY <1>2, <2>2, <3>1 DEF Abort, PilotTypeOK, operations
  <2>3. CASE UNCHANGED <<operations, created, lapsed, pilot>>
    BY <1>2, <2>3 DEF PilotTypeOK, operations
  <2>4. CASE WorldChanges
    BY <1>2, <2>4, PilotAssumption DEF WorldChanges, PilotTypeOK, operations
  <2>5. QED
    BY <2>1, <2>2, <2>3, <2>4 DEF Next, GetAccess, OtherCaller, UserActs, vars
<1>4. QED BY <1>1, <1>3 DEF TypeOK, PilotTypeOK

----------------------------------------------------------------------------
(***************************************************************************)
(* The tokens, one group of steps at a time.                               *)
(***************************************************************************)
Tokens ==
  /\ AdoptionStands
  /\ DispatchToken
  /\ CreatedUnderVendor
  /\ SuccessIsTrue

\* The points before the adoption: nothing is promised of a request there.
Before == {"idle", "oauth", "expect", "observe", "refreshMappings", "reverify",
           "authorize", "preflight", "adopt"}

\* A request that stops or moves on before the adoption, and touches nothing
\* else, disturbs no token.
LEMMA Harmless ==
  ASSUME PilotTypeOK, Tokens, NEW p \in Pilots, UNCHANGED <<operations, created>>,
         Stop(p) \/ \E pc \in Before : Goto(p, pc)
  PROVE  Tokens'
<1>. USE DEF PilotTypeOK, Tokens, operations, At, PilotState, Before
<1>1. \A q \in Pilots :
        \/ pilot'[q] = pilot[q]
        \/ /\ pilot'[q].pc \in Before
           /\ \/ pilot'[q].billSeen = "AUTHORIZED"
              \/ /\ pilot'[q].billSeen = pilot[q].billSeen
                 /\ pilot'[q].vendor = pilot[q].vendor
  BY DEF Stop, Goto, Start
<1>2. AdoptionStands'
  BY <1>1 DEF AdoptionStands, AfterAdoption, AfterMark
<1>3. DispatchToken'
  BY <1>1 DEF DispatchToken, BillPoints
<1>4. CreatedUnderVendor'
  BY DEF CreatedUnderVendor
<1>5. SuccessIsTrue'
  BY <1>1 DEF SuccessIsTrue
<1>6. QED BY <1>2, <1>3, <1>4, <1>5

\* The request begins: a Bill it sees verified belongs to the Vendor it names.
LEMMA StartStep ==
  ASSUME PilotTypeOK, Tokens, NEW p \in Pilots, NEW v \in Vendors,
         ValidateEligibility(p, v)
  PROVE  Tokens'
<1>. USE DEF PilotTypeOK, Tokens, operations, At, PilotState
<1>1. UNCHANGED <<operations, created>>
  BY DEF ValidateEligibility
<1>2. CASE Stop(p)
  BY <1>1, <1>2, Harmless
<1>3. CASE /\ Eligible(v)
           /\ pilot' = [pilot EXCEPT ![p] =
                [Start("oauth", v) EXCEPT !.billSeen = billState]]
  <2>1. pilot' = [pilot EXCEPT ![p] = [pc |-> "oauth", vendor |-> v, billSeen |-> billState]]
    <3>1. [Start("oauth", v) EXCEPT !.billSeen = billState]
            = [pc |-> "oauth", vendor |-> v, billSeen |-> billState]
      BY DEF Start
    <3>2. QED BY <1>3, <3>1
  <2>2. billState = "SUCCEEDED" => vendorState = "SUCCEEDED" /\ vendorBinding = v
    BY <1>3 DEF Eligible, BindingFits, CreatedUnderVendor
  <2>3. AdoptionStands'
    BY <1>1, <2>1 DEF AdoptionStands, AfterAdoption, AfterMark
  <2>4. DispatchToken'
    BY <1>1, <2>1 DEF DispatchToken, BillPoints
  <2>5. CreatedUnderVendor'
    BY <1>1 DEF CreatedUnderVendor
  <2>6. SuccessIsTrue'
    BY <1>1, <2>1, <2>2 DEF SuccessIsTrue
  <2>7. QED BY <2>3, <2>4, <2>5, <2>6
<1>4. QED BY <1>2, <1>3 DEF ValidateEligibility

\* The steps that check something: only the last can answer SUCCEEDED, for a
\* Bill that was verified before.
LEMMA CheckSteps ==
  ASSUME PilotTypeOK, Tokens, NEW p \in Pilots,
         \/ VerifyOAuth(p) \/ GetMappingExpectations(p) \/ ObserveMappings(p)
         \/ RefreshMappings(p) \/ ReverifyMappings(p) \/ RefreshAuthorization(p)
         \/ PrepareDispatch(p)
  PROVE  Tokens'
<1>. USE DEF PilotTypeOK, Tokens, operations, At, PilotState
<1>1. UNCHANGED <<operations, created>>
  BY DEF VerifyOAuth, GetMappingExpectations, ObserveMappings, RefreshMappings,
    ReverifyMappings, RefreshAuthorization, PrepareDispatch, Checks
<1>2. \/ Stop(p) \/ \E pc \in Before : Goto(p, pc)
      \/ Goto(p, "succeeded") /\ pilot[p].billSeen = "SUCCEEDED"
  BY DEF VerifyOAuth, GetMappingExpectations, ObserveMappings, RefreshMappings,
    ReverifyMappings, RefreshAuthorization, PrepareDispatch, Checks, GoOn, Before
<1>3. CASE Goto(p, "succeeded") /\ pilot[p].billSeen = "SUCCEEDED"
  <2>1. AdoptionStands'
    BY <1>1, <1>3 DEF AdoptionStands, AfterAdoption, AfterMark, SuccessIsTrue, Goto
  <2>2. DispatchToken'
    BY <1>1, <1>3 DEF DispatchToken, BillPoints, Goto
  <2>3. CreatedUnderVendor'
    BY <1>1 DEF CreatedUnderVendor
  <2>4. SuccessIsTrue'
    BY <1>1, <1>3 DEF SuccessIsTrue, Goto
  <2>5. QED BY <2>1, <2>2, <2>3, <2>4
<1>4. QED BY <1>1, <1>2, <1>3, Harmless

\* Adoption: the token is taken by leaving AUTHORIZED, and given back bound.
LEMMA AdoptionSteps ==
  ASSUME PilotTypeOK, Tokens, NEW p \in Pilots,
         \/ AdoptionSettled(p) \/ PrepareAdoption(p) \/ RecordAdoption(p)
         \/ MarkVendorSucceeded(p)
  PROVE  Tokens'
<1>. USE DEF PilotTypeOK, Tokens, operations, At, PilotState
<1>1. CASE AdoptionSettled(p)
  <2>1. UNCHANGED <<operations, created>>
    BY <1>1 DEF AdoptionSettled
  <2>2. CASE Stop(p)
    BY <2>1, <2>2, Harmless
  <2>3. CASE /\ Goto(p, "mark")
             /\ vendorState = "SUCCEEDED" /\ vendorBinding = pilot[p].vendor
    <3>1. AdoptionStands'
      BY <2>1, <2>3 DEF AdoptionStands, AfterAdoption, AfterMark, Goto
    <3>2. DispatchToken'
      BY <2>1, <2>3 DEF DispatchToken, BillPoints, Goto
    <3>3. CreatedUnderVendor' /\ SuccessIsTrue'
      BY <2>1, <2>3 DEF CreatedUnderVendor, SuccessIsTrue, Goto
    <3>4. QED BY <3>1, <3>2, <3>3
  <2>4. QED BY <1>1, <2>2, <2>3 DEF AdoptionSettled, GoOn
<1>2. CASE PrepareAdoption(p)
  <2>1. /\ vendorState = "AUTHORIZED" /\ At(p, "adopt")
        /\ UNCHANGED <<vendorBinding, billState, marked, created>>
        /\ \/ vendorState' = "VERIFYING" /\ Goto(p, "readVendor")
           \/ vendorState' = "REVIEW" /\ Stop(p)
    BY <1>2 DEF PrepareAdoption, GoOn
  <2>2. AdoptionStands'
    BY <2>1 DEF AdoptionStands, AfterAdoption, AfterMark, Goto, Stop, Start
  <2>3. DispatchToken'
    BY <2>1 DEF DispatchToken, BillPoints, Goto, Stop, Start
  <2>4. CreatedUnderVendor' /\ SuccessIsTrue'
    BY <2>1 DEF CreatedUnderVendor, SuccessIsTrue, Goto, Stop, Start
  <2>5. QED BY <2>2, <2>3, <2>4
<1>3. CASE RecordAdoption(p)
  <2>1. /\ At(p, "readVendor")
        /\ UNCHANGED <<billState, marked, created>>
        /\ \/ /\ vendorState' = "SUCCEEDED" /\ vendorBinding' = pilot[p].vendor
              /\ pilot[p].vendor \in Matching /\ Goto(p, "mark")
           \/ vendorState' = "REVIEW" /\ Stop(p) /\ UNCHANGED vendorBinding
    BY <1>3 DEF RecordAdoption, Used
  <2>2. vendorState = "VERIFYING"
    BY <2>1 DEF AdoptionStands
  <2>3. AdoptionStands'
    BY <2>1, <2>2, PilotAssumption
       DEF AdoptionStands, AfterAdoption, AfterMark, Goto, Stop, Start
  <2>4. DispatchToken'
    BY <2>1 DEF DispatchToken, BillPoints, Goto, Stop, Start
  <2>5. CreatedUnderVendor' /\ SuccessIsTrue'
    BY <2>1, <2>2 DEF CreatedUnderVendor, SuccessIsTrue, Goto, Stop, Start
  <2>6. QED BY <2>3, <2>4, <2>5
<1>4. CASE MarkVendorSucceeded(p)
  <2>1. /\ At(p, "mark") /\ Goto(p, "bill")
        /\ marked' = marked \cup {pilot[p].vendor}
        /\ UNCHANGED <<vendorState, vendorBinding, billState, created>>
    BY <1>4 DEF MarkVendorSucceeded
  <2>2. AdoptionStands'
    BY <2>1 DEF AdoptionStands, AfterAdoption, AfterMark, Goto
  <2>3. DispatchToken'
    BY <2>1 DEF DispatchToken, BillPoints, Goto
  <2>4. CreatedUnderVendor' /\ SuccessIsTrue'
    BY <2>1 DEF CreatedUnderVendor, SuccessIsTrue, Goto
  <2>5. QED BY <2>2, <2>3, <2>4
<1>5. QED BY <1>1, <1>2, <1>3, <1>4

\* The Bill: one request leaves AUTHORIZED, sends, and reads back what it sent.
LEMMA BillSteps ==
  ASSUME PilotTypeOK, Tokens, NEW p \in Pilots,
         \/ BillSettled(p) \/ PrepareBill(p) \/ PostBill(p) \/ ReceiveAnswer(p)
         \/ RecordBill(p)
  PROVE  Tokens'
<1>. USE DEF PilotTypeOK, Tokens, operations, At, PilotState
<1>1. CASE BillSettled(p)
  <2>1. UNCHANGED <<operations, created>>
    BY <1>1 DEF BillSettled
  <2>2. CASE Stop(p)
    BY <2>1, <2>2, Harmless
  <2>3. CASE At(p, "bill") /\ Goto(p, "succeeded") /\ billState = "SUCCEEDED"
    <3>1. AdoptionStands'
      BY <2>1, <2>3 DEF AdoptionStands, AfterAdoption, AfterMark, Goto
    <3>2. DispatchToken'
      BY <2>1, <2>3 DEF DispatchToken, BillPoints, Goto
    <3>3. CreatedUnderVendor' /\ SuccessIsTrue'
      BY <2>1, <2>3 DEF CreatedUnderVendor, SuccessIsTrue, Goto
    <3>4. QED BY <3>1, <3>2, <3>3
  <2>4. QED BY <1>1, <2>2, <2>3 DEF BillSettled, GoOn
<1>2. CASE PrepareBill(p)
  <2>1. /\ At(p, "bill") /\ billState = "AUTHORIZED"
        /\ UNCHANGED <<vendorState, vendorBinding, marked, created>>
        /\ \/ billState' \in {"REVIEW", "DENIED"} /\ Stop(p)
           \/ billState' = "SUBMITTING" /\ Goto(p, "post")
    BY <1>2 DEF PrepareBill
  <2>2. AdoptionStands'
    BY <2>1 DEF AdoptionStands, AfterAdoption, AfterMark, Goto, Stop, Start
  <2>3. DispatchToken'
    BY <2>1 DEF DispatchToken, BillPoints, CreatedUnderVendor, Goto, Stop, Start
  <2>4. CreatedUnderVendor' /\ SuccessIsTrue'
    BY <2>1 DEF CreatedUnderVendor, SuccessIsTrue, Goto, Stop, Start
  <2>5. QED BY <2>2, <2>3, <2>4
<1>3. CASE PostBill(p)
  <2>1. /\ At(p, "post")
        /\ UNCHANGED <<vendorState, vendorBinding, marked>>
        /\ \/ /\ created' \in {created, created + 1}
              /\ Goto(p, "answer") /\ UNCHANGED billState
           \/ billState' = "FAILED_SAFE" /\ Stop(p) /\ UNCHANGED created
    BY <1>3 DEF PostBill, Used
  <2>2. /\ created = 0 /\ billState = "SUBMITTING"
        /\ vendorState = "SUCCEEDED" /\ vendorBinding \in marked
    BY <2>1 DEF DispatchToken, AdoptionStands, AfterAdoption, AfterMark
  <2>3. AdoptionStands'
    BY <2>1 DEF AdoptionStands, AfterAdoption, AfterMark, Goto, Stop, Start
  <2>4. DispatchToken'
    BY <2>1, <2>2 DEF DispatchToken, BillPoints, Goto, Stop, Start
  <2>5. CreatedUnderVendor' /\ SuccessIsTrue'
    BY <2>1, <2>2 DEF CreatedUnderVendor, SuccessIsTrue, Goto, Stop, Start
  <2>6. QED BY <2>3, <2>4, <2>5
<1>4. CASE ReceiveAnswer(p)
  <2>1. /\ At(p, "answer")
        /\ UNCHANGED <<vendorState, vendorBinding, marked, created>>
        /\ \/ created > 0 /\ billState' = "VERIFYING" /\ Goto(p, "readBill")
           \/ billState' \in {"FAILED_SAFE", "UNCERTAIN"} /\ Stop(p)
    BY <1>4 DEF ReceiveAnswer
  <2>2. billState = "SUBMITTING" /\ created <= 1
    BY <2>1 DEF DispatchToken, CreatedUnderVendor
  <2>3. AdoptionStands'
    BY <2>1 DEF AdoptionStands, AfterAdoption, AfterMark, Goto, Stop, Start
  <2>4. DispatchToken'
    BY <2>1, <2>2 DEF DispatchToken, BillPoints, Goto, Stop, Start
  <2>5. CreatedUnderVendor' /\ SuccessIsTrue'
    BY <2>1, <2>2 DEF CreatedUnderVendor, SuccessIsTrue, Goto, Stop, Start
  <2>6. QED BY <2>3, <2>4, <2>5
<1>5. CASE RecordBill(p)
  <2>1. /\ At(p, "readBill")
        /\ UNCHANGED <<vendorState, vendorBinding, marked, created>>
        /\ \/ billState' = "SUCCEEDED" /\ Goto(p, "succeeded")
           \/ billState' = "UNCERTAIN" /\ Stop(p)
    BY <1>5 DEF RecordBill, Used
  <2>2. billState = "VERIFYING" /\ created = 1
    BY <2>1 DEF DispatchToken
  <2>3. AdoptionStands'
    BY <2>1 DEF AdoptionStands, AfterAdoption, AfterMark, Goto, Stop, Start
  <2>4. DispatchToken'
    BY <2>1, <2>2 DEF DispatchToken, BillPoints, Goto, Stop, Start
  <2>5. CreatedUnderVendor' /\ SuccessIsTrue'
    BY <2>1, <2>2 DEF CreatedUnderVendor, SuccessIsTrue, Goto, Stop, Start
  <2>6. QED BY <2>3, <2>4, <2>5
<1>6. QED BY <1>1, <1>2, <1>3, <1>4, <1>5

----------------------------------------------------------------------------
(***************************************************************************)
(* The invariant.                                                          *)
(***************************************************************************)
LEMMA TokensStep == TypeOK /\ Tokens /\ [Next]_vars => Tokens'
<1>. SUFFICES ASSUME TypeOK, Tokens, [Next]_vars PROVE Tokens'
  OBVIOUS
<1>1. PilotTypeOK
  BY DEF TypeOK, PilotTypeOK
<1>2. ASSUME NEW p \in Pilots, Execute(p) PROVE Tokens'
  BY <1>1, <1>2, StartStep, CheckSteps, AdoptionSteps, BillSteps DEF Execute
<1>3. ASSUME NEW p \in Pilots, Abort(p) PROVE Tokens'
  BY <1>1, <1>3, Harmless DEF Abort
<1>4. CASE UNCHANGED <<operations, created, pilot>>
  BY <1>4 DEF Tokens, AdoptionStands, DispatchToken, CreatedUnderVendor, SuccessIsTrue,
    operations, At
<1>5. QED
  BY <1>2, <1>3, <1>4 DEF Next, GetAccess, OtherCaller, UserActs, WorldChanges, vars

LEMMA IInvInit == Init => IInv
<1>. SUFFICES ASSUME Init PROVE IInv
  OBVIOUS
<1>1. TypeOK
  BY DEF Init, ConnectionInit, TypeOK, ConnectionTypeOK, Access, AccessStates, NoAccess,
    Start, PilotState, Points, States
<1>2. PairsStand
  BY DEF Init, ConnectionInit, PairsStand, NoAccess
<1>3. AdoptionStands /\ DispatchToken /\ CreatedUnderVendor /\ SuccessIsTrue
  BY DEF Init, AdoptionStands, DispatchToken, CreatedUnderVendor, SuccessIsTrue, Start,
    At, AfterAdoption, AfterMark, BillPoints
<1>4. QED BY <1>1, <1>2, <1>3 DEF IInv

LEMMA IInvStep == IInv /\ [Next]_vars => IInv'
<1>. SUFFICES ASSUME IInv, [Next]_vars PROVE IInv'
  OBVIOUS
<1>1. TypeOK'
  BY TypeOKStep DEF IInv
<1>2. PairsStand'
  BY ConnectionStep DEF IInv, TypeOK
<1>3. Tokens'
  BY TokensStep DEF IInv, Tokens
<1>4. QED BY <1>1, <1>2, <1>3 DEF IInv, Tokens

\* Every reachable state satisfies the inductive invariant: stored pairs belong
\* together, the adoption and the dispatch of the Bill are tokens, and what was
\* created or answered has what it rests on behind it.
THEOREM Invariant == Spec => []IInv
BY IInvInit, IInvStep, PTL DEF Spec

\* Every variable keeps its type.
THEOREM TypeCorrect == Spec => []TypeOK
<1>1. IInv => TypeOK
  BY DEF IInv
<1>2. QED BY <1>1, Invariant, PTL

\* Any number of requests, with any Vendor IDs, ending anywhere: at most one Bill
\* is created, under the adopted Vendor whose adoption is recorded, and whatever
\* execute() answers SUCCEEDED with is true.
THEOREM BillFollows == Spec => []BillFollowsVendor
<1>1. IInv => BillFollowsVendor
  BY DEF IInv, AdoptionStands, CreatedUnderVendor, SuccessIsTrue, BillFollowsVendor,
    AfterAdoption, At
<1>2. QED BY <1>1, Invariant, PTL

\* Any number of callers and companies: no refresh in flight labels a credential
\* with a company it does not open.
THEOREM CredentialsMatch == Spec => []PairsStand
<1>1. IInv => PairsStand
  BY DEF IInv
<1>2. QED BY <1>1, Invariant, PTL
=============================================================================
