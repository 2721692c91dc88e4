---------------------------- MODULE SandboxPilot ----------------------------
(***************************************************************************)
(* The sandbox pilot: one request drives a Vendor operation and the Bill   *)
(* operation it is the child of through eligibility, live OAuth, mapping   *)
(* and authorization refresh, final preflight, adoption of the Vendor and  *)
(* dispatch of the Bill (quickbooks-sandbox-pilot-executor.ts over the     *)
(* procedures of migrations 024 to 028).  Requests run concurrently, for   *)
(* the same pair and any Vendor ID, may end anywhere, and are repeated;    *)
(* each provider call takes its credential from QuickBooksConnection.      *)
(*                                                                         *)
(*   vendorState, vendorBinding   the Vendor operation                     *)
(*   billState                    the Bill operation                       *)
(*   marked   Vendor IDs of the SANDBOX_PILOT_VENDOR_SUCCEEDED events      *)
(*   created  number of Bills created in QuickBooks                        *)
(*   lapsed   what is not current at the moment                            *)
(*   pilot    the local state of each execute()                            *)
(*                                                                         *)
(* Recovery of a Bill is not asked for (recoverExisting is false) and      *)
(* belongs to BillExecution.                                               *)
(***************************************************************************)
EXTENDS PostingStates, QuickBooksConnection, Naturals

CONSTANTS
  Pilots,           \* concurrent execute() calls
  Vendors,          \* Vendor IDs given to them
  Matching,         \* those that are the active Vendor the operation names
  NoVendor,         \* null
  Realm,            \* the pilot's company
  Drifting          \* what may lapse and be restored during a run

\* The freshness of mappings and approvals, which the pilot refreshes, and what
\* it only checks: the mappings themselves, the evidence, the actor's role.
Currents == {"MAPPING_FRESH", "MAPPING", "APPROVAL", "EVIDENCE", "ACTOR"}

ASSUME PilotAssumption ==
  /\ Pilots \subseteq Callers
  /\ Matching \subseteq Vendors /\ NoVendor \notin Vendors
  /\ Realm \in Realms
  /\ Drifting \subseteq Currents

VARIABLES vendorState, vendorBinding, billState, marked, created, lapsed, pilot

operations == <<vendorState, vendorBinding, billState, marked>>
vars == <<connectionVars, operations, created, lapsed, pilot>>

\* The awaits of execute(), in order; a call that answers STOPPED is idle again.
Points == {"idle", "oauth", "expect", "observe", "refreshMappings", "reverify",
           "authorize", "preflight", "adopt", "readVendor", "mark", "bill",
           "post", "answer", "readBill", "succeeded"}
NeedsAccess == {"oauth", "observe", "readVendor", "post", "readBill"}
Ended == {"idle", "succeeded"}
PilotState == [pc : Points, vendor : Vendors \cup {NoVendor}, billSeen : States]

TypeOK ==
  /\ ConnectionTypeOK
  /\ vendorState \in States /\ billState \in States
  /\ vendorBinding \in Vendors \cup {NoVendor}
  /\ marked \subseteq Vendors
  /\ created \in Nat
  /\ lapsed \subseteq Currents
  /\ pilot \in [Pilots -> PilotState]

Start(pc, v) == [pc |-> pc, vendor |-> v, billSeen |-> "AUTHORIZED"]

\* The pair has been authorized by submit() before the pilot is asked for.
Init ==
  /\ ConnectionInit
  /\ vendorState = "AUTHORIZED" /\ billState = "AUTHORIZED"
  /\ vendorBinding = NoVendor
  /\ marked = {} /\ created = 0 /\ lapsed = {}
  /\ pilot = [p \in Pilots |-> Start("idle", NoVendor)]

----------------------------------------------------------------------------
At(p, pc) == pilot[p].pc = pc
Stop(p) == pilot' = [pilot EXCEPT ![p] = Start("idle", NoVendor)]
Goto(p, pc) == pilot' = [pilot EXCEPT ![p].pc = pc]
GoOn(p, holds, pc) == IF holds THEN Goto(p, pc) ELSE Stop(p)
Current(S) == lapsed \cap S = {}

\* The states in which the pilot takes the pair on, or on again.
PairRuns ==
  /\ billState \in {"AUTHORIZED", "SUCCEEDED"}
  /\ vendorState \in {"AUTHORIZED", "SUCCEEDED"}

\* A Vendor that was adopted is the one this call asks for.
BindingFits(v) == vendorState = "SUCCEEDED" => vendorBinding = v

\* An awaited step that only checks something: it goes on or stops.
Checks(p, pc, holds, next) ==
  /\ At(p, pc)
  /\ GoOn(p, holds, next)
  /\ UNCHANGED <<connectionVars, operations, created, lapsed>>

\* getAccess is over, with a credential or not, and the step uses it up.
Used(p, pc) ==
  /\ At(p, pc)
  /\ access[p].state \in {"HELD", "FAILED"}
  /\ Release(p)
  /\ UNCHANGED connection

----------------------------------------------------------------------------
(***************************************************************************)
(* The checks before the first provider operation.                         *)
(***************************************************************************)
\* prepare_quickbooks_sandbox_pilot_eligibility_v2: neither the freshness of
\* the mappings nor that of the approvals is asked for.
Eligible(v) == PairRuns /\ Current({"ACTOR", "EVIDENCE"}) /\ BindingFits(v)

ValidateEligibility(p, v) ==
  /\ pilot[p].pc \in Ended
  /\ IF Eligible(v)
     THEN pilot' = [pilot EXCEPT ![p] = [Start("oauth", v) EXCEPT !.billSeen = billState]]
     ELSE Stop(p)
  /\ UNCHANGED <<connectionVars, operations, created, lapsed>>

\* The company is read with the credential, which Intuit may refuse.
VerifyOAuth(p) ==
  /\ Used(p, "oauth")
  /\ \/ Holds(p, Realm) /\ Goto(p, "expect")
     \/ Stop(p)
  /\ UNCHANGED <<operations, created, lapsed>>

\* prepare_quickbooks_sandbox_pilot_mapping_refresh_v1
MappingsRefreshable == Current({"ACTOR", "MAPPING"})

GetMappingExpectations(p) ==
  Checks(p, "expect", MappingsRefreshable, "observe")

\* Account and tax treatment are read with the credential.
ObserveMappings(p) ==
  /\ Used(p, "observe")
  /\ \/ Holds(p, Realm) /\ Goto(p, "refreshMappings")
     \/ Stop(p)
  /\ UNCHANGED <<operations, created, lapsed>>

\* refresh_quickbooks_sandbox_pilot_mapping_eligibility_v1: both mappings are
\* fresh again if what was read is exactly what they say, which it may not be.
RefreshMappings(p) ==
  /\ At(p, "refreshMappings")
  /\ \E ok \in {FALSE, PairRuns /\ MappingsRefreshable} :
        /\ GoOn(p, ok, "reverify")
        /\ lapsed' = IF ok THEN lapsed \ {"MAPPING_FRESH"} ELSE lapsed
  /\ UNCHANGED <<connectionVars, operations, created>>

\* reverify_quickbooks_sandbox_pilot_mappings_v1
MappingsEligible == Current({"ACTOR", "MAPPING", "MAPPING_FRESH"})

\* A Bill that was verified before this call began ends it here.
ReverifyMappings(p) ==
  Checks(p, "reverify", MappingsEligible,
         IF pilot[p].billSeen = "SUCCEEDED" THEN "succeeded" ELSE "authorize")

\* refresh_posting_human_authorizations_v1: an approval is only renewed for an
\* operation that is still AUTHORIZED.
AuthorizationRenewable ==
  /\ vendorState = "AUTHORIZED" /\ billState = "AUTHORIZED"
  /\ Current(Currents \ {"APPROVAL"})

\* Both approvals are renewed, or none is and the call stops.
RefreshAuthorization(p) ==
  /\ At(p, "authorize")
  /\ GoOn(p, AuthorizationRenewable, "preflight")
  /\ lapsed' = IF AuthorizationRenewable THEN lapsed \ {"APPROVAL"} ELSE lapsed
  /\ UNCHANGED <<connectionVars, operations, created>>

\* prepare_quickbooks_sandbox_pilot_v1 checks everything again.
PreflightAllows(v) == PairRuns /\ Current(Currents) /\ BindingFits(v)

PrepareDispatch(p) == Checks(p, "preflight", PreflightAllows(pilot[p].vendor), "adopt")

----------------------------------------------------------------------------
(***************************************************************************)
(* Adoption of the Vendor.                                                 *)
(***************************************************************************)
\* Bug: the caller does not compare the Vendor of a success with its own.
Bug_AnyAdoptedVendor(p) ==
  /\ At(p, "adopt")
  /\ vendorState # "AUTHORIZED"
  /\ GoOn(p, vendorState = "SUCCEEDED", "mark")
  /\ UNCHANGED <<connectionVars, operations, created, lapsed>>

\* The operation succeeded, with the same Vendor or another, or is no longer
\* authorized.
AdoptionSettled(p) ==
  /\ At(p, "adopt")
  /\ vendorState # "AUTHORIZED"
  /\ GoOn(p, vendorState = "SUCCEEDED" /\ vendorBinding = pilot[p].vendor, "mark")
  /\ UNCHANGED <<connectionVars, operations, created, lapsed>>

\* A failed check puts the operation under review; otherwise it is verifying.
PrepareAdoption(p) ==
  /\ At(p, "adopt")
  /\ vendorState = "AUTHORIZED"
  /\ LET ok == Current({"ACTOR", "APPROVAL", "EVIDENCE"})
     IN /\ vendorState' = IF ok THEN "VERIFYING" ELSE "REVIEW"
        /\ GoOn(p, ok, "readVendor")
  /\ UNCHANGED <<connectionVars, vendorBinding, billState, marked, created, lapsed>>

\* The Vendor is read and the observation recorded: only the active Vendor of
\* that name, read in this company, is bound.
RecordAdoption(p) ==
  LET v == pilot[p].vendor IN
  /\ Used(p, "readVendor")
  /\ \/ /\ Holds(p, Realm) /\ v \in Matching
        /\ vendorState' = "SUCCEEDED" /\ vendorBinding' = v
        /\ Goto(p, "mark")
     \/ /\ vendorState' = "REVIEW"
        /\ Stop(p)
        /\ UNCHANGED vendorBinding
  /\ UNCHANGED <<billState, marked, created, lapsed>>

\* The durable event that must commit before the Bill is asked for; it is
\* refused when the actor may no longer post, and the call then throws (Abort).
MarkVendorSucceeded(p) ==
  /\ At(p, "mark")
  /\ Current({"ACTOR"})
  /\ marked' = marked \cup {pilot[p].vendor}
  /\ Goto(p, "bill")
  /\ UNCHANGED <<connectionVars, vendorState, vendorBinding, billState, created, lapsed>>

----------------------------------------------------------------------------
(***************************************************************************)
(* Dispatch of the Bill: executeQuickBooksBill without recovery.           *)
(***************************************************************************)
\* What is not authorized is not dispatched: a success is returned, anything
\* else stops, an operation in flight with PILOT_STOP_RECOVERY_REQUIRED.
BillSettled(p) ==
  /\ At(p, "bill")
  /\ billState # "AUTHORIZED"
  /\ GoOn(p, billState = "SUCCEEDED", "succeeded")
  /\ UNCHANGED <<connectionVars, operations, created, lapsed>>

\* prepare_quickbooks_bill_submission_v1: what the evidence does not support
\* goes back, what a check denies is denied, the rest is dispatched once.
PrepareBill(p) ==
  /\ At(p, "bill")
  /\ billState = "AUTHORIZED"
  /\ \/ /\ ~Current({"EVIDENCE"})
        /\ billState' \in {"REVIEW", "DENIED"} /\ Stop(p)
     \/ /\ Current({"EVIDENCE"}) /\ ~Current(Currents)
        /\ billState' = "DENIED" /\ Stop(p)
     \/ /\ Current(Currents)
        /\ vendorState = "SUCCEEDED"
        /\ billState' = "SUBMITTING" /\ Goto(p, "post")
  /\ UNCHANGED <<connectionVars, vendorState, vendorBinding, marked, created, lapsed>>

\* A credential that is missing or of another company fails before delivery;
\* otherwise the request is sent, and QuickBooks may process it or not.
PostBill(p) ==
  /\ Used(p, "post")
  /\ IF Holds(p, Realm)
     THEN /\ created' \in {created, created + 1}
          /\ Goto(p, "answer")
          /\ UNCHANGED billState
     ELSE /\ billState' = "FAILED_SAFE"
          /\ Stop(p)
          /\ UNCHANGED created
  /\ UNCHANGED <<vendorState, vendorBinding, marked, lapsed>>

\* The answer is an acknowledgement, a definite rejection, or lost.
ReceiveAnswer(p) ==
  /\ At(p, "answer")
  /\ \/ created > 0 /\ billState' = "VERIFYING" /\ Goto(p, "readBill")
     \/ created = 0 /\ billState' = "FAILED_SAFE" /\ Stop(p)
     \/ billState' = "UNCERTAIN" /\ Stop(p)
  /\ UNCHANGED <<connectionVars, vendorState, vendorBinding, marked, created, lapsed>>

\* Read-back: the Bill is as authorized, or it differs or cannot be read.
RecordBill(p) ==
  /\ Used(p, "readBill")
  /\ \/ /\ Holds(p, Realm)
        /\ billState' = "SUCCEEDED" /\ Goto(p, "succeeded")
     \/ billState' = "UNCERTAIN" /\ Stop(p)
  /\ UNCHANGED <<vendorState, vendorBinding, marked, created, lapsed>>

----------------------------------------------------------------------------
\* The process ends, or an audit event or a procedure fails and the call
\* throws: the route answers 503 and every row stays as it is.
Abort(p) ==
  /\ pilot[p].pc \notin Ended
  /\ Stop(p)
  /\ Release(p)
  /\ UNCHANGED <<connection, operations, created, lapsed>>

GetAccess(p) ==
  /\ pilot[p].pc \in NeedsAccess
  /\ Load(p) \/ Refresh(p) \/ SaveRefreshed(p) \/ AccessFails(p)
  /\ UNCHANGED <<operations, created, lapsed, pilot>>

\* quickBooksConnectionStatus and the other readers of a credential.
OtherCaller(c) ==
  /\ \/ Load(c) \/ Refresh(c) \/ SaveRefreshed(c) \/ AccessFails(c)
     \/ /\ access[c].state \in {"HELD", "FAILED"}
        /\ Release(c)
        /\ UNCHANGED connection
  /\ UNCHANGED <<operations, created, lapsed, pilot>>

UserActs ==
  /\ (\E r \in Realms : Connect(r)) \/ Disconnect \/ Expire
  /\ UNCHANGED <<operations, created, lapsed, pilot>>

\* Roles, evidence, approvals and mappings change and are put right elsewhere.
WorldChanges ==
  /\ \E x \in Drifting :
       lapsed' = IF x \in lapsed THEN lapsed \ {x} ELSE lapsed \cup {x}
  /\ UNCHANGED <<connectionVars, operations, created, pilot>>

Execute(p) ==
  \/ \E v \in Vendors : ValidateEligibility(p, v)
  \/ VerifyOAuth(p) \/ GetMappingExpectations(p) \/ ObserveMappings(p)
  \/ RefreshMappings(p) \/ ReverifyMappings(p) \/ RefreshAuthorization(p)
  \/ PrepareDispatch(p)
  \/ AdoptionSettled(p) \/ PrepareAdoption(p) \/ RecordAdoption(p)
  \/ MarkVendorSucceeded(p)
  \/ BillSettled(p) \/ PrepareBill(p) \/ PostBill(p) \/ ReceiveAnswer(p)
  \/ RecordBill(p)

Next ==
  \/ \E p \in Pilots : Execute(p) \/ GetAccess(p) \/ Abort(p)
  \/ \E c \in Callers \ Pilots : OtherCaller(c)
  \/ UserActs
  \/ WorldChanges

Spec == Init /\ [][Next]_vars

----------------------------------------------------------------------------
(***************************************************************************)
(* Properties.                                                             *)
(***************************************************************************)
\* A Bill exists only after the Vendor was adopted and the adoption recorded in
\* the Bill's own history, only one does, and a request that answers SUCCEEDED
\* tells the truth: its Vendor is the one that was adopted and the Bill is
\* verified, whatever requests overlap, end early or are repeated.
BillFollowsVendor ==
  /\ created <= 1
  /\ created > 0 => vendorState = "SUCCEEDED" /\ vendorBinding \in marked
  /\ \A p \in Pilots : At(p, "succeeded") =>
       /\ vendorState = "SUCCEEDED" /\ vendorBinding = pilot[p].vendor
       /\ billState = "SUCCEEDED" /\ created = 1
=============================================================================
