------------------------- MODULE ReversibilityPlanner -------------------------
(***************************************************************************)
(* planReversibility: the decision, and the method of the one-step plan it *)
(* proposes.  Times are seconds, fingerprints are the values they are of.  *)
(***************************************************************************)
LOCAL INSTANCE Integers
LOCAL INSTANCE FiniteSets

CONSTANT Absent   \* null, or a text that is blank

MaximumCurrentStateAgeSeconds == 300

\* The ratified capabilities of policies/step8-provider-reversibility-v1.json.
Capability(provider, object, lifecycle, corrections, method) ==
  [provider : {provider}, objectType : {object}, lifecycleState : {lifecycle},
   desiredCorrection : corrections, method : {method}]
Capabilities == UNION {
  Capability("quickbooks", "QBO_VENDOR", "ACTIVE", {"UPDATE_NON_FINANCIAL"}, "QBO_VENDOR_SPARSE_UPDATE"),
  Capability("quickbooks", "QBO_VENDOR", "ACTIVE", {"INACTIVATE"}, "QBO_VENDOR_INACTIVATE"),
  Capability("quickbooks", "QBO_BILL", "UNPAID_UNLINKED",
             {"UPDATE_NON_FINANCIAL", "UPDATE_FINANCIAL"}, "QBO_BILL_SPARSE_UPDATE"),
  Capability("quickbooks", "QBO_BILL", "UNPAID_UNLINKED", {"DELETE"}, "QBO_BILL_DELETE"),
  Capability("xero", "XERO_CONTACT", "ACTIVE", {"UPDATE_NON_FINANCIAL"}, "XERO_CONTACT_UPDATE"),
  Capability("xero", "XERO_CONTACT", "ACTIVE", {"ARCHIVE"}, "XERO_CONTACT_ARCHIVE"),
  Capability("xero", "XERO_BILL", "DRAFT",
             {"UPDATE_NON_FINANCIAL", "UPDATE_FINANCIAL"}, "XERO_DRAFT_BILL_UPDATE"),
  Capability("xero", "XERO_BILL", "DRAFT", {"DELETE"}, "XERO_DRAFT_BILL_DELETE"),
  Capability("xero", "XERO_BILL", "APPROVED_UNPAID",
             {"UPDATE_NON_FINANCIAL", "UPDATE_FINANCIAL"}, "XERO_APPROVED_BILL_UPDATE"),
  Capability("xero", "XERO_BILL", "APPROVED_UNPAID", {"VOID"}, "XERO_APPROVED_BILL_VOID"),
  Capability("xero", "XERO_BILL", "PART_PAID", {"UPDATE_NON_FINANCIAL"}, "XERO_PAID_BILL_METADATA_UPDATE"),
  Capability("xero", "XERO_BILL", "PAID", {"UPDATE_NON_FINANCIAL"}, "XERO_PAID_BILL_METADATA_UPDATE")}

CapabilitiesFor(i) ==
  {c \in Capabilities : /\ c.provider = i.provider
                        /\ c.objectType = i.objectType
                        /\ c.lifecycleState = i.lifecycleState
                        /\ c.desiredCorrection = i.desiredCorrection}

\* What a plan needs of the object's current and earlier state.
FactsMissing(i) ==
  \/ ~i.currentState.readCompleted
  \/ i.currentState.observedAt = Absent \/ i.currentState.providerObjectId = Absent
  \/ i.currentState.providerVersionToken = Absent \/ i.currentState.stateFingerprint = Absent
  \/ i.beforeState.canonical = Absent \/ i.beforeState.claimedFingerprint = Absent

Verdict(decision, method) == [decision |-> decision, method |-> method]

PlanReversibility(i) ==
  LET age == i.evaluationAsOf - i.currentState.observedAt
      before == i.beforeState.canonical
      methods == CapabilitiesFor(i) IN
  IF i.originalOutcome = "UNCERTAIN" THEN Verdict("NO_SAFE_METHOD", Absent)
  ELSE IF FactsMissing(i) THEN Verdict("REVIEW", Absent)
  ELSE IF age < 0 \/ age > MaximumCurrentStateAgeSeconds THEN Verdict("REVIEW", Absent)
  ELSE IF before # i.beforeState.claimedFingerprint \/ before # i.currentState.stateFingerprint
       THEN Verdict("NO_SAFE_METHOD", Absent)
  ELSE IF \E name \in DOMAIN i.checks : i.checks[name] \in {"UNKNOWN", "BLOCKED"} THEN Verdict("REVIEW", Absent)
  ELSE IF Cardinality(methods) > 1 THEN Verdict("REVIEW", Absent)
  ELSE IF methods = {} THEN Verdict("NO_SAFE_METHOD", Absent)
  ELSE Verdict("SAFE_METHOD", (CHOOSE c \in methods : TRUE).method)
=============================================================================
