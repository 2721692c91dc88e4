---------------------------- MODULE AutonomyPolicy ----------------------------
(***************************************************************************)
(* The autonomy policy: canonicalizePolicyInput and evaluateAutonomyPolicy *)
(* as operators on records that keep the field names of                    *)
(* autonomy-policy-contract.ts.  A fingerprint is the value it is taken of *)
(* (SHA-256 is injective for what is compared here), an amount that may be *)
(* null is a set of at most one integer, any other null is None.           *)
(***************************************************************************)
EXTENDS Integers, Sequences, SequencesExt

CONSTANTS
  None,      \* null
  MaxMinor   \* 2^63 - 1, scaled to what TLC counts with

Elems(seq) == ToSet(seq)
Only(amount) == CHOOSE n \in amount : TRUE
AbsMinor(n) == IF n < 0 THEN -n ELSE n
Reason(holds, code) == IF holds THEN {code} ELSE {}

\* NormalizedPolicyInput: the fields an input has, as far as one is looked at.
InputFields == [
  client |-> {"active"},
  action |-> {"actionType", "claimedActionFingerprint", "computedActionFingerprint", "snapshot"},
  amount |-> {"amountMinor", "dailyAggregateBeforeMinor"},
  evidence |-> {"quality", "completeness", "facts"},
  accountTreatment |-> {"mappingId"}, taxTreatment |-> {"verified"},
  history |-> {"priorVerifiedActions", "hasCorrectionsOrReversals"},
  humanAuthorization |-> {"state", "authorizedActionFingerprint", "authorizedLedgerBookId"},
  profileFacts |-> {"existingVendorMatch", "duplicateCheck", "vendorBindingVerified"}]
ListOf(fields, seq) ==
  seq \in Seq(Elems(seq)) /\ \A k \in DOMAIN seq : fields \subseteq DOMAIN seq[k]
PolicyInputOK(i) ==
  /\ {"confidence", "riskFlags", "reversibility", "modelProposedPermission"} \subseteq DOMAIN i
  /\ \A f \in DOMAIN InputFields : f \in DOMAIN i /\ InputFields[f] \subseteq DOMAIN i[f]
  /\ ListOf({"verified", "sha256", "verifiedSha256"}, i.evidence.facts)
  /\ ListOf({"basisPoints", "provenance"}, i.confidence)
  /\ i.action.snapshot # None /\ \A f \in Elems(i.evidence.facts) : f.sha256 # None

----------------------------------------------------------------------------
(***************************************************************************)
(* The initial bundle, policies/step7-initial-profiles-v1.json.            *)
(***************************************************************************)
SupportedActions == {"ADOPT_EXISTING_VENDOR", "CREATE_VENDOR", "CREATE_BILL"}

Profile == [
  ADOPT_EXISTING_VENDOR |->
    [enabled |-> TRUE, allowPermitted |-> TRUE, requiresAmount |-> FALSE,
     maxReversibility |-> "DIRECT", minimumConfidence |-> 9900,
     minimumPrior |-> 0, requiresHumanAuthorization |-> TRUE],
  CREATE_VENDOR |->
    [enabled |-> TRUE, allowPermitted |-> FALSE, requiresAmount |-> FALSE,
     maxReversibility |-> "COMPENSATING", minimumConfidence |-> 9900,
     minimumPrior |-> 0, requiresHumanAuthorization |-> TRUE],
  CREATE_BILL |->
    [enabled |-> TRUE, allowPermitted |-> TRUE, requiresAmount |-> TRUE,
     maxReversibility |-> "COMPENSATING", minimumConfidence |-> 9900,
     minimumPrior |-> 3, requiresHumanAuthorization |-> TRUE]]

ReversibilityRank == [DIRECT |-> 1, COMPENSATING |-> 2, IRREVERSIBLE |-> 3, UNKNOWN |-> 4]

RiskRegistry == [
  DUPLICATE_SUSPECTED |-> "REVIEW", NEW_COUNTERPARTY |-> "REVIEW",
  UNUSUAL_AMOUNT |-> "REVIEW", ACCOUNTING_CONFLICT |-> "DENY",
  EVIDENCE_TAMPER |-> "DENY", SANCTIONS |-> "DENY", SCOPE_MISMATCH |-> "DENY"]

DenyReasons == {
  "INVALID_POLICY_BINDING", "INVALID_NORMALIZED_INPUT", "ACTION_FINGERPRINT_MISMATCH",
  "EVIDENCE_BINDING_MISMATCH", "CLIENT_BINDING_MISMATCH", "CLIENT_INACTIVE",
  "POLICY_SUSPENDED", "UNSUPPORTED_ACTION", "PROFILE_DISABLED", "UNKNOWN_RISK_FLAG",
  "RISK_FLAG_DENY", "EVIDENCE_CONFLICT", "MODEL_PERMISSION_OVERRIDE",
  "REVERSIBILITY_PROHIBITED", "MATERIALITY_LIMIT_EXCEEDED", "INVALID_TRANSACTION_TYPE",
  "HUMAN_AUTHORIZATION_INVALID", "NO_EXPLICIT_ALLOW_RULE"}

----------------------------------------------------------------------------
(***************************************************************************)
(* canonicalizePolicyInput: recomputes the action fingerprint and lists    *)
(* what is malformed.  The order it gives the facts is not modelled, the   *)
(* evaluator only quantifies over them.                                    *)
(***************************************************************************)
Provenances == {"DETERMINISTIC", "MODEL", "HUMAN_ATTESTED", "UNKNOWN"}
Certainties == {"EXACT", "AMBIGUOUS", "MISSING", "NOT_APPLICABLE", "UNKNOWN"}

UnknownEnum(i) ==
  \/ i.evidence.quality \notin {"STRONG", "ACCEPTABLE", "WEAK", "UNKNOWN"}
  \/ i.evidence.completeness \notin {"COMPLETE", "INCOMPLETE", "CONFLICTED", "UNKNOWN"}
  \/ i.accountTreatment.certainty \notin Certainties
  \/ i.taxTreatment.certainty \notin Certainties
  \/ i.reversibility \notin DOMAIN ReversibilityRank
  \/ i.humanAuthorization.state \notin
       {"EXACT", "MISSING", "EXPIRED", "REVOKED", "WRONG_SCOPE", "UNKNOWN"}
  \/ i.profileFacts.existingVendorMatch \notin
       {"EXACT_UNIQUE_CURRENT_VERIFIED", "AMBIGUOUS", "MISSING", "NOT_APPLICABLE", "UNKNOWN"}
  \/ i.profileFacts.duplicateCheck \notin
       {"CLEAR", "POSSIBLE_DUPLICATE", "INCOMPLETE", "NOT_APPLICABLE", "UNKNOWN"}
  \/ i.modelProposedPermission \notin {None, "ALLOW", "REVIEW", "DENY"}
  \/ \E f \in Elems(i.confidence) : f.provenance \notin Provenances
  \/ \E f \in Elems(i.evidence.facts) : f.provenance \notin Provenances
  \/ \E f \in Elems(i.riskFlags) : f.severity \notin {"INFO", "REVIEW", "DENY", "UNKNOWN"}

OutOfRange(i) ==
  \/ \E n \in i.amount.amountMinor \cup i.amount.dailyAggregateBeforeMinor :
       AbsMinor(n) > MaxMinor
  \/ \E f \in Elems(i.confidence) : f.basisPoints \notin 0..10000

Repeated(seq, key(_)) == \E j, k \in DOMAIN seq : j < k /\ key(seq[j]) = key(seq[k])

Issues(i) ==
  Reason(UnknownEnum(i), "UNKNOWN_ENUM") \cup Reason(OutOfRange(i), "OUT_OF_RANGE")
    \cup Reason(\/ Repeated(i.evidence.facts, LAMBDA f : <<f.evidenceId, f.sha256>>)
                \/ Repeated(i.riskFlags, LAMBDA f : f.code)
                \/ Repeated(i.confidence, LAMBDA f : f.fact), "DUPLICATE_SET_MEMBER")

Canonicalize(submitted) ==
  [input |-> [submitted EXCEPT !.action.computedActionFingerprint = submitted.action.snapshot],
   issues |-> Issues(submitted)]

----------------------------------------------------------------------------
(***************************************************************************)
(* evaluateAutonomyPolicy, rule by rule.  b is the bundle, s the snapshot  *)
(* of the client's policy, i the canonical input, c its client.            *)
(***************************************************************************)
\* bundleIsValid and the hashes: a snapshot is bound to the hash of a bundle.
BindingReasons(b, s) ==
  Reason(\/ b.policyVersion # "step7-initial-profiles-v1"
         \/ s.snapshotVersion <= 0
         \/ \E n \in s.maxSingleActionAmountMinor \cup s.maxDailyAggregateAmountMinor :
              n \notin 0..MaxMinor
         \/ ~(s.enabledProfiles \cup s.requireHumanAuthorizationFor \subseteq SupportedActions)
         \/ s.boundTo # b
         \/ s.policyVersion # b.policyVersion, "INVALID_POLICY_BINDING")

ClientReasons(s, i) ==
  LET snap == i.action.snapshot IN
  Reason(i.client.clientEntityId # s.clientEntityId, "CLIENT_BINDING_MISMATCH")
    \cup Reason(\/ snap.clientEntityId # i.client.clientEntityId
                \/ snap.ledgerBookId # i.client.ledgerBookId
                \/ snap.actionType # i.action.actionType
                \/ /\ i.action.actionType = "CREATE_BILL"
                   /\ \/ snap.amountMinor # i.amount.amountMinor
                      \/ snap.currencyCode # i.amount.currencyCode,
                "ACTION_FINGERPRINT_MISMATCH")
    \cup Reason(~i.client.active, "CLIENT_INACTIVE")
    \cup Reason(s.suspended, "POLICY_SUSPENDED")

FingerprintReasons(i) ==
  Reason(\/ i.action.claimedActionFingerprint # i.action.computedActionFingerprint
         \/ /\ i.action.fingerprintVersion = "step5-authorized-request-v1"
            /\ i.action.step5AuthorizedRequestFingerprint # i.action.computedActionFingerprint
         \/ i.humanAuthorization.authorizedActionFingerprint
              \notin {None, i.action.computedActionFingerprint},
         "ACTION_FINGERPRINT_MISMATCH")

ProfileReasons(s, i) ==
  IF i.action.actionType \notin SupportedActions THEN {"UNSUPPORTED_ACTION"}
  ELSE Reason(\/ ~Profile[i.action.actionType].enabled
              \/ i.action.actionType \notin s.enabledProfiles, "PROFILE_DISABLED")

EvidenceReasons(i) ==
  LET e == i.evidence
      facts == Elems(e.facts) IN
  Reason(i.modelProposedPermission = "ALLOW", "MODEL_PERMISSION_OVERRIDE")
    \cup (IF e.completeness = "CONFLICTED" THEN {"EVIDENCE_CONFLICT"}
          ELSE Reason(\/ e.completeness # "COMPLETE" \/ facts = {}
                      \/ \E f \in facts : ~f.retained \/ ~f.verified, "EVIDENCE_INCOMPLETE"))
    \cup Reason(\E f \in facts : \/ f.sha256 # f.verifiedSha256
                                 \/ f.clientEntityId # i.client.clientEntityId
                                 \/ f.ledgerBookId # i.client.ledgerBookId,
                "EVIDENCE_BINDING_MISMATCH")
    \cup Reason(\/ e.quality # "STRONG"
                \/ \E f \in facts : f.provenance # "DETERMINISTIC", "EVIDENCE_AMBIGUOUS")

ConfidenceReasons(i) ==
  LET minimum == Profile[i.action.actionType].minimumConfidence IN
  Reason(\/ i.confidence = <<>>
         \/ \E f \in Elems(i.confidence) :
              f.basisPoints < minimum \/ f.provenance # "DETERMINISTIC",
         "CONFIDENCE_INSUFFICIENT")

RiskReasons(i) ==
  UNION {IF f.code \notin DOMAIN RiskRegistry \/ f.severity = "UNKNOWN"
         THEN {"UNKNOWN_RISK_FLAG"}
         ELSE IF RiskRegistry[f.code] # f.severity THEN {"UNKNOWN_RISK_FLAG"}
         ELSE IF f.severity = "DENY" THEN {"RISK_FLAG_DENY"} ELSE {"RISK_FLAG_REVIEW"} :
         f \in Elems(i.riskFlags)}

ReversibilityReasons(i) ==
  Reason(ReversibilityRank[i.reversibility]
           > ReversibilityRank[Profile[i.action.actionType].maxReversibility],
         "REVERSIBILITY_PROHIBITED")

MaterialityReasons(s, i) ==
  LET amount == i.amount.amountMinor
      before == i.amount.dailyAggregateBeforeMinor IN
  IF ~(i.action.actionType \in SupportedActions /\ Profile[i.action.actionType].requiresAmount)
  THEN Reason(amount \cup before # {}, "INVALID_NORMALIZED_INPUT")
  ELSE IF \/ {} \in {amount, before, s.maxSingleActionAmountMinor, s.maxDailyAggregateAmountMinor}
          \/ i.amount.currencyCode = None
       THEN {"MATERIALITY_CONFIGURATION_MISSING"}
       ELSE Reason(\/ Only(amount) <= 0
                   \/ AbsMinor(Only(amount)) > AbsMinor(Only(s.maxSingleActionAmountMinor))
                   \/ AbsMinor(Only(before)) + AbsMinor(Only(amount))
                        > AbsMinor(Only(s.maxDailyAggregateAmountMinor)),
                   "MATERIALITY_LIMIT_EXCEEDED")

AuthorizationReasons(s, i) ==
  LET h == i.humanAuthorization
      scope == <<h.authorizedClientEntityId, h.authorizedLedgerBookId, h.authorizedActionType>>
      wanted == <<i.client.clientEntityId, i.client.ledgerBookId, i.action.actionType>> IN
  IF ~(\/ Profile[i.action.actionType].requiresHumanAuthorization
       \/ i.action.actionType \in s.requireHumanAuthorizationFor) THEN {}
  ELSE IF \/ h.state \in {"REVOKED", "WRONG_SCOPE"}
          \/ \E k \in 1..3 : scope[k] \notin {None, wanted[k]}
       THEN {"HUMAN_AUTHORIZATION_INVALID"}
       ELSE Reason(\/ h.state # "EXACT"
                   \/ h.authorizationId = None \/ h.authorizedActionFingerprint = None
                   \/ \E k \in 1..3 : scope[k] = None, "HUMAN_AUTHORIZATION_REQUIRED")

\* The rules of the two vendor actions.
VendorReasons(i) ==
  LET type == i.action.actionType IN
  Reason(i.transactionType # (IF type = "CREATE_VENDOR" THEN "VENDOR_CREATION"
                                                        ELSE "VENDOR_ADOPTION"),
         "INVALID_TRANSACTION_TYPE")
    \cup Reason({i.accountTreatment.certainty, i.taxTreatment.certainty} # {"NOT_APPLICABLE"},
                "ACCOUNT_TREATMENT_UNCERTAIN")
    \cup (IF type = "CREATE_VENDOR" THEN {"CREATE_VENDOR_REVIEW_REQUIRED"}
          ELSE Reason(i.profileFacts.existingVendorMatch # "EXACT_UNIQUE_CURRENT_VERIFIED",
                      "EXISTING_VENDOR_MATCH_AMBIGUOUS"))

BillReasons(i) ==
  LET exact(t, id) == t.certainty = "EXACT" /\ id # None /\ t.verified IN
  Reason(i.transactionType # "BILL", "INVALID_TRANSACTION_TYPE")
    \cup Reason(~exact(i.accountTreatment, i.accountTreatment.mappingId),
                "ACCOUNT_TREATMENT_UNCERTAIN")
    \cup Reason(~exact(i.taxTreatment, i.taxTreatment.treatmentId), "TAX_TREATMENT_UNCERTAIN")
    \cup Reason(\/ i.history.priorVerifiedActions < Profile.CREATE_BILL.minimumPrior
                \/ ~i.history.stablePattern, "HISTORY_INSUFFICIENT")
    \cup Reason(i.history.hasCorrectionsOrReversals, "HISTORY_CONFLICT")
    \cup Reason(i.profileFacts.duplicateCheck # "CLEAR", "DUPLICATE_CHECK_INCOMPLETE")
    \cup Reason(~i.profileFacts.billArithmeticVerified \/ ~i.profileFacts.vendorBindingVerified,
                "BILL_FACTS_INCOMPLETE")

Triggered(b, s, canonical) ==
  LET i == canonical.input
      type == i.action.actionType IN
  BindingReasons(b, s) \cup Reason(canonical.issues # {}, "INVALID_NORMALIZED_INPUT")
    \cup ClientReasons(s, i) \cup FingerprintReasons(i) \cup ProfileReasons(s, i)
    \cup EvidenceReasons(i) \cup RiskReasons(i) \cup MaterialityReasons(s, i)
    \cup (IF type \notin SupportedActions THEN {}
          ELSE ConfidenceReasons(i) \cup ReversibilityReasons(i) \cup AuthorizationReasons(s, i)
                 \cup (IF type = "CREATE_BILL" THEN BillReasons(i) ELSE VendorReasons(i)))

\* Bug: whatever the trace holds beside it, an allowing profile allows.
Bug_ProfileAllows(b, s, canonical) ==
  LET type == canonical.input.action.actionType
      reasons == Triggered(b, s, canonical) IN
  IF reasons \cap DenyReasons # {} THEN "DENY"
  ELSE IF type \in {"ADOPT_EXISTING_VENDOR", "CREATE_BILL"} THEN "ALLOW" ELSE "REVIEW"

\* The allowing rule fires only when no other did; DENY before REVIEW before
\* ALLOW, and DENY when no rule fired.
Evaluate(b, s, canonical) ==
  LET type == canonical.input.action.actionType
      reasons == Triggered(b, s, canonical)
      allows == /\ reasons = {}
                /\ type \in {"ADOPT_EXISTING_VENDOR", "CREATE_BILL"}
                /\ Profile[type].allowPermitted IN
  IF reasons \cap DenyReasons # {} THEN "DENY"
  ELSE IF reasons # {} THEN "REVIEW"
  ELSE IF allows THEN "ALLOW" ELSE "DENY"
=============================================================================
