---------------------------- MODULE MCManualShadow ----------------------------
(***************************************************************************)
(* A small instance of ManualShadow for TLC: what an operator may start.   *)
(***************************************************************************)
EXTENDS ManualShadow, TLC

InitialBundle == [policyVersion |-> "step7-initial-profiles-v1"]
ClientPolicy ==
  [snapshotVersion |-> 1, clientEntityId |-> "client",
   policyVersion |-> InitialBundle.policyVersion, enabledProfiles |-> SupportedActions,
   maxSingleActionAmountMinor |-> {100}, maxDailyAggregateAmountMinor |-> {250},
   requireHumanAuthorizationFor |-> {"CREATE_BILL"}, suspended |-> FALSE,
   boundTo |-> InitialBundle]

----------------------------------------------------------------------------
(***************************************************************************)
(* Policy inputs: the one the entrypoint assembles, and that of a bill.    *)
(***************************************************************************)
Snapshot(type, amount) ==
  [clientEntityId |-> "client", ledgerBookId |-> "book", actionType |-> type,
   amountMinor |-> amount, currencyCode |-> IF amount = {} THEN None ELSE "EUR"]
NotApplicable(id) == [certainty |-> "NOT_APPLICABLE", verified |-> TRUE] @@ (id :> None)

Conservative ==
  LET snapshot == Snapshot("SHADOW_RECONCILIATION", {}) IN
  [client |-> [clientEntityId |-> "client", ledgerBookId |-> "book", active |-> TRUE],
   action |-> [actionType |-> "SHADOW_RECONCILIATION",
               fingerprintVersion |-> "step7-action-fingerprint-v1",
               claimedActionFingerprint |-> snapshot, computedActionFingerprint |-> snapshot,
               step5AuthorizedRequestFingerprint |-> None, snapshot |-> snapshot],
   amount |-> [amountMinor |-> {}, dailyAggregateBeforeMinor |-> {}, currencyCode |-> None],
   evidence |-> [quality |-> "STRONG", completeness |-> "COMPLETE",
     facts |-> <<[evidenceId |-> "ofx", sha256 |-> "hash", verifiedSha256 |-> "hash",
                  clientEntityId |-> "client", ledgerBookId |-> "book", retained |-> TRUE,
                  verified |-> TRUE, provenance |-> "DETERMINISTIC"]>>],
   confidence |-> <<[fact |-> "retained_artifact_integrity", basisPoints |-> 10000,
                     provenance |-> "DETERMINISTIC"]>>,
   transactionType |-> "BANK_RECONCILIATION",
   accountTreatment |-> NotApplicable("mappingId"), taxTreatment |-> NotApplicable("treatmentId"),
   reversibility |-> "UNKNOWN",
   history |-> [priorVerifiedActions |-> 0, stablePattern |-> FALSE,
                hasCorrectionsOrReversals |-> FALSE],
   riskFlags |-> <<>>,
   humanAuthorization |-> [state |-> "MISSING", authorizationId |-> None,
     authorizedActionFingerprint |-> None, authorizedClientEntityId |-> None,
     authorizedLedgerBookId |-> None, authorizedActionType |-> None],
   profileFacts |-> [existingVendorMatch |-> "NOT_APPLICABLE", billArithmeticVerified |-> FALSE,
                     duplicateCheck |-> "NOT_APPLICABLE", vendorBindingVerified |-> FALSE],
   modelProposedPermission |-> None]

\* An action a person authorized.
Authorized(type, amount, reversibility) ==
  LET snapshot == Snapshot(type, amount) IN
  [Conservative EXCEPT
     !.action.actionType = type, !.action.claimedActionFingerprint = snapshot,
     !.action.snapshot = snapshot, !.amount.amountMinor = amount,
     !.amount.currencyCode = snapshot.currencyCode, !.reversibility = reversibility,
     !.humanAuthorization = [state |-> "EXACT", authorizationId |-> "authorization",
        authorizedActionFingerprint |-> snapshot, authorizedClientEntityId |-> "client",
        authorizedLedgerBookId |-> "book", authorizedActionType |-> type]]

\* A bill that reaches both limits.
Bill == [Authorized("CREATE_BILL", {100}, "COMPENSATING") EXCEPT
  !.transactionType = "BILL", !.amount.dailyAggregateBeforeMinor = {150},
  !.accountTreatment = [certainty |-> "EXACT", mappingId |-> "mapping", verified |-> TRUE],
  !.taxTreatment = [certainty |-> "EXACT", treatmentId |-> "treatment", verified |-> TRUE],
  !.history = [priorVerifiedActions |-> 3, stablePattern |-> TRUE,
               hasCorrectionsOrReversals |-> FALSE],
  !.profileFacts = [existingVendorMatch |-> "NOT_APPLICABLE", billArithmeticVerified |-> TRUE,
                    duplicateCheck |-> "CLEAR", vendorBindingVerified |-> TRUE]]

----------------------------------------------------------------------------
(***************************************************************************)
(* Planning inputs: the one of the entrypoint, and an unpaid bill just      *)
(* read.                                                                   *)
(***************************************************************************)
Unread ==
  [provider |-> "quickbooks", objectType |-> "QBO_BILL", lifecycleState |-> "UNKNOWN",
   desiredCorrection |-> "UPDATE_NON_FINANCIAL", originalOutcome |-> "CONFIRMED",
   currentState |-> [readCompleted |-> FALSE, observedAt |-> None, providerObjectId |-> None,
                     providerVersionToken |-> None, stateFingerprint |-> None],
   beforeState |-> [canonical |-> None, claimedFingerprint |-> None],
   checks |-> [dependencies |-> "UNKNOWN", periodLock |-> "UNKNOWN", tax |-> "UNKNOWN",
               reconciliation |-> "UNKNOWN"],
   evaluationAsOf |-> 300]

ReadBill(lifecycle) == [Unread EXCEPT
  !.lifecycleState = lifecycle,
  !.currentState = [readCompleted |-> TRUE, observedAt |-> 0, providerObjectId |-> "bill",
                    providerVersionToken |-> "token", stateFingerprint |-> "state"],
  !.beforeState = [canonical |-> "state", claimedFingerprint |-> "state"],
  !.checks = [dependencies |-> "CLEAR", periodLock |-> "CLEAR", tax |-> "CLEAR",
              reconciliation |-> "CLEAR"]]

----------------------------------------------------------------------------
(***************************************************************************)
(* Statements: the prior one closes at 100 on day 0, the period is 1..2.   *)
(***************************************************************************)
Row(fitId, day, minor) == [fitId |-> fitId, day |-> day, amount |-> Text(minor)]
Statement(account, start, end, balance, rows) ==
  [account |-> account, currency |-> "EUR", start |-> start, end |-> end, asOf |-> end,
   balance |-> Text(balance), rows |-> rows]
Prior == Statement("bank", -1, 0, 100, <<>>)
Whole(account) == Statement(account, 1, 2, 105, <<Row("f1", 1, 5)>>)
Repeats == Statement("bank", 1, 2, 105, <<Row("f1", 1, 5), Row("f1", 2, 3)>>)
Nameless == Statement("bank", 1, 2, 105, <<Row("", 1, 5)>>)
Broken == Statement("bank", 1, 2, 106, <<Row("f1", 1, 5)>>)

Proven == [header |-> TRUE, columns |-> TRUE, matches |-> 1]
Posting(day, minor) == [day |-> day, amount |-> Text(minor), cells |-> TRUE]

Plan(policyInput, planningInput, current, report) ==
  [bundle |-> InitialBundle, policy |-> ClientPolicy, rows |-> {"line", "row"},
   books |-> <<Posting(0, 100), Posting(1, 5)>>, prior |-> Prior, current |-> current,
   scope |-> [sourceAccount |-> "bank", currency |-> "EUR", sourceSign |-> 1, ledgerSign |-> 1],
   report |-> report, policyInput |-> policyInput, planningInput |-> planningInput]

MCPlans == {
  Plan(Conservative, Unread, Repeats, Proven),
  Plan(Bill, ReadBill("UNPAID_UNLINKED"), Whole("bank"), Proven),
  Plan(Conservative, Unread, Whole("another"), Proven),
  Plan(Conservative, Unread, Nameless, Proven),
  Plan(Conservative, Unread, Broken, [Proven EXCEPT !.matches = 0])}

MCLateRows == {"late row"}
MCPairs == {[line |-> "line", row |-> "row"]}
MCPostings == {Posting(0, 7), Posting(1, 7)}
Symmetry == Permutations(Workers)
=============================================================================
