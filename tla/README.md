# Zaki Ledger: a verification project in TLA+

Zaki Ledger reads invoices, lets a person approve them, keeps what was approved as evidence, posts it to
QuickBooks as Bills, and reconciles bank statements with the ledger. Its rules live in three places: TypeScript
services under `zakiledger/lib` and `zakiledger/app/api`, PL/pgSQL procedures under `supabase/migrations` that lock
rows and decide, and screens that keep copies of what they loaded and ask for changes. Every operation is a chain of
short transactions with a process in between that may stop, be overtaken or hear from the provider too late. This
project models those chains, checks small instances with TLC and proves the central results with TLAPS.

Paths below are relative to `src/`; `016:279` is line 279 of migration `016_*.sql`.

## 1. The system

### Components

| Component | State it keeps | Operations | What makes it correct |
|---|---|---|---|
| Posting schema (014) | operations, attempts, append-only events, bindings, claims | none of its own | one operation per claim, one binding per operation, history is never rewritten |
| Posting intake (015, 018, 025, `authoritative-posting-service.ts`) | state, approval and decisions of an operation | claim, load context, record decision, transition, refresh authorization | no two operations for one source action; every state has a decision behind it; a late call cannot undo an execution |
| Bill execution (016, 017, adapters) | SUBMIT attempts, acknowledged Bill, binding | prepare, CREATE, record result, begin recovery, read back, record observation | at most one Bill; FAILED_SAFE and SUCCEEDED are true; what is settled stays |
| Vendor execution, adoption (023, 024) | as above, binding kind | as above, adopt: begin, read, record | at most one Vendor per operation; no Vendor answers for two operations; an adoption never reopens what may have been sent |
| Sandbox pilot (026-028, `quickbooks-sandbox-pilot-executor.ts`) | allow-listed pair, pilot events | adopt the Vendor, record it, refresh authorization, post the Bill | no Bill without the adopted Vendor; SUCCEEDED is true; a repeated request completes or says why not |
| OAuth connections (`oauth-store.ts`, `quickbooks.ts`) | one row per user and provider | connect, choose a company, refresh, disconnect | the tokens of a row open the company it names |
| Shadow orchestration (034, `orchestration/`) | runs, stages, attempts, leases with fences, artifacts of each stage | create, begin stage, finalize, retry; eight handlers | one attempt runs; no outcome is masked; a run reaches its verdict; its artifacts agree with each other |
| Balance reconciliation (029-031) | snapshots, movement sets, proofs | read the statement and three reports, prove | RECONCILED only where both sides prove their balances |
| Policy engine (032), reversibility (033) | policy bundles and snapshots, decision log; event stream | publish, evaluate, plan corrections | the strictest verdict wins; a decision names what it was taken under |
| Document queue and approval (`store.ts`, `bulk-approve.ts`, approve route, 021, 022) | queue rows, canonical documents and revisions, confirmations, invoices | upload, approve, bulk approve, confirm, save, resolve, delete | an invoice states what was confirmed; a confirmation keeps its revision; an approved document stays approved |
| Reconciliation (012, 013, `reconciliation-store.ts`) | bank and accounting transactions, matches, reports | match, match by hand, approve, reject, unapprove, report | an accounting transaction is claimed once; a claim gives way only to a stronger one; what was approved or superseded stays; a report is true |
| Matching and detection (`reconciliation-matching.ts`, `-detectors.ts`, `-insights.ts`, `comparison-engine.ts`) | none | score, detect, build rows, compare two files | a line is explained once, scores add up, nothing is lost or counted twice |
| Merchant preferences (`decision-store.ts`) | preferences, decision log | bump, set default | learned means decided often enough |
| User interface (`BatchUpload.tsx`, `ReviewBoard.tsx`, `review/page.tsx`, `batch/page.tsx`, `reconciliation/review/page.tsx`) | copies of rows, edits, selections, outcomes | upload, edit, approve, reject, discard, undo | nothing unverified is posted; what a screen reports has happened |
| Canonical foundation (008, 010), onboarding (019, 020), tenants (011), parsers, legacy schema | | | see section 7 |

`PROJECT.json` lists all of them with their sources and what is modelled.

### Interaction

- The **screens** share nothing but the tables behind the routes. Each changes its own copy when something is clicked
  and hears later, or never, what became of the request.
- The **approval route** (`app/api/approve`) confirms evidence, saves an invoice, resolves the queue row and may
  propose a posting operation to the **intake**.
- The **intake** shares the row of `posting_operations` with the **executions**: both move `current_state`, each
  only by a procedure that locks the row and compares the state it expects. A call works on a context it
  loaded earlier, so it may be late.
- **Bill execution** requires the **Vendor** operation of the Bill to have succeeded (016:398), and checks actor,
  destination, approval, mappings and evidence again at dispatch. These are other components' states; the
  models let each check turn false and true at any time.
- The **pilot** drives a Vendor and its Bill through both executions, with a credential it takes from the **OAuth
  connection** before each provider call, while the user may connect another company.
- Both executions call the **provider** between two transactions. It may process a request that timed out, lose
  its answer, and be edited by people. Recovery is a read-back by a tag in the object, never a second CREATE.
- **Shadow workers** compete for one lease per stage of a client and book; a fence number tells an old holder
  from the current one. A **manual shadow run** gives them their eight handlers, which call **extraction**,
  **reconciliation**, **balance proof**, **policy** and **reversibility** and leave immutable artifacts.
- **Reconciliation calls** meet on the rows of `reconciliation_matches`. What a call proposes or decides rests on
  reads without locks; the procedures of 013 lock the two transactions of a match and look again.

### Hard behaviour

Calls that race for one operation (row locks are released between the calls); processes that stop after the
provider was called and before the answer is recorded; answers that are late; checks that were true when read;
leases that expire under a slow worker; a row read by an approval and resolved by another; a screen that keeps what it
loaded; a token refreshed for a row that was replaced; reports read one after the other while the books change; limits
and short cuts at their boundary; retries that must not repeat what was done. `PROJECT.json` lists each under "hazards"
at its line, with the properties that watch it.

## 2. The modules

| Module | Models | Composed with |
|---|---|---|
| `PostingStates` | the states of an operation and the transition table of 015 and 018 | extended by the posting modules |
| `PostingContract` | abstract: one object at most, settled as posted only with it, as not posted only without | implemented by `BillExecution` and `VendorExecution` |
| `BillExecution` | migrations 016, 017 and `executeQuickBooksBill`, `recoverQuickBooksBill`; provider and its users | `PostingStates`; intake moves as an environment action |
| `VendorExecution` | migrations 023, 024; creation and adoption in one state machine, because they share states and locks | `PostingStates` |
| `PostingIntake` | `submit()` call by call, the procedures of 015, 018 and the refresh of 025; execution as an environment action | `PostingStates` |
| `QuickBooksConnection` | the OAuth row: connect, company selection, refresh, disconnect, `getValidQboAccess` | |
| `SandboxPilot` | `execute()` of the pilot over 024 to 028, several requests at once | extends `QuickBooksConnection` |
| `ShadowOrchestration` | migration 034 and `ShadowOrchestrationWorker.run`, with handlers that may end in anything | |
| `ManualShadow` | `runManualProductionShadow`: the eight handlers that replace those, await by await | extends `ShadowOrchestration`, `AutonomyPolicy`, `BalanceEvidence`; instantiates `ReversibilityPlanner` |
| `AutonomyPolicy`, `BalanceEvidence`, `ReversibilityPlanner` | the evaluator, the two readers with the validation and verdict of 029 and 030, the planner: operators | used by `ManualShadow` |
| `DocumentApproval` | queue, single and bulk approval, confirmation (021, 022), invoices, database call by call | |
| `ApprovalGate` | confidence gate, currencies, duplicates; what the board computes of a document, with arithmetic of its own, and its sections: operators | |
| `ApprovalRoutes` | the approval routes as the screens see them, with the checks the routes write for themselves, one step per request and document | extends `ApprovalGate` |
| `ResultsScreen`, `ReviewPage` | the screen after an upload; the review page with its board, and the batch page | extend `ApprovalRoutes` |
| `ReviewScreens` | all of them at once over one queue | extends `ResultsScreen`, `ReviewPage` |
| `MatchClaims` | the procedures of 013, `matchTransactions` and the calls of `reconciliation-store.ts` | implemented by `ReconciliationScreen` |
| `ReconciliationScreen` | a review page of a statement, other pages, the routes and the report | extends `MatchClaims` |
| `MerchantNames`, `StatementFindings`, `StatementRows`, `LedgerComparison` | resemblance of names, the four detectors, the rows of the board, the comparison of two files: operators | each extends the one before (the last two both extend `StatementFindings`) |
| `MerchantPreferences` | `decision-store.ts`: preferences read by one statement and written by another | |
| `StatementReview` | the requests for a board or a comparison, beside those that teach preferences | extends the five above |
| `..._proofs` | theorems of `BillExecution`, `VendorExecution`, `PostingIntake`, `SandboxPilot`, `DocumentApproval`, `ReviewScreens`; `ManualShadow_proofs` also those of `ShadowOrchestration`, `Reconciliation_proofs` those of `MatchClaims`, `ReconciliationScreen` and `StatementReview` | each extends its modules and `TLAPS` |
| `MC...` | constants and symmetry of the instances | each extends its module |

### Correspondence

A variable is a table, or a column of one, unless its comment says otherwise; each module's header lists them.
The local variables of a running call are one record per call (`worker`, `caller`, `call`, `pilot`, `local`, `access`)
with a program counter that says between which two awaits it stands. One action is one transaction or one exchange with
the provider, whole: row locks, conditions, writes, events and what the caller does with the answer up to its next
await. Early returns that write nothing are stuttering steps and not written down, except where the answer shows on a
screen. A crash is an action that resets the record of a call (`Return`, `CallStops`, ...); what it wrote stays.

A screen is a record of what it holds. A click, a request's effect at its route and the arrival of the answer are
actions of their own; where requests of a run are sent in sequence, so are the actions. `ApprovalRoutes` takes one
request for one document in one step, since `DocumentApproval` takes the same routes apart into database calls, and the
overlaps that matter inside them are its subject.

The intake is an environment of `BillExecution` (`IntakeMove`) and `VendorExecution`, and execution is one of
`PostingIntake`: each side is the most general one the transition table permits, so what holds of the parts holds
for the combination on one row. `SandboxPilot` takes from both executions their outcomes only.

Data is abstracted to what the properties tell apart:

- `BillExecution`, `VendorExecution`: a request is its operation and attempt; a Bill or Vendor has its creator,
  the operation its tag names, and whether it is as requested. Fingerprints, amounts and payloads are
  "as wanted" or not. The dispatch checks are a set of those that fail at present.
- `PostingIntake`: a request fingerprint is a value; membership, evidence and mappings are the verdict of the gate.
- `QuickBooksConnection`: a token is the company it opens.
- `ShadowOrchestration`: an output is its fingerprint; a lease is live or not; time passes in `LeaseExpires`.
- `ManualShadow` and its operators: SHA-256 fingerprints are the values they are taken of; days are numbers; money is
  whole minor units, and a text that is no exact amount is `Unreadable`.
- `DocumentApproval`: the reviewable values are one value and its identity for the duplicate check (vendor,
  number, amount); the confidence gate passes or refuses. In `ApprovalGate` they are seven fields with a confidence.
- `MatchClaims`: the score of a pair is a constant, since an import changes no transaction; a match row is named by
  its bank transaction, which has one at a time (`UNIQUE`, 003:109), and the id of a deleted row is dropped from the
  calls that hold it. The procedures that take all their locks before they read are one action each.
- `MerchantNames`: a name is a sequence of words and a word of letters, because the resemblance is computed from
  them; resemblances are exact fractions (sixtieths of a word), where the code has floating point.
- `StatementFindings`: the words the patterns look for in a text are a set; wording, colours and evidence in words are
  left out.

## 3. The runs

| Run | Instance | Shows |
|---|---|---|
| `bill` | 1 operation, 2 calls, 2 Bill ids, a drifting approval, drifting evidence and provider, calls that go on | `NoDuplicateBill`, `FailedSafeIsProof`, `UnsentUntilDispatched`, `SucceededIsBound`; `KeepsContract` (refinement); `CreatedIsRecognised` (liveness) |
| `vendor` | 2 operations, 2 calls, 2 Vendors that may exist before, an actor whose right drifts, a bookkeeper | `NothingIsDisowned`, `BindingsAreTrue`; `KeepsVendorContract` (refinement, which includes `NoDuplicateVendor`) |
| `intake` | 2 calls with rival intents, 2 keys, 1 claim, 2 contents, an approval and its refresh, one drift, fair | `OneOperationPerClaim`, `DecisionsExplain`, `PassiveIsLeftAlone`; `ApprovedIsAuthorized` (liveness) |
| `pilot` | 2 requests with 2 Vendor ids, 2 companies, a status poll, roles and approvals that lapse | `BillFollowsVendor`, `PairsStand` |
| `shadow` | 1 run of 3 stages, 2 workers, 2 outputs, one fault, leases left by an earlier run, fair | `FenceDecides`, `InputsAreCommitted`, `NothingIsMasked`; `RunSucceeds` (liveness) |
| `manual_shadow` | 1 run of 8 stages, 5 plans, 2 workers, 3 calls, one fault or change by somebody else | `FrozenFrontier`, `AuditNamesArtifacts`, `ReconciledIsProven`, `AllowNeedsEveryFact` |
| `approval_queue` | 2 uploads, same bytes or not, 2 readings of one invoice, 3 approvals, 2 at a time | `EvidenceStands`, `InvoiceIsConfirmed`, `SecondDocumentOverlaps`, `DuplicatesOverlap` |
| `approval_reopened` | 2 approvals of one upload; **violation** | finding 1 |
| `review` | 2 documents of 4 pairs of readings, results screen, review page and batch page | `ResultsAreVerified`, `ReportedIsDone`, `ReadyIsApprovable` |
| `match_claims` | 2 statements, 3 bank and 2 accounting transactions, 2 calls, a page and others | `ClaimsExclusive`, `ReplacementIsKept`, `SupersessionJustified`, `EvidenceIsKept`, `ReconciledWasApproved` |
| `match_refused` | 2 bank transactions, 1 accounting transaction, 1 call; **violation** | finding 2 |
| `statement_review` | statements of three lines drawn from nine, 2 ledgers, 2 filters, 2 calls that teach | `PatternsExplainOnce`, `PanelAddsUp`, `EarlyExitIsExact`, `ComparisonIsComplete`, `LearnedIsEarned` |

Each property is stated in words above its definition and has a mutant in `PROJECT.json`: a plausible bug in one
mapped definition under which the same run violates it.

### Bounds

- *Calls.* Two calls on one operation are the least in which a sender, or a recovery, stands between two steps while
  another overtakes it; since a call that ends may start again, a third party is any earlier call's request still on
  the wire. Two operations are the least that can take each other's object. The proofs cover every number of both.
- `MaxSubmits` is 2 although no run ever makes more than one SUBMIT attempt: the bound leaves room to break the rule,
  it does not enforce it. `SingleSubmit` proves it for every bound.
- *Object ids* are one more than the operations need, so that a duplicate or a copy has a place.
- `MaxDrifts` (intake), `MaxFaults` (shadow, manual shadow) count changes of the world, crashes and expiries: one gives
  each single interference with each step. In `manual_shadow` a call overlaps another only once that happened, and
  `MaxAttempts`, `MaxCalls` leave two attempts of a stage and the third call that finds what they left.
- *Stages.* Three in `shadow`: one before, the one of interest, and `EXCEPTION_OUTPUT`, which is treated differently;
  all eight in `manual_shadow`.
- *Plans* (`MCManualShadow`): the input the entrypoint assembles, with a statement that repeats an id, lacks one, is of
  another account or does not prove its balance; and a bill a person authorized, exactly at both limits, with a whole
  statement and an object just read.
- `MaxCalls`, `MaxInvoices` (approval): three approvals make a completed one, a retry and an overlapping one;
  two invoices make one duplicate.
- `Readings` (`review`): two readings of one invoice; a doubtful field with an unsettled type; totals that are off by
  the tolerated penny, and by two; a currency no bill is posted in beside a supplier that was not
  read. `MaxInputs`, `MaxRuns`, `MaxCalls` give each document an edit, and a second run that meets what the first
  left; one request of the review page may be under way at a time beside the runs of the others.
- `MaxClicks`, `MaxOthers` (`match_claims`): three clicks are an approval, its undoing and a second one; two calls of
  others overlap each of them.
- *Scores* are sums that `scorePair` can return, chosen so that a weak claim of one statement is superseded by a line
  of the other that is exactly 20 points stronger (100 against 80), where the two rules would first drift apart, and
  blocks another line. Two bank transactions of one statement are the least
  that compete inside an assignment, a third the least that supersedes from outside it.
- *Lines* (`statement_review`): a charge, its copy, three things that may give it back, a part and the rest of an
  invoice, a transfer and a line without a name; three at a time are the least in which a line has two explanations to
  choose from. Words have up to six letters, for which sixtieths are exact. `MaxDecisions` is the number of approvals
  after which a merchant counts as learned.
- `DriftingChecks` is one denying check (Bill, Vendor) beside the evidence, which holds back: all denying checks have
  the same effect (016:420), so a second only multiplies states.

Symmetry is used only in runs without liveness properties.

`CHECK_DEADLOCK FALSE` is set for `bill`, `vendor`, `intake`, `shadow`, `manual_shadow`, `approval_queue`,
`approval_reopened`, `review` and `match_claims`, where the system may come to rest: everything settled, all claims refused, the
bounds used up. The other runs check deadlock.

### Fairness

- `BillExecution`: a call that has got past dispatch goes on, as an await does that neither crashes nor hangs
  (the transport has a timeout), weakly fair. Nothing is assumed of the start of a call, and of a recovery least of
  all: the only production caller, the pilot executor (`quickbooks-sandbox-pilot-executor.ts:686`), passes
  `recoverExisting: false` and stops with `PILOT_STOP_RECOVERY_REQUIRED` (`authoritative-posting-service.ts:355`), and
  nothing schedules `recoverQuickBooksBill`. So the liveness property is conditional: for an operation for which a
  person or a caller keeps asking for recovery while it is in flight (`RecoveryIsAsked`), once crashes and unanswered
  reads come to an end (`Calm`) and the Bill stays as it was created (`Intact`).
- `PostingIntake`: weakly fair steps of a running call; strong fairness of the resubmission of an intent that is
  claimed, because other calls may occupy the caller again and again.
- `ShadowOrchestration`: weakly fair steps, leases expire (time passes), and a run that is not finished is started
  again (strong: a worker may be busy with another run).

No fairness is assumed of a provider, of a person, of a screen, or of the start of a posting or its recovery.

## 4. What is proved

Every invariant and every action property that a passing run checks is also a theorem, for any sets of operations,
calls, workers, documents, lines and scores and for every bound. Eight proof modules hold them. They assume only
the named assumptions of the modules, which TLC evaluates on each run: nulls are not members, bounds are numbers,
ids that are compared are numbers, an approval approves a content, an outcome of a stage is a terminal state other than
CANCELLED (034), a typed field is a reviewable one, a plan's policy input has the fields of `NormalizedPolicyInput` and
its statements those of an OFX file, a line or an entry has what its schema requires, the amounts of
a stored document are numbers, which a blank is not (`lib/schema.ts`). `ManualAssumption` (eight
stages, the last of them the exceptions) is used by the lemmas about single handlers only.

### Bill execution (`BillExecution_proofs`)

| Theorem | Statement |
|---|---|
| `TypeCorrect` | every variable keeps its type |
| `AtMostOneBill` | `[]NoDuplicateBill` |
| `FailedSafeProved` | `[]FailedSafeIsProof`: nothing of a failed operation exists or can still be created |
| `PostedIsBound` | `[]SucceededIsBound` |
| `ReviewedIsUnsent` | `[]UnsentUntilDispatched` |
| `SettledStays` | `Settled`: terminal states and bindings never change |
| `Refinement` | `Spec => Contract!Spec`, the abstract specification under the refinement mapping |

None of these is inductive. "One Bill" cannot be kept without knowing that a request on the wire is the only one
and unprocessed; this needs that one call holds the right to send, and that needs that the state left AUTHORIZED
for good. The inductive invariant `IInv` has these parts:

1. `WorkersHaveOps`: a running call has an operation.
2. `SingleSubmit`: no more than one SUBMIT attempt, made exactly when the state leaves AUTHORIZED for SUBMITTING.
3. `GrantToken`: of all calls, one at most holds the right to send that this attempt gave; it exchanges the right for
   one request, and the request for one answer: before it sends, and while the request is unprocessed, nothing is
   created or answered; a rejection means that nothing was created.
4. `ProviderOrder`: `NoDuplicateBill`, ids are used once, and every tag in QuickBooks leads back to a Bill its
   operation created.
5. `FailureIsProof`: a call about to record FAILED_SAFE, and an operation in it, has nothing created or on the wire.
6. `ReferencesAreTagged`: every Bill id a call, an answer or an acknowledgement carries names a Bill with the tag of
   its operation.
7. `SucceededIsBound`.

`IInvInit` and `IInvStep` show it inductive, with one lemma per part; the theorems above follow, and the refinement
maps each step to `Create`, `SettlePosted`, `SettleNotPosted` or a stutter.

### Vendor execution and adoption (`VendorExecution_proofs`)

| Theorem | Statement |
|---|---|
| `TypeCorrect` | every variable keeps its type |
| `AtMostOneVendor` | `[]NoDuplicateVendor` |
| `NothingLeftBehind` | `[]NothingIsDisowned` |
| `BoundToItsOwn` | `[]BindingsAreTrue` |
| `Refinement` | `KeepsVendorContract`: `VendorExecution` implements `PostingContract` |

Here a state that was left may be entered again: an adoption moves AUTHORIZED to VERIFYING and back to REVIEW, and its
record (024:363) does not check which attempt put the operation there. The parts above stay, with `SingleSubmit`
weakened to "outside the states in flight and the final ones nothing was submitted", and two are new:

1. `AdoptionToken`: one call at most adopts for an operation, nothing of that operation was ever submitted, and it
   stays in flight until the call has answered. The last part is the delicate one: a recovery may overtake the
   adoption, but finds no Vendor under the tag, since tags lead back to creations (`ProviderOrder`) and there is none,
   and so cannot settle the operation.
2. `AdoptedIsUnsent`: a binding names a Vendor, and what was adopted was never submitted.

`StateMoves`, `GrantMoves`, `AdoptMoves` and `VendorMoves` first reduce the steps to what each variable may do; one
lemma per part follows.

`PostingContract` speaks of what the service creates itself, so an operation that adopted a Vendor is settled there as
one that created none, like a denied or failed one. `OutcomeMoves` shows that a step that changes an outcome moves
that operation and settles what was open, truly (`SuccessSettles`, `RefusalSettles`, `SettledIsKept`); `OthersStay`
that it moves no other and creates nothing; `CreatesOnce` that a request is processed only while its operation is
open. The adoption is what makes the last one more than for a Bill: a request on the wire must exclude that the
operation was adopted meanwhile (`AdoptedIsUnsent`).

### Posting intake (`PostingIntake_proofs`)

| Theorem | Statement |
|---|---|
| `TypeCorrect` | every variable keeps its type |
| `ClaimedOnce` | `[]OneOperationPerClaim` |
| `StatesAreExplained` | `[]DecisionsExplain` |
| `OnlyExecutionMoves` | `PassiveIsLeftAlone` |

A decision is recorded by one call and acted on by another, so that "every state has its decision" needs what each
call in between holds: `CallsOwnTheirOperation` (a call works on the operation its intent claimed, in a state it saw),
`MovesHaveGrounds` (a call about to move has recorded the decision for it) and `UnclaimedIsNew`.

### Match claims and their screen (`Reconciliation_proofs`)

| Theorem | Statement |
|---|---|
| `TypeCorrect` | every variable keeps its type |
| `ClaimsAreExclusive` | `[]ClaimsExclusive`: invariants D1 and M of migration 013 |
| `ReplacementsStay` | `[]ReplacementIsKept` |
| `SupersededByStronger` | `SupersessionJustified` |
| `DecisionsStay` | `EvidenceIsKept` |

The strengthening is small but needed. `ProposalsMatch`: a proposal in flight names each bank and each accounting
transaction once, without which persisting it could claim one twice; it follows from the order of candidates being
total on those that compete (`BeforeTotal`, `AssignmentMatches`). That a claim gives way is decided twice, by the
matcher (`ShouldSupersede`) and again by the procedure that stores the proposal (`HoldsAgainst`, 013:681);
`SupersessionJustified` says that what is superseded is so by the matcher's rule, too, and that the procedure turns
nothing away that the matcher would still propose (`Unopposed`, `UnopposedPersists`). `SupersededUnapproved`: no
superseded match is approved, without which unapproval would be refused or change history. `RowSteps` then reduces
every step to what it may do to one row (insert, write by hand, replace, sign, unsign, remove), and all but
exclusivity follow from those cases.

`ScreenImplementsClaims` shows `ScreenSpec => Spec`: whatever pages ask for and whenever answers arrive, the table of
matches changes only as `MatchClaims` allows, so its theorems hold behind the screens too. `ReportsAreTrue` proves
`[]ReconciledWasApproved`. Its strengthening `SInv` adds that a statement that is wholly approved now is among the `settled` ones
(`WasApproved`), and that an answer under way calls only such a statement reconciled (`AnswersAreTrue`).

### Statement pages (`Reconciliation_proofs`)

| Theorem | Statement |
|---|---|
| `StatementInvariant` | `[]ReviewInv` |
| `PatternsAreExplainedOnce` | `[]PatternsExplainOnce` |
| `PanelsAreExact` | `[]PanelAddsUp` |
| `ShortCutsChangeNothing` | `[]EarlyExitIsExact` |
| `NothingIsLost` | `[]ComparisonIsComplete` |
| `LearningIsEarned` | `[]LearnedIsEarned` |

`ReviewInv` has two parts. `LearningOK`: a request between the log of a decision and its count is owed one, and the
stored count, as well as the count each request has read, with all that is owed for its category, stay within what
was logged or set as default (`PreferenceBacked`, `FoundBacked`). Each step keeps it because what a category earned
beyond what is owed never shrinks (`SlackGrows`). `PageOK`: a page shows what its files and the learned category give.

The other four follow from `PageOK` by facts about the algorithms, for files of any length and names of any words:

- *Greedy passes.* The matcher, the comparison, the reversals and the refunds take candidates one at a time in some
  order, each unless one of its members is taken. Whatever the order, the result is a matching to which no candidate
  can be added (`GreedyIsMaximal`). So the pairs of `ReversalsCancel` and `RefundsCancel` are disjoint and both
  lines get the same finding (`FindingsArePaired`), and a line that the comparison leaves unmatched has the amount of
  no entry: the entry is taken, and `Duplicates` would have listed the line (`UnmatchedHasNoEntry`).
- *Short cuts.* `DistanceIsFar`: the table of the edit distance never falls below the difference of the lengths. So
  a word rejected by its length is below the threshold (`RejectedIsFar`), both loops claim the same words
  (`DicesAreEqual`), and the bound before the loop is one (`ShortCutsAreExact`).
- *Scores.* `ScoreIsCredits`: the sum over the reasons of a pair is what its credits add up to, in any order;
  `ReasonsExclude`: no pair has both a full and a partial reason for one factor.

### Sandbox pilot (`SandboxPilot_proofs`)

| Theorem | Statement |
|---|---|
| `TypeCorrect` | every variable keeps its type |
| `BillFollows` | `[]BillFollowsVendor` |
| `CredentialsMatch` | `[]PairsStand`, whatever the connection does meanwhile |

`PairsStand` is nearly inductive: what `getValidQboAccess` holds is of one company until it returns. For the Bill the invariant
says which request is where: `AdoptionStands` (one request adopts, and the Vendor it adopted is that of every request
behind that point), `DispatchToken` (one request is between the dispatch of the Bill and its record, and the state
says how far it is), `CreatedUnderVendor` and `SuccessIsTrue` (what a request saw verified stays verified).

### Document approval (`DocumentApproval_proofs`)

| Theorem | Statement |
|---|---|
| `TypeCorrect` | every variable keeps its type |
| `EvidenceIsTraceable` | `[]EvidenceStands` |
| `SavedIsConfirmed` | `[]InvoiceIsConfirmed` |
| `OneDocumentUnlessOverlap` | `[]SecondDocumentOverlaps` |
| `SilentDuplicatesOverlap` | `[]DuplicatesOverlap` |

The four need each other's ground: `RowsAreRead` (a row in use has bytes and a reading), `DocumentIsHeld` (a
confirmation writes to a document of the row's own bytes), `CallIsConfirmed` (a call that saves has confirmed its own
facts, one that resolves names its invoice), `LookedForDocument` (the documents a confirmation saw and passed over are
still of other artifacts) and, for the duplicates, `SearchedHoldNoDuplicate`: a call that was not
waived through has, up to the moment it searched, no duplicate in the table. `NothingIsTakenBack` says that
documents, revisions, confirmations and invoices only grow, whatever the call, so that facts survive the steps of others.

### Shadow orchestration and the manual run (`ManualShadow_proofs`)

| Theorem | Statement |
|---|---|
| `TypeCorrect` | every variable keeps its type |
| `GreatestFenceDecides` | `[]FenceDecides` |
| `CommittedInputs` | `[]InputsAreCommitted` |
| `OutcomesAreReported` | `[]NothingIsMasked` |
| `ManualRunIsOrchestrated` | the last three, of a manual run |
| `CommitsWhatWasFrozen` | `[]FrozenFrontier` |
| `DecisionsNameArtifacts` | `[]AuditNamesArtifacts` |
| `BalancesAreProven` | `[]ReconciledIsProven` |
| `AllowsNothingWeaker` | `AllowNeedsEveryFact` |

The orchestration's invariant says: a call works for a run, in a stage all of whose predecessors have ended
(`CallsHaveRuns`, `CallsFollowStages`, `StagesInOrder`), and of the attempts of a stage the one with the greatest fence
says its state (`AttemptsDecide`). `EndedStays`, that a stage which ended never changes, carries it. The
lemmas are stated for handlers that may return anything (`Typed`, `Steps`); `ShadowOrchestration` and `ManualShadow`
are two instances, so that a manual run inherits them.

`Accountable` adds what the handlers do: the closure of a call holds only what was loaded or committed (`ClosuresOK`,
`IdsStand`: bundles and policies are only ever added, so an id loaded before the run still names the same artifact), a
run's snapshot never changes once recorded, and a handler follows the frozen frontier step by step
(`FrontierOK`, `HandlersFollow`), up to the output it returns and the one that is committed (`ReturnsAreFrozen`,
`CommitsAreFrozen`). Two of the theorems are about functions. `NoWeakerIsAllowed`: each of the 25 ways of
weakening an allowed input triggers a rule of the evaluator, whatever the other facts are. `CoveredIsWhole`: where
the reader counts as many rows as there are ids, it summed every row of the file, so opening and movements give the closing.

### Screens of the approval (`ReviewScreens_proofs`)

| Theorem | Statement |
|---|---|
| `TypeCorrect` | the results screen and the ledger keep their types |
| `NothingIsGuessed` | `[]ResultsAreVerified` |
| `ReportsAreTrue` | `[]ReportedIsDone` |
| `ReadyItemsPost` | `[]ReadyIsApprovable` |

A run of approvals works on copies, so the invariant is about those: `RequestsStand` (each critical field of a
request in a run was read for certain, typed or affirmed, and still is: a person may edit the row, but not take back
what was sent), `AnswersAreTrue` (an answer held by a run says "approved" only of what is in the ledger), `LedgerDocs`.

`ReadyIsApprovable` compares three pieces of code at three moments: the board, with its own confidences and arithmetic
on the list it loaded; the bulk route, with its own on the stored extraction; and the single route, on the request and
on what was confirmed before. `BoardIsRight` and `NothingEdited` show that the separately written checks agree on what
can be stored, for which the assumption about amounts is needed. `ConfirmedStored` is the part about the history: the
page lists only documents there are, and a batch never confirms anything but what is stored, so that a batch which
failed half way cannot refuse its own repetition.

### Induction over data

The library's induction theorems take an operator as a parameter, which no installed prover instantiates. Where a claim about a fold
or a recursive function is needed, it is proved by a smallest counterexample: the naturals, or the subsets of a
finite set, for which it fails have a least member (`LeastNatural`, `SmallestSubset`, from the well-foundedness of
`<`), and the step rules that one out. `FoldExists` and `SubsetInduction` package this for folds.

### Only model-checked

`CreatedIsRecognised`, `ApprovedIsAuthorized` and `RunSucceeds`: liveness under fairness is out of the prover's reach.
`ResolvedStays` and `RefusalIsExplained` are violated (next section).

## 5. Findings

1. `approval_reopened`: a bulk approval that refuses a row it had read earlier writes "pending" and no invoice over a
   row that another approval resolved meanwhile (`store.ts:848`).
2. `match_refused`: the guard of match rows refuses every update of a superseded row (013:393), also the one that
   `ON DELETE SET NULL` makes when the row that replaced it is deleted. Rejecting a match that replaced another
   always fails, although the comment at 013:162 plans for it and only approval should forbid it
   (`reconciliation-store.ts:1254`).

Observations met while modelling that no run states:

*Posting*

- An approval that became stale before dispatch ends the operation in DENIED (016:307, 016:420);
  `docs/STEP_5_POSTING_CONTRACT.md:244` sends it to REVIEW.
- `FAILED_SAFE` is a dead end (`authoritative-posting-service.ts:61`); the contract, line 253, lets it be validated
  again after explicit authorization. The state table of the contract (lines 232 to 254) lacks moves the code makes:
  UNCERTAIN to FAILED_SAFE (016:714), AUTHORIZED to VERIFYING and VERIFYING to REVIEW (024).
- The intake compares the expected state, not `row_version` (015:334): between VALIDATED and VALIDATED the operation
  may have been elsewhere. `DecisionsExplain` holds nevertheless.
- Recovery checks the actor when it begins (016:506) and not when it records.
- An adoption whose process ended stays in VERIFYING: adopting again is refused (024:84), and creation's recovery
  finds no attempt to recover. The pilot executor stops there too (`quickbooks-sandbox-pilot-executor.ts:640`), and
  also after the Vendor SUCCEEDED when its authorization is refreshed late (025:54 against 027:47).
- The pilot is the only caller of `executeQuickBooksBill`, without recovery; `recoverQuickBooksBill` and
  `executeQuickBooksVendor` have no production caller. A Bill whose answer was lost is therefore created and stays
  unrecognised for good, unless somebody calls the recovery by other means: `CreatedIsRecognised` shows that this is
  enough. A disconnect is undone by a refresh in flight, which saves
  over the row by user and provider.
- A batch with a posting proposal is refused on every path (`bulk-approve.ts:306` against 202).

*Approval and its screens*

- Two overlapping approvals of one document both save an invoice; the comment at `app/api/approve/route.ts:79` speaks
  of a guard, but the row is read in a call of its own. `DuplicatesOverlap` shows that nothing else duplicates, and
  the same holds of the check at route.ts:325, which finds the row still pending. A direct approval whose resolution
  fails stays pending (route.ts:324), and approving it again makes a second invoice.
- A row deleted between the saving of its invoice and its resolution (`store.ts:821`) leaves the invoice without the
  link that the comment at `store.ts:799` says cannot be lost; the model allows it and no property watches it.
- Two uploads of the same bytes confirmed at once make two canonical documents: 021:93 looks up by artifact, and
  no unique index covers it. `SecondDocumentOverlaps` shows that it takes such an overlap.
- The tolerance of a penny compares binary fractions (`schema.ts:108`, `validation.ts:252`), so that many totals that are
  off by exactly a penny are refused. Both checks compute the same expression; the models count pennies.
- The comment at `extraction-insights.ts:121` says that `/api/approve` enforces the arithmetic; it does not, so that a
  person may approve totals that do not add up, one document at a time.
- The results screen sends every field in `edited`, so the gate of the route (route.ts:177) has nothing to refuse;
  only `planApproval` holds back what nobody verified, which `ResultsAreVerified` rests on. The review page always
  sends `documentType`, so the rule about unsettled types never blocks there.
- On the review page an edit that the route blocks stays with confidence 1 in the page's copy (page.tsx:229), against
  route.ts:33 and 146; concurrent edits overwrite each other; the board focuses by index, and its keys ignore
  `approvable === false`; selections are not pruned and nothing waits for an approval under way.
- On the results screen `proceedDuplicate`, armed by one duplicate warning, is not cleared by edits
  (`batch-results.ts:74`, `BatchUpload.tsx:186`), so a row edited into another document is approved past its own
  warning; edits made during a run show values that were not posted; a network failure loses the patches of the whole
  run; a field typed back to what it was still counts as edited.
- On the batch page the selection survives a change of filter, and rejecting all reports success whatever the
  answers were.

*Shadow runs*

- `EXCEPTION_OUTPUT` that is interrupted after an earlier stage ended in review can never be retried: its dependency
  is loaded as succeeded only (`shadow-store.ts:295` against 034:532), so the run never closes.
- Reconciliation snapshots are unique per run, statement and role. When the frontier changes between computing and
  finalizing, each retry meets its own older snapshot, and CONFLICT is wrapped in a prefix that is classified as
  retryable: the stage is tried for ever (`step9-shadow-adversarial.test.ts:113` tests the neighbouring case).
- Database errors are wrapped as `SHADOW_..._FAILED:`, and `classifyShadowFailure` reads only that prefix, so none is
  classified as transient; `..._MISSING_BLOCKED` is retried. A BLOCKED or REVIEW answer of the policy stage that comes
  from a failure has no `decision`, so storing it fails as `INVALID_STEP7_OBSERVATION` (`shadow-worker.ts:119`).
- In production the manual plan's action type is one the policy does not know: the verdict is DENY, every run
  ends BLOCKED at `POLICY_EVALUATION`, and `REVERSIBILITY` never runs. The policy input ignores the balance verdict, and
  a balance that is not reconciled never stops a run.
- `policy_version` is unique (032:32) while the initial profiles carry one constant version, so that a second bundle
  ends in `INVALID_POLICY_BINDING`. Publishing one before a client's snapshot is recorded again makes runs fail,
  terminally, because `scheduleKey` does not name the policy.
- `find` of extraction runs returns the fingerprint as the database spells it (`extraction-run-service.ts:27`), so
  resuming an extraction is refused as malformed. `stoppedAt` is never set and diagnostics say "UNKNOWN". No worker
  renews its lease (`shadow-worker.ts:97`); the worker id of two requests of one user is the same; `runKey` leaves out
  the correlation id. Balance proofs and exceptions are not fenced.
- The three QuickBooks reports are read one after the other; nested rows of the general ledger are skipped.

*Reconciliation and statements*

- `rejectMatch` deletes by id, so a manual match that replaced the suggestion in place meanwhile is
  deleted unseen; in the same way an old screen approves another pair than it shows. A rejected pair is not
  remembered and is proposed again. A superseded row keeps its bank transaction (`UNIQUE`, and 013:649), so it can
  never be matched again, although each run scores it and may spend an accounting transaction on it. Blocked
  holders are taken out of the pool once only (`reconciliation-store.ts:957`).
- The page shows superseded matches as approvable: approving one alone is answered "None of the given match ids belong
  to this statement.", in a batch it is skipped while the answer counts it (`reconciled:
  body.matchesToApprove.length`), and the page hides it. Loads may arrive out of order; an undo may land before the
  approval it undoes; undoing and rejecting leave the report as it was; of two approvals the older report may be
  stored last. `generateReport` counts unmatched accounting transactions of every statement. The dashboard offers
  approved and superseded matches for approval.
- A manual match is explained as "manual override (amount + date)", from which the panel reads factors that do not add
  up to its confidence (`reconciliation-insights.ts:181`); `PanelAddsUp` is about automatic matches.
- In the comparison by a model, of two answers for one line the last wins with the confidence of the first, and one
  entry may be matched to several lines. `fuzzy_date` has no bound in days. Two concurrent requests classify a
  merchant twice, against the comment that none is.
- Approving the same match again counts again, so "learned from 3 approvals" may be one match; `setMerchantDefault`
  stores a count of 3; concurrent counts lose updates (never gain them: `LearnedIsEarned`). The review page never sends
  `categories`. A database built from 001 to 004 keeps `merchant_key` NOT NULL, which the insert leaves out.
- With three equal lines `detectDuplicates` is not symmetric, nor is `detectMerchantLinks`; a refunded line still
  counts in its split group.

## 6. Plan

Order: first what moves money, then what claims evidence, then what decides, then what the screens make of it.

1. *Done*: posting (`BillExecution`, `VendorExecution`, `PostingIntake`, `SandboxPilot`), shadow runs
   (`ShadowOrchestration`, `ManualShadow` with policy, balance and reversibility), approval (`DocumentApproval`,
   `ReviewScreens`), reconciliation (`MatchClaims`, `ReconciliationScreen`, `StatementReview`).
2. *Done*: a theorem for every invariant and action property of the runs (section 4), and both executions
   shown to implement `PostingContract`. Left: a fence of `ShadowOrchestration` is never issued twice, as a property
   of all its leases.
3. `CanonicalEvents` (008, 010): events, observations, claims of identity, merges.
4. The hash-chained streams of 033 as a state machine: one head, no gap.
5. `Onboarding` (019, 020), `TenantBootstrap` (011).

## 7. Not modelled

- *Canonical foundation* (008, 010), *onboarding* (019, 020), *tenants* (011): planned; their results are checks that
  drift, or artifacts that exist, in the models above.
- *The import of statements and ledger rows*, invoice matches, and the hash-chained event stream of 033.
- *Payloads*: canonical JSON, fingerprints and the layout of extracted documents. Equality is what counts.
- *Row-level security and roles*: the models are of calls by authorized roles; memberships are a check that may fail.
- *Language models, parsers, statistics*: what they return is chosen freely.
- *Screens that keep nothing*: comparison pages, dashboard, settings, layout.
- *Xero's connection*, which is written in two parts, and the requests made with the tokens.
- *Legacy schema and one-off repairs*, and the in-memory store of the demo mode.
- *64-bit sums* of the balance tables: amounts in the runs are far from the limit that the procedures test.
- *Lease renewal* of shadow stages: it extends a live lease, which changes nothing in the model; no code calls it.
- *Deadlocks inside the database*: the order in which two procedures lock rows (034:602) is resolved by PostgreSQL,
  which ends one of them; the models let a call end anywhere.
