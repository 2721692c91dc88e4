----------------------------- MODULE ManualShadow -----------------------------
(***************************************************************************)
(* A manual production shadow run: runManualProductionShadow, which gives  *)
(* ShadowOrchestration its eight stage handlers, and the domain services   *)
(* they call.  The handlers of the base module, which may end in anything, *)
(* are replaced by what the code computes, one action per await that       *)
(* touches shared state.  Between any two of them an operator may publish  *)
(* a policy bundle, record a client policy snapshot, archive the artifact, *)
(* reject a match, and bookkeepers and imports may change what the stages  *)
(* read.                                                                   *)
(*                                                                         *)
(*   plan       what the run is made of: the OFX statements (immutable     *)
(*              artifacts), the scope, the policy and planning inputs      *)
(*   artifact   import_artifacts.storage_state of the OFX statement        *)
(*   extracted  shadow_extraction_runs of the artifact's extraction key    *)
(*   canonical  import runs and occurrences of the canonical foundation    *)
(*   frontier   what loadStep4ReconciliationFrontier reads: the stable     *)
(*              source rows and the live matches, by id; made counts ids   *)
(*   snapshots  shadow_reconciliation_snapshots, by run and role           *)
(*   books      the postings of the QuickBooks account                     *)
(*   proofs     balance_reconciliation_revisions of shadow runs            *)
(*   bundles, policies                                                     *)
(*              autonomy_policy_bundles and client_policy_snapshots, by id *)
(*   decisions  autonomy_policy_decisions                                  *)
(*   exceptions shadow_orchestration_exceptions                            *)
(*   local      what a call of runManualProductionShadow keeps in its      *)
(*              closure                                                    *)
(*   calls      how many calls were made, to bound them                    *)
(***************************************************************************)
EXTENDS ShadowOrchestration, Integers, AutonomyPolicy, BalanceEvidence

CONSTANTS
  Plans,        \* what an operator may start
  LateRows,     \* accounting rows an import may add to the frontier
  Pairs,        \* the [line, row] a matching decides for, each of them once
  Postings,     \* what a bookkeeper may post to the account
  MaxCalls,     \* bound on the calls, of which the operator may make any number
  MaxAttempts   \* bound on the attempts of a stage

VARIABLES plan, artifact, extracted, canonical, frontier, snapshots, books,
          proofs, bundles, policies, decisions, exceptions, local, calls

given == <<plan, calls>>
evidence == <<given, artifact, extracted, canonical, frontier, snapshots>>
balances == <<books, proofs>>
policyVars == <<bundles, policies, decisions>>
domain == <<evidence, balances, policyVars, exceptions>>
manualVars == <<vars, domain, local>>

Planner == INSTANCE ReversibilityPlanner WITH Absent <- None

Ingestion == 1
Extraction == 2
CanonicalUpdate == 3
Reconciliation == 4
BalanceProof == 5
PolicyEvaluation == 6
Step8Planning == 7
ExceptionOutput == 8

ASSUME ManualAssumption == N = ExceptionOutput /\ {MaxAttempts, MaxCalls} \subseteq Nat \ {0}

\* A frontier: the source rows and the live matches, which is not null.
SourceRows == LateRows \cup UNION {p.rows : p \in Plans}
Manifests == [stable : SUBSET SourceRows, matches : SUBSET [id : Nat, pair : Pairs]]
ASSUME NullAssumption == None \notin Manifests
ASSUME PlansAssumption ==
  /\ MaxMinor \in Nat
  /\ \A p \in Plans :
       /\ PolicyInputOK(p.policyInput) /\ "suspended" \in DOMAIN p.policy
       /\ p.scope.sourceSign \in {1, -1}
       /\ {p.prior.balance, p.current.balance} \subseteq Money /\ p.current.rows \in Seq(OfxRow)

\* The values the closure of a call holds, and where its handler stands.
Nothing == [step |-> "start", ref |-> "none", reconciled |-> FALSE, balanced |-> FALSE,
            decided |-> FALSE, bundleId |-> 0, policyId |-> 0, bundle |-> None,
            policy |-> None, frozen |-> None, after |-> None, rows |-> <<>>, opening |-> None]

\* No run used the scope before.
ManualInit ==
  /\ Init
  /\ \A s \in Stages : lease[s] = NeverLeased
  /\ plan \in Plans
  /\ artifact = "retained"
  /\ extracted = FALSE
  /\ canonical = [imports |-> {}, occurrences |-> {}]
  /\ frontier = [stable |-> plan.rows, matches |-> {}, made |-> 0]
  /\ snapshots = [r \in Runs |-> [INPUT |-> None, OUTPUT |-> None]]
  /\ books = plan.books
  /\ proofs = {} /\ decisions = {} /\ exceptions = {}
  /\ bundles = <<plan.bundle>>
  /\ policies = <<plan.policy>>
  /\ local = [w \in Workers |-> Nothing]
  /\ calls = 0

----------------------------------------------------------------------------
(***************************************************************************)
(* The worker around the handlers.  A call that ends forgets its closure.  *)
(***************************************************************************)
Keep(w) == IF worker'[w] = Idle THEN Nothing
           ELSE [local[w] EXCEPT !.step = "start", !.bundle = None, !.policy = None,
                                 !.frozen = None, !.after = None, !.rows = <<>>,
                                 !.opening = None]

\* An action of the base module that is not a handler.
Around(w, action) ==
  /\ action
  /\ local' = [local EXCEPT ![w] = Keep(w)]
  /\ UNCHANGED domain

\* execute(): the artifact is loaded, which must be retained, and the bundle and
\* the snapshot for policyAudit; then the run is created or found.  All are
\* loaded at once here: a publication between the reads leaves ids that what
\* the stage loads later does not match either.
Enter(w, r) ==
  /\ CreateRun(w, r) \/ ReuseRun(w, r)
  /\ artifact = "retained"
  /\ local' = [local EXCEPT ![w] = [Nothing EXCEPT !.bundleId = Len(bundles),
                                                  !.policyId = Len(policies)]]
  /\ calls < MaxCalls /\ calls' = calls + 1
  /\ faults = 0 => \A v \in Workers : worker[v] = Idle
  /\ UNCHANGED <<plan, artifact, extracted, canonical, frontier, snapshots, balances, policyVars,
                 exceptions>>

\* resumeHydrators: what the checkpoint of stage s puts back into the closure.
Hydrated(v, s, output) ==
  CASE s = Extraction -> [v EXCEPT !.ref = output.ref]
    [] s = Reconciliation -> [v EXCEPT !.reconciled = TRUE]
    [] s = BalanceProof -> [v EXCEPT !.balanced = TRUE]
    [] s = PolicyEvaluation -> [v EXCEPT !.decided = TRUE]
    [] OTHER -> v

\* A raw fingerprint of the extraction is MALFORMED.
Resumable(w) == worker[w].at = Extraction => StageOf(w).output.ref # "raw"

Resume(w) ==
  /\ LoadSucceeded(w)
  /\ Resumable(w)
  /\ local' = [local EXCEPT ![w] = Hydrated(@, worker[w].at, StageOf(w).output)]
  /\ UNCHANGED domain

ResumeRefused(w) ==
  /\ At(w, "load")
  /\ StageOf(w).state = "SUCCEEDED"
  /\ ~Resumable(w)
  /\ Leave(w)
  /\ local' = [local EXCEPT ![w] = Nothing]
  /\ UNCHANGED <<runState, stage, attempts, lease, faults, domain>>

\* Only so many attempts are followed.
Begin(w) ==
  /\ At(w, "begin")
  /\ Cardinality(attempts[worker[w].run][worker[w].at]) < MaxAttempts
  /\ Around(w, BeginStage(w))

\* A handler at step k of stage s.
Handling(w, s, k) == At(w, "handle") /\ worker[w].at = s /\ local[w].step = k

\* The handler goes on with closure v.
Continue(w, v) ==
  /\ local' = [local EXCEPT ![w] = v]
  /\ UNCHANGED vars

\* The handler returns output, which the worker finalizes in state st.
Ends(w, st, output) ==
  worker' = [worker EXCEPT ![w].pc = "finalize", ![w].output = output,
               ![w].result = IF worker[w].prior = "NONE" THEN st ELSE worker[w].prior]

\* It succeeds, and the closure holds v.
Succeeds(w, output, v) ==
  /\ Ends(w, "SUCCEEDED", output)
  /\ local' = [local EXCEPT ![w] = v]
  /\ UNCHANGED <<runState, stage, attempts, lease, faults>>

\* It throws an error classifyShadowFailure classes as st.
Throws(w, st, code) ==
  /\ IF st = "RETRYABLE" THEN Goto(w, "retry") ELSE Ends(w, st, [reasonCode |-> code])
  /\ local' = [local EXCEPT ![w] = [@ EXCEPT !.step = "start", !.bundle = None,
                 !.policy = None, !.frozen = None, !.after = None, !.rows = <<>>,
                 !.opening = None]]
  /\ UNCHANGED <<runState, stage, attempts, lease, faults>>

\* A handler whose database or provider call fails.
Interrupted(w) ==
  /\ HandlerFails(w)
  /\ local' = [local EXCEPT ![w] = Keep(w)]
  /\ UNCHANGED domain

----------------------------------------------------------------------------
(***************************************************************************)
(* INGESTION and EXTRACTION.                                               *)
(***************************************************************************)
\* SupabaseFreshArtifactEligibility.verify, once at each of the two stages.
Ingest(w) ==
  /\ Handling(w, Ingestion, "start")
  /\ IF artifact = "retained"
     THEN Succeeds(w, [artifact |-> "ofx"], local[w])
     ELSE Throws(w, "BLOCKED", "EXTRACTION_ARTIFACT_SCOPE_OR_IDENTITY_INTEGRITY_BLOCKED")
  /\ UNCHANGED domain

Extracted(ref) == [rows |-> plan.current.rows, ref |-> ref]

VerifyArtifact(w) ==
  /\ Handling(w, Extraction, "start")
  /\ IF artifact = "retained" THEN Continue(w, [local[w] EXCEPT !.step = "find"])
     ELSE Throws(w, "BLOCKED", "EXTRACTION_ARTIFACT_SCOPE_OR_HASH_INTEGRITY_BLOCKED")
  /\ UNCHANGED domain

\* find compares a bytea column with hexadecimal digits; where that matches,
\* the fingerprint comes back as the database writes it.
FindExtraction(w) ==
  /\ Handling(w, Extraction, "find")
  /\ \/ Continue(w, [local[w] EXCEPT !.step = "record"])
     \/ /\ extracted
        /\ Succeeds(w, Extracted("raw"), [local[w] EXCEPT !.ref = "raw", !.step = "start"])
  /\ UNCHANGED domain

\* record_shadow_extraction_result_v1: the first output of a key stands, and
\* parsing the same statement gives the same output.
RecordExtraction(w) ==
  /\ Handling(w, Extraction, "record")
  /\ IF HoldsFence(w)
     THEN /\ extracted' = TRUE
          /\ Succeeds(w, Extracted("hex"), [local[w] EXCEPT !.ref = "hex", !.step = "start"])
     ELSE Throws(w, "RETRYABLE", "SHADOW_EXTRACTION_RECORD_FAILED") /\ UNCHANGED extracted
  /\ UNCHANGED <<given, artifact, canonical, frontier, snapshots, balances, policyVars, exceptions>>

----------------------------------------------------------------------------
(***************************************************************************)
(* CANONICAL_UPDATE: the adapter starts an import, keyed by its input, and *)
(* ingests one observation after the other; all of it may be repeated.     *)
(***************************************************************************)
\* canonicalObservations
Mappable(rows) == rows # <<>> /\ \A k \in DOMAIN rows : rows[k].fitId # ""

StartImport(w) ==
  /\ Handling(w, CanonicalUpdate, "start")
  /\ IF Mappable(plan.current.rows)
     THEN /\ canonical' = [canonical EXCEPT !.imports = @ \cup {local[w].ref}]
          /\ Continue(w, [local[w] EXCEPT !.step = "observe", !.rows = plan.current.rows])
     ELSE /\ Throws(w, "REVIEW_REQUIRED", "CANONICAL_MAPPING_REVIEW_REQUIRED")
          /\ UNCHANGED canonical
  /\ UNCHANGED <<given, artifact, extracted, frontier, snapshots, balances, policyVars, exceptions>>

\* ingest_financial_observation_v1 of one row: an observation is identified by
\* its FITID (another row of that FITID is a revision of it), an occurrence by
\* its import and its place in the statement.
Observe(w) ==
  LET rest == Tail(local[w].rows)
      seen == [import |-> local[w].ref, row |-> Len(plan.current.rows) - Len(rest),
               fitId |-> Head(local[w].rows).fitId] IN
  /\ Handling(w, CanonicalUpdate, "observe")
  /\ canonical' = [canonical EXCEPT !.occurrences = @ \cup {seen}]
  /\ IF rest # <<>> THEN Continue(w, [local[w] EXCEPT !.rows = rest])
     ELSE Succeeds(w, [import |-> local[w].ref], [local[w] EXCEPT !.step = "start", !.rows = <<>>])
  /\ UNCHANGED <<given, artifact, extracted, frontier, snapshots, balances, policyVars, exceptions>>

----------------------------------------------------------------------------
(***************************************************************************)
(* RECONCILIATION: ShadowReconciliationAdapter.reconcile.                  *)
(***************************************************************************)
Manifest == [stable |-> frontier.stable, matches |-> frontier.matches]

FreezeFrontier(w) ==
  /\ Handling(w, Reconciliation, "start")
  /\ Continue(w, [local[w] EXCEPT !.step = "input", !.frozen = Manifest])
  /\ UNCHANGED domain

\* record_shadow_reconciliation_snapshot_v1: one snapshot per run, statement
\* and role, and a second one must be the same.
\* Bug: what the first attempt recorded is not compared.
Bug_FirstSnapshotStands(w, role, manifest) == HoldsFence(w)

SnapshotStands(w, role, manifest) ==
  HoldsFence(w) /\ snapshots[worker[w].run][role] \in {None, manifest}

SetSnapshot(w, role, manifest) ==
  snapshots' = IF snapshots[worker[w].run][role] = None
               THEN [snapshots EXCEPT ![worker[w].run][role] = manifest] ELSE snapshots

RecordInput(w) ==
  /\ Handling(w, Reconciliation, "input")
  /\ IF SnapshotStands(w, "INPUT", local[w].frozen)
     THEN /\ SetSnapshot(w, "INPUT", local[w].frozen)
          /\ Continue(w, [local[w] EXCEPT !.step = "compute"])
     ELSE /\ Throws(w, "RETRYABLE", "SHADOW_RECONCILIATION_SNAPSHOT_FAILED")
          /\ UNCHANGED snapshots
  /\ UNCHANGED <<given, artifact, extracted, canonical, frontier, balances, policyVars, exceptions>>

\* computeAndPersistMatches, as one step: live matches are kept and the lines
\* without one are matched.  MatchClaims models what happens inside.
Unmatched ==
  {p \in Pairs : /\ {p.line, p.row} \subseteq frontier.stable
                 /\ \A m \in frontier.matches : m.pair # p}

ComputeMatches(w) ==
  /\ Handling(w, Reconciliation, "compute")
  /\ frontier' = [frontier EXCEPT
       !.matches = @ \cup {[id |-> frontier.made, pair |-> p] : p \in Unmatched},
       !.made = IF Unmatched = {} THEN @ ELSE @ + 1]
  /\ Continue(w, [local[w] EXCEPT !.step = "after"])
  /\ UNCHANGED <<given, artifact, extracted, canonical, snapshots, balances, policyVars, exceptions>>

LoadOutput(w) ==
  /\ Handling(w, Reconciliation, "after")
  /\ IF frontier.stable = local[w].frozen.stable
     THEN Continue(w, [local[w] EXCEPT !.step = "output", !.after = Manifest])
     ELSE Throws(w, "UNCERTAIN", "RECONCILIATION_FRONTIER_DRIFT_UNCERTAIN")
  /\ UNCHANGED domain

RecordOutput(w) ==
  /\ Handling(w, Reconciliation, "output")
  /\ IF SnapshotStands(w, "OUTPUT", local[w].after)
     THEN /\ SetSnapshot(w, "OUTPUT", local[w].after)
          /\ Succeeds(w, [inputMembers |-> local[w].frozen, outputMembers |-> local[w].after],
                      [local[w] EXCEPT !.step = "start", !.frozen = None, !.after = None,
                                       !.reconciled = TRUE])
     ELSE /\ Throws(w, "RETRYABLE", "SHADOW_RECONCILIATION_SNAPSHOT_FAILED")
          /\ UNCHANGED snapshots
  /\ UNCHANGED <<given, artifact, extracted, canonical, frontier, balances, policyVars, exceptions>>

----------------------------------------------------------------------------
(***************************************************************************)
(* BALANCE_PROOF.  QuickBooks answers three reports, one after the other,  *)
(* from what is posted when it is asked; its answers are external.         *)
(***************************************************************************)
GeneralLedger ==
  [header |-> plan.report.header, columns |-> plan.report.columns, sections |-> 1,
   rows |-> SelectSeq(books, LAMBDA p : InPeriod(p.day))]

TrialBalance(cutoff) ==
  LET total == SumAt(books, {k \in DOMAIN books : books[k].day <= cutoff}) IN
  [header |-> plan.report.header, matches |-> plan.report.matches,
   debit |-> IF total > 0 THEN Text(total) ELSE NoText,
   credit |-> IF total < 0 THEN Text(-total) ELSE NoText]

\* The statements are read from the artifacts meanwhile; an error of either
\* reader is one of its messages, which classifyShadowFailure retries.
ReadLedger(w) ==
  /\ Handling(w, BalanceProof, "start")
  /\ IF OfxRefused(plan.prior, plan.current, plan.scope)
     THEN Throws(w, "RETRYABLE", "OFX account does not match the frozen source account")
     ELSE Continue(w, [local[w] EXCEPT !.step = "opening", !.after = GeneralLedger])
  /\ UNCHANGED domain

ReadOpening(w) ==
  /\ Handling(w, BalanceProof, "opening")
  /\ Continue(w, [local[w] EXCEPT !.step = "closing", !.opening = TrialBalance(PeriodStart - 1)])
  /\ UNCHANGED domain

\* record_balance_reconciliation_shadow_v1: the same evidence is proved once.
\* Whatever the verdict, the stage succeeds.
ReadClosing(w) ==
  LET opening == local[w].opening
      closing == TrialBalance(PeriodEnd)
      source == OfxEvidence(plan.prior, plan.current, plan.scope)
      ledger == LedgerEvidence(local[w].after, opening, closing, plan.scope)
      verdict == BalanceVerdict(source, ledger) IN
  /\ Handling(w, BalanceProof, "closing")
  /\ IF TrialBalanceRefused(opening) \/ TrialBalanceRefused(closing)
     THEN /\ Throws(w, "RETRYABLE", "Trial Balance does not prove the exact cutoff")
          /\ UNCHANGED proofs
     ELSE /\ proofs' = proofs \cup {[source |-> source, ledger |-> ledger, state |-> verdict]}
          /\ Succeeds(w, [state |-> verdict],
                      [local[w] EXCEPT !.step = "start", !.after = None, !.opening = None,
                                       !.balanced = TRUE])
  /\ UNCHANGED <<evidence, books, policyVars, exceptions>>

----------------------------------------------------------------------------
(***************************************************************************)
(* POLICY_EVALUATION: the assembler loads the bundle and the snapshot, in  *)
(* two reads of which either may come first, then evaluateAndRecord.       *)
(***************************************************************************)
LoadBundle(w) ==
  /\ Handling(w, PolicyEvaluation, "start")
  /\ local[w].bundle = None
  /\ Continue(w, [local[w] EXCEPT !.bundle = bundles[Len(bundles)]])
  /\ UNCHANGED domain

LoadPolicy(w) ==
  /\ Handling(w, PolicyEvaluation, "start")
  /\ local[w].policy = None
  /\ Continue(w, [local[w] EXCEPT !.policy = policies[Len(policies)]])
  /\ UNCHANGED domain

\* The integrity checks of assemble(): a snapshot is bound to one bundle.
Assembled(w) == local[w].bundle # None /\ local[w].policy # None

\* CLIENT_POLICY_SNAPSHOT_INTEGRITY_BLOCKED has no decision, so the worker
\* throws INVALID_STEP7_OBSERVATION and leaves the stage RUNNING.
PolicyUnbound(w) ==
  /\ Handling(w, PolicyEvaluation, "start")
  /\ Assembled(w)
  /\ local[w].policy.boundTo # local[w].bundle
  /\ Leave(w)
  /\ local' = [local EXCEPT ![w] = Nothing]
  /\ UNCHANGED <<runState, stage, attempts, lease, faults, domain>>

\* Bug: the snapshot the decision names is not compared with the one evaluated.
Bug_AnySnapshot(w) == bundles[local[w].bundleId] = local[w].bundle

\* record_autonomy_policy_decision_v1: the ids loaded before the run began
\* must be those of the bundle and the snapshot that were evaluated.
AuditMatches(w) ==
  /\ bundles[local[w].bundleId] = local[w].bundle
  /\ policies[local[w].policyId] = local[w].policy

RecordDecision(w) ==
  LET v == local[w]
      input == Canonicalize(plan.policyInput)
      decision == Evaluate(v.bundle, v.policy, input)
      row == [bundleId |-> v.bundleId, policyId |-> v.policyId, bundle |-> v.bundle,
              policy |-> v.policy, input |-> input.input, decision |-> decision] IN
  /\ Handling(w, PolicyEvaluation, "start")
  /\ Assembled(w)
  /\ v.policy.boundTo = v.bundle
  /\ IF AuditMatches(w)
     THEN /\ decisions' = decisions \cup {row}
          /\ Ends(w, CASE decision = "ALLOW" -> "SUCCEEDED" [] decision = "DENY" -> "BLOCKED"
                       [] OTHER -> "REVIEW_REQUIRED",
                  [decision |-> decision])
          /\ local' = [local EXCEPT ![w] = [v EXCEPT !.bundle = None, !.policy = None,
                                                     !.decided = TRUE]]
          /\ UNCHANGED <<runState, stage, attempts, lease, faults>>
     ELSE /\ Throws(w, "RETRYABLE", "Autonomy policy decision persistence failed")
          /\ UNCHANGED decisions
  /\ UNCHANGED <<evidence, balances, bundles, policies, exceptions>>

----------------------------------------------------------------------------
(***************************************************************************)
(* STEP8_PLANNING and EXCEPTION_OUTPUT.                                    *)
(***************************************************************************)
\* A plan needs what the stages before it put into the closure.
PlanCorrection(w) ==
  LET verdict == Planner!PlanReversibility(plan.planningInput)
      known == local[w].ref # "none" /\ local[w].reconciled /\ local[w].balanced
                 /\ local[w].decided IN
  /\ Handling(w, Step8Planning, "start")
  /\ IF known
     THEN /\ Ends(w, CASE verdict.decision = "SAFE_METHOD" -> "SUCCEEDED"
                       [] verdict.decision = "REVIEW" -> "REVIEW_REQUIRED"
                       [] OTHER -> "FAILED_SAFE", verdict)
          /\ UNCHANGED <<runState, stage, attempts, lease, faults, local>>
     ELSE Throws(w, "RETRYABLE", "STEP8_DEPENDENCIES_MISSING_BLOCKED")
  /\ UNCHANGED domain

\* record_shadow_exception_v1 asks for no fence: one exception per run, stage
\* and reason.
RecordException(w) ==
  /\ Handling(w, ExceptionOutput, "start")
  /\ exceptions' = IF worker[w].prior = "NONE" THEN exceptions
                   ELSE exceptions \cup {[run |-> worker[w].run, reasonCode |-> worker[w].prior]}
  /\ Succeeds(w, [emitted |-> worker[w].prior # "NONE"], local[w])
  /\ UNCHANGED <<evidence, balances, policyVars>>

----------------------------------------------------------------------------
(***************************************************************************)
(* The environment, each of whose steps counts as an interference.         *)
(***************************************************************************)
Disturb == Fault /\ UNCHANGED <<runState, stage, attempts, lease, worker, local>>

ArchiveArtifact ==
  /\ Disturb
  /\ artifact = "retained" /\ artifact' = "archived"
  /\ UNCHANGED <<given, extracted, canonical, frontier, snapshots, balances, policyVars, exceptions>>

ImportArrives ==
  /\ Disturb
  /\ \E x \in LateRows \ frontier.stable :
       frontier' = [frontier EXCEPT !.stable = @ \cup {x}]
  /\ UNCHANGED <<given, artifact, extracted, canonical, snapshots, balances, policyVars, exceptions>>

MatchRejected ==
  /\ Disturb
  /\ \E x \in frontier.matches : frontier' = [frontier EXCEPT !.matches = @ \ {x}]
  /\ UNCHANGED <<given, artifact, extracted, canonical, snapshots, balances, policyVars, exceptions>>

BookkeeperPosts ==
  /\ Disturb
  /\ \E p \in Postings : books' = Append(books, p)
  /\ UNCHANGED <<evidence, proofs, policyVars, exceptions>>

\* publish_autonomy_policy_bundle_v1: a version is published once.
PublishBundle ==
  /\ Disturb
  /\ bundles' = Append(bundles, [policyVersion |-> "a later version"])
  /\ \A k \in DOMAIN bundles : bundles[k] # bundles'[Len(bundles')]
  /\ UNCHANGED <<evidence, balances, policies, decisions, exceptions>>

\* record_client_policy_snapshot_v1, for the bundle published last.
RecordPolicy ==
  /\ Disturb
  /\ \E suspended \in BOOLEAN :
       policies' = Append(policies,
         [policies[Len(policies)] EXCEPT !.snapshotVersion = @ + 1, !.suspended = suspended,
            !.boundTo = bundles[Len(bundles)],
            !.policyVersion = bundles[Len(bundles)].policyVersion])
  /\ UNCHANGED <<evidence, balances, bundles, decisions, exceptions>>

\* A lease is only looked at by a call at its stage: it runs out when one is.
LeaseRunsOut(s) ==
  /\ \E w \in Workers : /\ worker[w].run # NoRun /\ worker[w].at = s
                        /\ worker[w].pc # "load"
  /\ LeaseExpires(s)
  /\ UNCHANGED <<domain, local>>

Handler(w) ==
  \/ Ingest(w) \/ VerifyArtifact(w) \/ FindExtraction(w) \/ RecordExtraction(w)
  \/ StartImport(w) \/ Observe(w)
  \/ FreezeFrontier(w) \/ RecordInput(w) \/ ComputeMatches(w) \/ LoadOutput(w) \/ RecordOutput(w)
  \/ ReadLedger(w) \/ ReadOpening(w) \/ ReadClosing(w)
  \/ LoadBundle(w) \/ LoadPolicy(w) \/ PolicyUnbound(w) \/ RecordDecision(w)
  \/ PlanCorrection(w) \/ RecordException(w)

Environment ==
  \/ ArchiveArtifact \/ ImportArrives \/ MatchRejected \/ BookkeeperPosts
  \/ PublishBundle \/ RecordPolicy

ManualNext ==
  \/ \E w \in Workers :
       \/ \E r \in Runs : Enter(w, r)
       \/ Resume(w) \/ ResumeRefused(w)
       \/ Around(w, LoadNothing(w)) \/ Around(w, LoadRefused(w))
       \/ Begin(w) \/ Around(w, BeginRefused(w))
       \/ Handler(w) \/ Interrupted(w)
       \/ Around(w, FinalizeStage(w)) \/ Around(w, MarkRetryable(w))
       \/ Around(w, PersistRefused(w)) \/ Around(w, Crash(w))
  \/ \E s \in Stages : LeaseRunsOut(s)
  \/ Environment

ManualSpec == ManualInit /\ [][ManualNext]_manualVars

----------------------------------------------------------------------------
(***************************************************************************)
(* Correctness.                                                            *)
(***************************************************************************)

\* What the RECONCILIATION stage of a run commits is what its two immutable
\* snapshots say, and no source row came or went in between, through retries,
\* workers that were replaced and imports that arrive meanwhile.
FrozenFrontier ==
  \A r \in Runs : stage[r][Reconciliation].state = "SUCCEEDED" =>
    LET committed == stage[r][Reconciliation].output IN
    /\ committed.inputMembers = snapshots[r].INPUT
    /\ committed.outputMembers = snapshots[r].OUTPUT
    /\ committed.inputMembers.stable = committed.outputMembers.stable

\* A stored decision names, by id, the very bundle and snapshot it was taken
\* under, although the ids are loaded before the run and the artifacts when
\* the stage runs (record_autonomy_policy_decision_v1).
AuditNamesArtifacts ==
  \A d \in decisions :
    /\ bundles[d.bundleId] = d.bundle
    /\ policies[d.policyId] = d.policy
    /\ d.policy.boundTo = d.bundle

\* The rows of the current statement add up to what its balances say: each
\* one has a FITID of its own, lies in the period and reads.
StatementProves(prior, current) ==
  LET rows == current.rows IN
  /\ \A k \in DOMAIN rows : InPeriod(rows[k].day) /\ Readable(rows[k].amount)
  /\ \A j, k \in DOMAIN rows : j # k => rows[j].fitId # rows[k].fitId
  /\ prior.balance.minor + SumAt(rows, DOMAIN rows) = current.balance.minor
  /\ {prior.asOf, prior.end} = {PeriodStart - 1}
  /\ {current.asOf, current.end} = {PeriodEnd}

\* RECONCILED is said only of a statement that proves its own balances and of
\* a ledger that shows both, however the books changed between the reports.
ReconciledIsProven ==
  \A p \in proofs : p.state = "RECONCILED" =>
    /\ StatementProves(plan.prior, plan.current)
    /\ p.ledger.opening = plan.scope.sourceSign * plan.prior.balance.minor
    /\ p.ledger.closing = plan.scope.sourceSign * plan.current.balance.minor
    /\ p.ledger.opening + p.ledger.movement = p.ledger.closing

\* Each input that says less than i about one fact, or asks for more than limit.
Weaker(i, limit) ==
  {[i EXCEPT !.client.active = FALSE],
   [i EXCEPT !.action.claimedActionFingerprint = None],
   [i EXCEPT !.evidence.quality = "ACCEPTABLE"],
   [i EXCEPT !.evidence.completeness = "CONFLICTED"],
   [i EXCEPT !.evidence.facts = <<>>],
   [i EXCEPT !.evidence.facts[1].verified = FALSE],
   [i EXCEPT !.evidence.facts[1].verifiedSha256 = None],
   [i EXCEPT !.confidence = <<>>],
   [i EXCEPT !.confidence[1].basisPoints = Profile[i.action.actionType].minimumConfidence - 1],
   [i EXCEPT !.confidence[1].provenance = "MODEL"],
   [i EXCEPT !.reversibility = "UNKNOWN"],
   [i EXCEPT !.riskFlags = <<[code |-> "NEW_COUNTERPARTY", severity |-> "REVIEW"]>>],
   [i EXCEPT !.humanAuthorization.state = "EXPIRED"],
   [i EXCEPT !.humanAuthorization.authorizedActionFingerprint = None],
   [i EXCEPT !.humanAuthorization.authorizedLedgerBookId = None],
   [i EXCEPT !.modelProposedPermission = "ALLOW"]}
  \cup IF i.action.actionType # "CREATE_BILL"
       THEN {[i EXCEPT !.profileFacts.existingVendorMatch = "AMBIGUOUS"]}
       ELSE {[i EXCEPT !.amount.amountMinor = {Only(limit) + 1}],
             [i EXCEPT !.amount.dailyAggregateBeforeMinor = {}],
             [i EXCEPT !.accountTreatment.mappingId = None],
             [i EXCEPT !.taxTreatment.verified = FALSE],
             [i EXCEPT !.history.priorVerifiedActions = 2],
             [i EXCEPT !.history.hasCorrectionsOrReversals = TRUE],
             [i EXCEPT !.profileFacts.duplicateCheck = "INCOMPLETE"],
             [i EXCEPT !.profileFacts.vendorBindingVerified = FALSE]}

\* ALLOW is stored only when every fact was there: taken for any input that
\* says less, or under a suspended policy, the decision would have been
\* another one.
NeedsEveryFact(d) ==
  /\ \A i \in Weaker(d.input, d.policy.maxSingleActionAmountMinor) :
       Evaluate(d.bundle, d.policy, Canonicalize(i)) # "ALLOW"
  /\ Evaluate(d.bundle, [d.policy EXCEPT !.suspended = TRUE], Canonicalize(d.input)) # "ALLOW"

AllowNeedsEveryFact ==
  [][\A d \in decisions' \ decisions : d.decision = "ALLOW" => NeedsEveryFact(d)]_decisions
=============================================================================
