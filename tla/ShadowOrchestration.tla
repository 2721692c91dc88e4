------------------------- MODULE ShadowOrchestration -------------------------
(***************************************************************************)
(* Shadow orchestration: the procedures of migration 034 and the loop of   *)
(* ShadowOrchestrationWorker.run.  Workers carry runs through the stages   *)
(* 1..N in order; the last stage is EXCEPTION_OUTPUT.  All runs belong to  *)
(* one client and one ledger book, so they compete for one lease per       *)
(* stage.  A worker may stop between any two awaits, and may be so slow    *)
(* that its lease expires while it still computes.                         *)
(*                                                                         *)
(*   runState shadow_orchestration_runs.state                              *)
(*   stage    shadow_orchestration_stages: state, input and output         *)
(*            fingerprint of each stage of each run                        *)
(*   attempts shadow_orchestration_stage_attempts of each stage            *)
(*   lease    shadow_orchestration_leases of each stage                    *)
(*   worker   the local variables of each call of run()                    *)
(*   faults   how often the environment interfered, to bound it            *)
(*                                                                         *)
(* renew_shadow_stage_lease_v1 extends a lease that is live, which changes *)
(* nothing here; no worker calls it.                                       *)
(***************************************************************************)
EXTENDS Naturals, FiniteSets, Sequences

CONSTANTS
  Runs,        \* shadow runs, by run key
  Workers,     \* concurrent calls of ShadowOrchestrationWorker.run
  N,           \* number of stages, eight in SHADOW_STAGES
  Outputs,     \* fingerprints of what a stage handler may compute
  Outcomes,    \* states a stage handler may end in
  NoRun, NoOutput, NoWorker,
  MaxFaults    \* bound on crashes, transient failures and overrun leases

Terminal == {"SUCCEEDED", "FAILED_SAFE", "REVIEW_REQUIRED", "BLOCKED",
             "UNCERTAIN", "CANCELLED"}
ShadowStates == Terminal \cup {"PENDING", "RUNNING", "RETRYABLE"}

ASSUME ConstantsAssumption ==
  /\ N \in Nat \ {0}
  /\ MaxFaults \in Nat
  /\ NoRun \notin Runs /\ NoOutput \notin Outputs /\ NoWorker \notin Workers
  \* CANCELLED is not a state that RUNNING may lead to.
  /\ Outcomes \subseteq Terminal \ {"CANCELLED"}

VARIABLES runState, stage, attempts, lease, worker, faults

vars == <<runState, stage, attempts, lease, worker, faults>>

Stages == 1..N

\* step9_shadow_transition_allowed_v1
Allowed(from, to) ==
  CASE from = "PENDING" -> to \in {"RUNNING", "CANCELLED", "BLOCKED"}
    [] from = "RUNNING" -> to \in (Terminal \ {"CANCELLED"}) \cup {"RETRYABLE"}
    [] from = "RETRYABLE" -> to \in (Terminal \ {"SUCCEEDED"}) \cup {"RUNNING"}
    [] OTHER -> FALSE

\* step9_shadow_run_rollup_v1: the first of these that occurs.
Precedence == <<"UNCERTAIN", "BLOCKED", "REVIEW_REQUIRED", "RETRYABLE",
                "FAILED_SAFE", "SUCCEEDED", "RUNNING", "PENDING", "CANCELLED">>
Rollup(states) ==
  Precedence[CHOOSE i \in DOMAIN Precedence :
               /\ Precedence[i] \in states
               /\ \A j \in 1..(i - 1) : Precedence[j] \notin states]

StageRow == [state : ShadowStates \cup {"ABSENT"},
             input : Outputs \cup {NoOutput}, output : Outputs \cup {NoOutput}]
Attempt == [fence : Nat \ {0}, owner : Workers, state : ShadowStates]
Lease == [owner : Workers \cup {NoWorker}, fence : Nat, live : BOOLEAN]

\* dep is dependencyFingerprint, prior is priorTerminalOutcome, result the
\* state and output a handler ended with.
Points == {"idle", "load", "begin", "handle", "finalize", "retry"}
Call == [pc : Points, run : Runs \cup {NoRun}, at : Stages, reused : BOOLEAN,
         dep : Outputs \cup {NoOutput}, prior : Terminal \cup {"NONE"}, fence : Nat,
         result : Terminal \cup {"NONE"}, output : Outputs \cup {NoOutput}]
Idle == [pc |-> "idle", run |-> NoRun, at |-> 1, reused |-> FALSE, dep |-> NoOutput,
         prior |-> "NONE", fence |-> 0, result |-> "NONE", output |-> NoOutput]

\* The leases of a scope no run has used, and of one whose last run has just
\* been closed: a run that succeeds gives no lease back.
NeverLeased == [owner |-> NoWorker, fence |-> 0, live |-> FALSE]
LeftLive == [owner |-> NoWorker, fence |-> 1, live |-> TRUE]

TypeOK ==
  /\ runState \in [Runs -> ShadowStates \cup {"ABSENT"}]
  /\ stage \in [Runs -> [Stages -> StageRow]]
  /\ attempts \in [Runs -> [Stages -> SUBSET Attempt]]
  /\ lease \in [Stages -> Lease]
  /\ worker \in [Workers -> Call]
  /\ faults \in 0..MaxFaults

Init ==
  /\ runState = [r \in Runs |-> "ABSENT"]
  /\ stage = [r \in Runs |-> [s \in Stages |->
                [state |-> "ABSENT", input |-> NoOutput, output |-> NoOutput]]]
  /\ attempts = [r \in Runs |-> [s \in Stages |-> {}]]
  /\ \E left \in {NeverLeased, LeftLive} : lease = [s \in Stages |-> left]
  /\ worker = [w \in Workers |-> Idle]
  /\ faults = 0

----------------------------------------------------------------------------
(***************************************************************************)
(* Helpers.                                                                *)
(***************************************************************************)
At(w, pc) == worker[w].pc = pc
StageOf(w) == stage[worker[w].run][worker[w].at]

Running(r, s) == {a \in attempts[r][s] : a.state = "RUNNING"}

\* The attempts of a stage once the one that runs is given up.
Abandoned(r, s) ==
  {IF a.state = "RUNNING" THEN [a EXCEPT !.state = "RETRYABLE"] ELSE a :
     a \in attempts[r][s]}

\* The worker's own attempt ended in state st.
OwnEnded(w, st) ==
  {IF a.fence = worker[w].fence THEN [a EXCEPT !.state = st] ELSE a :
     a \in attempts[worker[w].run][worker[w].at]}

SetStage(w, row) == stage' = [stage EXCEPT ![worker[w].run][worker[w].at] = row]
SetAttempts(w, as) == attempts' = [attempts EXCEPT ![worker[w].run][worker[w].at] = as]
SetRun(w, st) == runState' = [runState EXCEPT ![worker[w].run] = st]
Goto(w, pc) == worker' = [worker EXCEPT ![w].pc = pc]

\* run() returns or throws.
Leave(w) == worker' = [worker EXCEPT ![w] = Idle]

\* The loop goes on after stage s ended in state st with output x: a stage
\* that did not succeed skips to EXCEPTION_OUTPUT, the last stage ends it.
Advance(w, st, x) ==
  LET prior == IF st = "SUCCEEDED" THEN worker[w].prior ELSE st IN
  IF worker[w].at = N THEN Leave(w)
  ELSE worker' = [worker EXCEPT ![w] =
         [Idle EXCEPT !.pc = IF worker[w].reused THEN "load" ELSE "begin",
                      !.run = worker[w].run,
                      !.at = IF prior = "NONE" THEN worker[w].at + 1 ELSE N,
                      !.reused = worker[w].reused, !.dep = x, !.prior = prior]]

Fault == faults < MaxFaults /\ faults' = faults + 1

\* Bug: only the state of the stage is checked.
Bug_IgnoreFence(w) == StageOf(w).state = "RUNNING"

\* The checks of mark_shadow_stage_retryable_v1 and
\* finalize_shadow_stage_attempt_v1 that refuse a stale fence or attempt.
HoldsFence(w) ==
  /\ lease[worker[w].at] = [owner |-> w, fence |-> worker[w].fence, live |-> TRUE]
  /\ StageOf(w).state = "RUNNING"
  /\ \E a \in Running(worker[w].run, worker[w].at) :
       a.owner = w /\ a.fence = worker[w].fence

----------------------------------------------------------------------------
(***************************************************************************)
(* createOrReuseRun: claim_shadow_orchestration_run_v1.  A terminal run is *)
(* returned as it is.                                                      *)
(***************************************************************************)
CreateRun(w, r) ==
  /\ At(w, "idle")
  /\ runState[r] = "ABSENT"
  /\ runState' = [runState EXCEPT ![r] = "PENDING"]
  /\ worker' = [worker EXCEPT ![w] = [Idle EXCEPT !.pc = "begin", !.run = r]]
  /\ UNCHANGED <<stage, attempts, lease, faults>>

ReuseRun(w, r) ==
  /\ At(w, "idle")
  /\ runState[r] \notin Terminal \cup {"ABSENT"}
  /\ worker' = [worker EXCEPT ![w] =
       [Idle EXCEPT !.pc = "load", !.run = r, !.reused = TRUE]]
  /\ UNCHANGED <<runState, stage, attempts, lease, faults>>

----------------------------------------------------------------------------
(***************************************************************************)
(* loadSucceededStage: a resumed run skips what already succeeded.         *)
(***************************************************************************)
\* Bug: a stage that is skipped does not set dependencyFingerprint.
Bug_KeepDependency(w) ==
  /\ At(w, "load")
  /\ StageOf(w).state = "SUCCEEDED"
  /\ StageOf(w).input = worker[w].dep
  /\ Advance(w, "SUCCEEDED", worker[w].dep)
  /\ UNCHANGED <<runState, stage, attempts, lease, faults>>

LoadSucceeded(w) ==
  /\ At(w, "load")
  /\ StageOf(w).state = "SUCCEEDED"
  /\ StageOf(w).input = worker[w].dep
  /\ Advance(w, "SUCCEEDED", StageOf(w).output)
  /\ UNCHANGED <<runState, stage, attempts, lease, faults>>

LoadNothing(w) ==
  /\ At(w, "load")
  /\ StageOf(w).state \notin Terminal
  /\ Goto(w, "begin")
  /\ UNCHANGED <<runState, stage, attempts, lease, faults>>

\* SHADOW_RESUME_COMPLETED_STAGE_NOT_SUCCEEDED, or an input that is not the
\* one the stage was started with.
LoadRefused(w) ==
  /\ At(w, "load")
  /\ StageOf(w).state \in Terminal
  /\ StageOf(w).state # "SUCCEEDED" \/ StageOf(w).input # worker[w].dep
  /\ Leave(w)
  /\ UNCHANGED <<runState, stage, attempts, lease, faults>>

----------------------------------------------------------------------------
(***************************************************************************)
(* beginStage: claim_shadow_stage_v1, which takes the lease and starts an  *)
(* attempt in one transaction.                                             *)
(***************************************************************************)
\* Bug: only a stage marked RETRYABLE is started again.
Bug_OnlyMarked(w) ==
  LET r == worker[w].run
      s == worker[w].at IN
  /\ ~lease[s].live
  /\ runState[r] \notin Terminal
  /\ \/ StageOf(w).state = "ABSENT"
     \/ StageOf(w).state = "RETRYABLE" /\ StageOf(w).input = worker[w].dep
  /\ s \notin {1, N} => stage[r][s - 1].state = "SUCCEEDED"

Startable(w) ==
  LET r == worker[w].run
      s == worker[w].at IN
  /\ ~lease[s].live
  /\ runState[r] \notin Terminal
  /\ \/ StageOf(w).state = "ABSENT"
     \/ StageOf(w).state \in {"RUNNING", "RETRYABLE"} /\ StageOf(w).input = worker[w].dep
  /\ s \notin {1, N} => stage[r][s - 1].state = "SUCCEEDED"

\* An attempt abandoned with an expired lease becomes RETRYABLE.
BeginStage(w) ==
  LET r == worker[w].run
      s == worker[w].at
      fence == lease[s].fence + 1 IN
  /\ At(w, "begin")
  /\ Startable(w)
  /\ lease' = [lease EXCEPT ![s] = [owner |-> w, fence |-> fence, live |-> TRUE]]
  /\ SetAttempts(w, Abandoned(r, s)
                      \cup {[fence |-> fence, owner |-> w, state |-> "RUNNING"]})
  /\ SetStage(w, [state |-> "RUNNING", input |-> worker[w].dep, output |-> NoOutput])
  /\ SetRun(w, "RUNNING")
  /\ worker' = [worker EXCEPT ![w].pc = "handle", ![w].fence = fence]
  /\ UNCHANGED faults

BeginRefused(w) ==
  /\ At(w, "begin")
  /\ ~Startable(w)
  /\ Leave(w)
  /\ UNCHANGED <<runState, stage, attempts, lease, faults>>

----------------------------------------------------------------------------
(***************************************************************************)
(* The stage handler and the persistence of what it ended with.            *)
(***************************************************************************)

\* The result of the handler, its failure as classifyShadowFailure classes
\* it, or the observation of policy or planning; EXCEPTION_OUTPUT reports
\* the outcome of the stage that stopped the run.
HandlerEnds(w) ==
  /\ At(w, "handle")
  /\ \E x \in Outputs, st \in Outcomes :
       /\ worker[w].at = N => st = "SUCCEEDED"
       /\ worker' = [worker EXCEPT ![w].pc = "finalize", ![w].output = x,
            ![w].result = IF worker[w].prior = "NONE" THEN st ELSE worker[w].prior]
  /\ UNCHANGED <<runState, stage, attempts, lease, faults>>

\* A failure classed RETRYABLE, and any failure of EXCEPTION_OUTPUT.
HandlerFails(w) ==
  /\ At(w, "handle")
  /\ Fault
  /\ Goto(w, "retry")
  /\ UNCHANGED <<runState, stage, attempts, lease>>

\* Bug: the run takes the state the handler of EXCEPTION_OUTPUT ended in.
Bug_RunOwnVerdict(r, st) == "SUCCEEDED"

\* The verdict of the run once EXCEPTION_OUTPUT ends in st.
RunVerdict(r, st) ==
  Rollup({stage[r][s].state : s \in {t \in 1..(N - 1) : stage[r][t].state # "ABSENT"}}
           \cup {st})

\* finalize_shadow_stage_attempt_v1.  EXCEPTION_OUTPUT waits for no active
\* stage and closes the run.  The lease is not released.
Finalizable(w) ==
  /\ HoldsFence(w)
  /\ worker[w].at = N =>
       /\ \A s \in 1..(N - 1) :
            stage[worker[w].run][s].state \notin {"PENDING", "RUNNING", "RETRYABLE"}
       /\ Allowed(runState[worker[w].run], RunVerdict(worker[w].run, worker[w].result))

FinalizeStage(w) ==
  LET r == worker[w].run
      st == worker[w].result IN
  /\ At(w, "finalize")
  /\ Finalizable(w)
  /\ SetAttempts(w, OwnEnded(w, st))
  /\ SetStage(w, [StageOf(w) EXCEPT !.state = st, !.output = worker[w].output])
  /\ IF worker[w].at = N
     THEN SetRun(w, RunVerdict(r, st))
     ELSE UNCHANGED runState
  /\ Advance(w, st, worker[w].output)
  /\ UNCHANGED <<lease, faults>>

\* mark_shadow_stage_retryable_v1 releases the lease; run() then throws.
MarkRetryable(w) ==
  /\ At(w, "retry")
  /\ HoldsFence(w)
  /\ SetAttempts(w, OwnEnded(w, "RETRYABLE"))
  /\ SetStage(w, [StageOf(w) EXCEPT !.state = "RETRYABLE"])
  /\ SetRun(w, "RETRYABLE")
  /\ lease' = [lease EXCEPT ![worker[w].at].live = FALSE]
  /\ Leave(w)
  /\ UNCHANGED faults

PersistRefused(w) ==
  /\ \/ At(w, "finalize") /\ ~Finalizable(w)
     \/ At(w, "retry") /\ ~HoldsFence(w)
  /\ Leave(w)
  /\ UNCHANGED <<runState, stage, attempts, lease, faults>>

----------------------------------------------------------------------------
(***************************************************************************)
(* The environment.                                                        *)
(***************************************************************************)
Crash(w) ==
  /\ ~At(w, "idle")
  /\ Fault
  /\ Leave(w)
  /\ UNCHANGED <<runState, stage, attempts, lease>>

\* lease_expires_at passes: a fault when the owner still works under it.
LeaseExpires(s) ==
  /\ lease[s].live
  /\ lease' = [lease EXCEPT ![s].live = FALSE]
  /\ IF \E w \in Workers : worker[w].at = s /\ worker[w].fence = lease[s].fence
                             /\ worker[w].pc \in {"handle", "finalize", "retry"}
     THEN Fault
     ELSE UNCHANGED faults
  /\ UNCHANGED <<runState, stage, attempts, worker>>

Step(w) ==
  \/ LoadSucceeded(w) \/ LoadNothing(w) \/ LoadRefused(w)
  \/ BeginStage(w) \/ BeginRefused(w)
  \/ HandlerEnds(w)
  \/ FinalizeStage(w) \/ MarkRetryable(w) \/ PersistRefused(w)

Next ==
  \/ \E w \in Workers :
       \/ \E r \in Runs : CreateRun(w, r) \/ ReuseRun(w, r)
       \/ Step(w) \/ HandlerFails(w) \/ Crash(w)
  \/ \E s \in Stages : LeaseExpires(s)

Spec == Init /\ [][Next]_vars

\* A call that is not cut off takes its next step, time passes, and an
\* operator starts a run again until it is terminal.
Fairness ==
  /\ \A w \in Workers : WF_vars(Step(w))
  /\ \A s \in Stages : WF_vars(LeaseExpires(s))
  /\ \A r \in Runs : SF_vars(\E w \in Workers : CreateRun(w, r) \/ ReuseRun(w, r))

FairSpec == Spec /\ Fairness

----------------------------------------------------------------------------
(***************************************************************************)
(* Correctness.                                                            *)
(***************************************************************************)

\* Whichever worker was replaced while it computed (start and finalize of 034),
\* a stage is RUNNING exactly when one of its attempts runs, and the attempt with
\* the greatest fence decides it: the others were abandoned or failed, and no
\* lease is older than an attempt made under it.
FenceDecides ==
  \A r \in Runs, s \in Stages :
    /\ Cardinality(Running(r, s)) = IF stage[r][s].state = "RUNNING" THEN 1 ELSE 0
    /\ \A a \in attempts[r][s] :
         /\ a.fence <= lease[s].fence
         /\ a.state = IF \E b \in attempts[r][s] : b.fence > a.fence
                      THEN "RETRYABLE" ELSE stage[r][s].state

\* A stage before EXCEPTION_OUTPUT works on what its predecessor committed,
\* even when several workers computed different outputs for it.
InputsAreCommitted ==
  \A r \in Runs, s \in 2..(N - 1) : stage[r][s].state # "ABSENT" =>
    /\ stage[r][s - 1].state = "SUCCEEDED"
    /\ stage[r][s].input = stage[r][s - 1].output

\* A closed run hides no outcome: none of its stages is open, it says
\* SUCCEEDED only when every stage succeeded, and otherwise what the stage
\* that stopped it said.
NothingIsMasked ==
  \A r \in Runs : runState[r] \in Terminal =>
    /\ \A s \in Stages : stage[r][s].state \in Terminal \cup {"ABSENT"}
    /\ runState[r] = "SUCCEEDED" => \A s \in Stages : stage[r][s].state = "SUCCEEDED"
    /\ runState[r] # "SUCCEEDED" =>
         \E s \in 1..(N - 1) :
            /\ stage[r][s].state = runState[r]
            /\ \A t \in 1..(N - 1) : t < s => stage[r][t].state = "SUCCEEDED"
            /\ \A t \in 1..(N - 1) : t > s => stage[r][t].state = "ABSENT"

\* A run none of whose stages ends otherwise is eventually closed as SUCCEEDED,
\* through crashes, failures, overrun leases, leases an earlier run of its
\* scope has left behind, and workers that compete for it.
RunSucceeds ==
  \A r \in Runs :
    [](\A s \in Stages : stage[r][s].state \notin {"REVIEW_REQUIRED", "BLOCKED"})
      => <>(runState[r] = "SUCCEEDED")
=============================================================================
