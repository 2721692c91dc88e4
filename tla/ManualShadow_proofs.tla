------------------------- MODULE ManualShadow_proofs -------------------------
(***************************************************************************)
(* The safety of the orchestration for every number of runs, workers,      *)
(* stages and faults, and of the manual production run whose handlers are  *)
(* the services of ManualShadow, for every plan.                           *)
(*                                                                         *)
(* A stage that ended never changes again, so what a worker saw of one     *)
(* that ended still stands when the worker commits, however late; and of   *)
(* the attempts of a stage that has not ended, only the one with the       *)
(* greatest fence can run.  The lemmas up to the first theorems are about  *)
(* workers whose handlers may return anything and be cut off at any time,  *)
(* which ShadowOrchestration and ManualShadow both are.                    *)
(***************************************************************************)
EXTENDS ManualShadow, FiniteSetTheorems, SequenceTheorems, WellFoundedInduction, TLAPS

\* The types of the state, when what handlers return is in X.
EndStates == Terminal \ {"CANCELLED"}
RowOf(X) == [state : ShadowStates \cup {"ABSENT"}, input : X, output : X]
CallOf(X) == [pc : Points, run : Runs \cup {NoRun}, at : Stages, reused : BOOLEAN,
              dep : X, prior : Terminal \cup {"NONE"}, fence : Nat,
              result : Terminal \cup {"NONE"}, output : X]

Typed(X) ==
  /\ NoOutput \in X
  /\ runState \in [Runs -> ShadowStates \cup {"ABSENT"}]
  /\ stage \in [Runs -> [Stages -> RowOf(X)]]
  /\ attempts \in [Runs -> [Stages -> SUBSET Attempt]]
  /\ lease \in [Stages -> Lease]
  /\ worker \in [Workers -> CallOf(X)]

\* A handler returns a member of X, or fails, or the call is cut off.
Returns(w, X) ==
  /\ At(w, "handle")
  /\ \E x \in X, st \in EndStates :
       /\ worker[w].at = N => st = "SUCCEEDED"
       /\ worker' = [worker EXCEPT ![w].pc = "finalize", ![w].output = x,
            ![w].result = IF worker[w].prior = "NONE" THEN st ELSE worker[w].prior]
  /\ UNCHANGED <<runState, stage, attempts, lease>>

Stops(w) ==
  /\ At(w, "handle")
  /\ Goto(w, "retry")
  /\ UNCHANGED <<runState, stage, attempts, lease>>

Quits(w) == Leave(w) /\ UNCHANGED <<runState, stage, attempts, lease>>

Steps(X) ==
  \/ \E w \in Workers :
       \/ \E r \in Runs : CreateRun(w, r) \/ ReuseRun(w, r)
       \/ LoadSucceeded(w) \/ LoadNothing(w) \/ BeginStage(w)
       \/ Returns(w, X) \/ Stops(w) \/ Quits(w)
       \/ FinalizeStage(w) \/ MarkRetryable(w)
  \/ \E s \in Stages : LeaseExpires(s)
  \/ UNCHANGED <<runState, stage, attempts, lease, worker>>

\* A call that runs works for a run.
CallsHaveRuns ==
  \A w \in Workers : ~At(w, "idle") => worker[w].run \in Runs

\* Fences grow with the lease and are used once per stage; every attempt that is
\* not the last was given up, and the last is in the state of its stage.
IsLast(a, as) == \A b \in as : b.fence <= a.fence
AttemptsDecide ==
  \A r \in Runs, s \in Stages :
    /\ \A a \in attempts[r][s] :
         /\ a.fence <= lease[s].fence
         /\ ~IsLast(a, attempts[r][s]) => a.state = "RETRYABLE"
         /\ IsLast(a, attempts[r][s]) => a.state = stage[r][s].state
    /\ \A a, b \in attempts[r][s] : a.fence = b.fence => a = b
    /\ IF stage[r][s].state = "ABSENT"
       THEN attempts[r][s] = {}
       ELSE \E a \in attempts[r][s] : IsLast(a, attempts[r][s])

\* Before EXCEPTION_OUTPUT a stage is only there when all before it succeeded.
StagesInOrder ==
  \A r \in Runs, s, t \in 1..(N - 1) :
    t < s /\ stage[r][s].state # "ABSENT" => stage[r][t].state = "SUCCEEDED"

\* A call past the first stage has what its predecessor committed; one that went
\* to EXCEPTION_OUTPUT because a stage stopped the run carries its outcome.
CallsFollowStages ==
  \A w \in Workers : ~At(w, "idle") =>
    /\ worker[w].at < N => worker[w].prior = "NONE"
    /\ worker[w].at > 1 /\ worker[w].prior = "NONE" =>
         /\ stage[worker[w].run][worker[w].at - 1].state = "SUCCEEDED"
         /\ worker[w].dep = stage[worker[w].run][worker[w].at - 1].output
    /\ worker[w].prior # "NONE" =>
         /\ worker[w].prior \in EndStates \ {"SUCCEEDED"}
         /\ \E s \in 1..(N - 1) : stage[worker[w].run][s].state = worker[w].prior
    /\ At(w, "finalize") =>
         /\ worker[w].result \in EndStates \cup {"SUCCEEDED"}
         /\ worker[w].at = N =>
              worker[w].result = IF worker[w].prior = "NONE" THEN "SUCCEEDED" ELSE worker[w].prior

Orchestrated ==
  /\ CallsHaveRuns
  /\ AttemptsDecide
  /\ StagesInOrder
  /\ CallsFollowStages
  /\ InputsAreCommitted
  /\ NothingIsMasked

----------------------------------------------------------------------------
(***************************************************************************)
(* What each action does to a stage, its attempts and its lease.           *)
(***************************************************************************)
\* The stage a call works on, and the call itself, are well typed.
LEMMA CallIsTyped ==
  ASSUME NEW X, Typed(X), CallsHaveRuns, NEW w \in Workers, ~At(w, "idle")
  PROVE  /\ worker[w] \in CallOf(X) /\ worker[w].run \in Runs /\ worker[w].at \in Stages
         /\ StageOf(w) \in RowOf(X)
         /\ attempts[worker[w].run][worker[w].at] \subseteq Attempt
         /\ lease[worker[w].at] \in Lease
  BY DEF Typed, CallsHaveRuns, CallOf, StageOf

Begins(w, r, s) ==
  /\ BeginStage(w) /\ worker[w].run = r /\ worker[w].at = s
  /\ runState[r] \notin Terminal
  /\ stage[r][s].state \in {"ABSENT", "RUNNING", "RETRYABLE"}
  /\ s \notin {1, N} => stage[r][s - 1].state = "SUCCEEDED"
  /\ stage'[r][s].state = "RUNNING" /\ stage'[r][s].input = worker[w].dep

Finalizes(w, r, s) ==
  /\ FinalizeStage(w) /\ worker[w].run = r /\ worker[w].at = s
  /\ stage[r][s].state = "RUNNING"
  /\ stage'[r][s].state = worker[w].result
  /\ stage'[r][s].input = stage[r][s].input /\ stage'[r][s].output = worker[w].output

Marks(w, r, s) ==
  /\ MarkRetryable(w) /\ worker[w].run = r /\ worker[w].at = s
  /\ stage[r][s].state = "RUNNING"
  /\ stage'[r][s].state = "RETRYABLE" /\ stage'[r][s].input = stage[r][s].input

\* Only the three procedures that hold or take the lease change a stage.
LEMMA WhoChanges ==
  ASSUME NEW X, Steps(X)
  PROVE  /\ UNCHANGED <<stage, attempts>>
            \/ \E w \in Workers : BeginStage(w) \/ FinalizeStage(w) \/ MarkRetryable(w)
         /\ \/ UNCHANGED lease
            \/ \E w \in Workers : BeginStage(w) \/ MarkRetryable(w)
            \/ \E s \in Stages : LeaseExpires(s)
         /\ \/ UNCHANGED runState
            \/ \E w \in Workers : \/ BeginStage(w) \/ FinalizeStage(w) \/ MarkRetryable(w)
                                 \/ \E r \in Runs : CreateRun(w, r)
  BY DEF Steps, CreateRun, ReuseRun, LoadSucceeded, LoadNothing, BeginStage, Returns, Stops,
    Quits, FinalizeStage, MarkRetryable, LeaseExpires

LEMMA StageMoves ==
  ASSUME NEW X, Typed(X), CallsHaveRuns, CallsFollowStages, Steps(X)
  PROVE  /\ stage' \in [Runs -> [Stages -> RowOf(X)]]
         /\ \A r \in Runs, s \in Stages :
              \/ stage'[r][s] = stage[r][s]
              \/ \E w \in Workers : Begins(w, r, s) \/ Finalizes(w, r, s) \/ Marks(w, r, s)
<1>1. CASE UNCHANGED stage
  BY <1>1 DEF Typed
<1>2. ASSUME NEW w \in Workers, BeginStage(w)
      PROVE  /\ stage' \in [Runs -> [Stages -> RowOf(X)]]
             /\ \A r \in Runs, s \in Stages : stage'[r][s] = stage[r][s] \/ Begins(w, r, s)
  <2>1. /\ worker[w] \in CallOf(X) /\ worker[w].run \in Runs /\ worker[w].at \in Stages
    BY <1>2, CallIsTyped DEF BeginStage, At
  <2>2. PICK row : /\ row = [state |-> "RUNNING", input |-> worker[w].dep, output |-> NoOutput]
                   /\ stage' = [stage EXCEPT ![worker[w].run][worker[w].at] = row]
    BY <1>2 DEF BeginStage, SetStage
  <2>3. row \in RowOf(X) /\ row.state = "RUNNING" /\ row.input = worker[w].dep
    BY <2>1, <2>2 DEF Typed, RowOf, ShadowStates, CallOf
  <2>4. /\ runState[worker[w].run] \notin Terminal
        /\ stage[worker[w].run][worker[w].at].state \in {"ABSENT", "RUNNING", "RETRYABLE"}
        /\ worker[w].at \notin {1, N} =>
             stage[worker[w].run][worker[w].at - 1].state = "SUCCEEDED"
    BY <1>2 DEF BeginStage, Startable, StageOf
  <2>5. /\ stage' \in [Runs -> [Stages -> RowOf(X)]]
        /\ stage'[worker[w].run][worker[w].at] = row
        /\ \A q \in Runs, t \in Stages :
             q # worker[w].run \/ t # worker[w].at => stage'[q][t] = stage[q][t]
    BY <2>1, <2>2, <2>3 DEF Typed
  <2>6. QED BY <1>2, <2>3, <2>4, <2>5 DEF Begins
<1>3. ASSUME NEW w \in Workers, FinalizeStage(w) \/ MarkRetryable(w)
      PROVE  /\ stage' \in [Runs -> [Stages -> RowOf(X)]]
             /\ \A r \in Runs, s \in Stages :
                  stage'[r][s] = stage[r][s] \/ Finalizes(w, r, s) \/ Marks(w, r, s)
  <2>1. /\ worker[w] \in CallOf(X) /\ worker[w].run \in Runs /\ worker[w].at \in Stages
        /\ StageOf(w) \in RowOf(X) /\ StageOf(w).state = "RUNNING"
    BY <1>3, CallIsTyped DEF FinalizeStage, MarkRetryable, Finalizable, HoldsFence, At
  <2>2. PICK row \in RowOf(X) :
          /\ stage' = [stage EXCEPT ![worker[w].run][worker[w].at] = row]
          /\ row.input = StageOf(w).input
          /\ \/ /\ FinalizeStage(w)
                /\ row.state = worker[w].result /\ row.output = worker[w].output
             \/ MarkRetryable(w) /\ row.state = "RETRYABLE"
    <3>1. CASE FinalizeStage(w)
      <4>1. PICK row : /\ row = [StageOf(w) EXCEPT !.state = worker[w].result,
                                                    !.output = worker[w].output]
                       /\ stage' = [stage EXCEPT ![worker[w].run][worker[w].at] = row]
        BY <3>1 DEF FinalizeStage, SetStage
      <4>2. worker[w].result \in ShadowStates
        <5>1. worker[w].result \in EndStates \cup {"SUCCEEDED"}
          BY <3>1 DEF FinalizeStage, CallsFollowStages, At
        <5>2. QED BY <5>1 DEF EndStates, ShadowStates, Terminal
      <4>3. /\ row \in RowOf(X) /\ row.input = StageOf(w).input
            /\ row.state = worker[w].result /\ row.output = worker[w].output
        BY <2>1, <4>1, <4>2 DEF RowOf, CallOf
      <4>4. QED BY <3>1, <4>1, <4>3
    <3>2. CASE MarkRetryable(w)
      <4>1. PICK row : /\ row = [StageOf(w) EXCEPT !.state = "RETRYABLE"]
                       /\ stage' = [stage EXCEPT ![worker[w].run][worker[w].at] = row]
        BY <3>2 DEF MarkRetryable, SetStage
      <4>2. /\ row \in RowOf(X) /\ row.input = StageOf(w).input /\ row.state = "RETRYABLE"
        BY <2>1, <4>1 DEF RowOf, ShadowStates
      <4>3. QED BY <3>2, <4>1, <4>2
    <3>3. QED BY <1>3, <3>1, <3>2
  <2>3. /\ stage' \in [Runs -> [Stages -> RowOf(X)]]
        /\ stage'[worker[w].run][worker[w].at] = row
        /\ \A q \in Runs, t \in Stages :
             q # worker[w].run \/ t # worker[w].at => stage'[q][t] = stage[q][t]
    BY <2>1, <2>2 DEF Typed
  <2>4. QED BY <2>1, <2>2, <2>3 DEF Finalizes, Marks, StageOf
<1>4. QED BY <1>1, <1>2, <1>3, WhoChanges

\* A stage that ended never changes again.
LEMMA EndedStays ==
  ASSUME NEW X, Typed(X), CallsHaveRuns, CallsFollowStages, Steps(X),
         NEW r \in Runs, NEW s \in Stages, stage[r][s].state \in Terminal
  PROVE  stage'[r][s] = stage[r][s]
  BY StageMoves DEF Begins, Finalizes, Marks, Terminal

----------------------------------------------------------------------------
(***************************************************************************)
(* What each action does to a call.                                        *)
(***************************************************************************)
\* The loop goes on from call c to call d after a stage that ended in st with x.
Advances(c, d, st, x) ==
  /\ c.at < N
  /\ d.pc \in {"load", "begin"} /\ d.run = c.run /\ d.dep = x
  /\ d.prior = IF st = "SUCCEEDED" THEN c.prior ELSE st
  /\ d.at = IF d.prior = "NONE" THEN c.at + 1 ELSE N

LEMMA AdvanceMoves ==
  ASSUME NEW X, Typed(X), CallsHaveRuns, NEW w \in Workers, ~At(w, "idle"),
         NEW st \in Terminal, NEW x \in X, Advance(w, st, x)
  PROVE  /\ worker' \in [Workers -> CallOf(X)]
         /\ \A v \in Workers : v # w => worker'[v] = worker[v]
         /\ worker'[w] = Idle \/ Advances(worker[w], worker'[w], st, x)
<1>1. /\ worker \in [Workers -> CallOf(X)] /\ worker[w] \in CallOf(X)
      /\ worker[w].run \in Runs /\ worker[w].at \in Stages
  BY CallIsTyped DEF Typed
<1>2. CASE worker[w].at = N
  <2>1. Idle \in CallOf(X)
    BY ConstantsAssumption DEF Typed, Idle, CallOf, Points, Stages
  <2>2. worker' = [worker EXCEPT ![w] = Idle]
    BY <1>2 DEF Advance, Leave
  <2>3. QED BY <1>1, <2>1, <2>2
<1>3. CASE worker[w].at # N
  <2>1. PICK pc \in {"load", "begin"} : pc = IF worker[w].reused THEN "load" ELSE "begin"
    OBVIOUS
  <2>2. PICK prior \in Terminal \cup {"NONE"} :
               prior = IF st = "SUCCEEDED" THEN worker[w].prior ELSE st
    BY <1>1 DEF CallOf
  <2>3. PICK at \in Stages : at = IF prior = "NONE" THEN worker[w].at + 1 ELSE N
    BY <1>1, <1>3, ConstantsAssumption DEF Stages
  <2>4. PICK d : /\ d = [Idle EXCEPT !.pc = pc, !.run = worker[w].run, !.at = at,
                                     !.reused = worker[w].reused, !.dep = x, !.prior = prior]
                 /\ worker' = [worker EXCEPT ![w] = d]
    BY <1>3, <2>1, <2>2, <2>3 DEF Advance
  <2>5. d \in CallOf(X)
    BY <1>1, <2>4 DEF Typed, Idle, CallOf, Points
  <2>6. /\ d.pc = pc /\ d.run = worker[w].run /\ d.at = at /\ d.dep = x /\ d.prior = prior
    BY <2>4 DEF Idle
  <2>7. worker[w].at < N
    BY <1>1, <1>3, ConstantsAssumption DEF Stages
  <2>8. QED BY <1>1, <2>2, <2>3, <2>4, <2>5, <2>6, <2>7 DEF Advances
<1>4. QED BY <1>2, <1>3

\* A call that starts at the first stage of a run.
Enters(d) == /\ d.pc \in {"load", "begin"} /\ d.run \in Runs
             /\ d.at = 1 /\ d.prior = "NONE"

\* A call that stays at its stage.
Keeps(c, d) == /\ d.run = c.run /\ d.at = c.at /\ d.dep = c.dep /\ d.prior = c.prior
               /\ c.pc # "idle"

LEMMA CallMoves ==
  ASSUME NEW X, Typed(X), CallsHaveRuns, CallsFollowStages, Steps(X)
  PROVE  /\ worker' \in [Workers -> CallOf(X)]
         /\ \A w \in Workers :
              \/ worker'[w] = worker[w] \/ worker'[w] = Idle
              \/ Enters(worker'[w])
              \/ Keeps(worker[w], worker'[w]) /\ worker'[w].pc \in {"begin", "handle", "retry"}
              \/ /\ Returns(w, X)
                 /\ Keeps(worker[w], worker'[w]) /\ worker'[w].pc = "finalize"
                 /\ \E st \in EndStates :
                      /\ worker[w].at = N => st = "SUCCEEDED"
                      /\ worker'[w].result = IF worker[w].prior = "NONE" THEN st
                                             ELSE worker[w].prior
              \/ /\ LoadSucceeded(w)
                 /\ Advances(worker[w], worker'[w], "SUCCEEDED", StageOf(w).output)
              \/ /\ FinalizeStage(w)
                 /\ Advances(worker[w], worker'[w], worker[w].result, worker[w].output)
<1>0. /\ worker \in [Workers -> CallOf(X)] /\ Idle \in CallOf(X)
  BY ConstantsAssumption DEF Typed, Idle, CallOf, Points, Stages
<1>1. CASE UNCHANGED worker
  BY <1>0, <1>1
<1>2. ASSUME NEW w \in Workers, Leave(w)
      PROVE  /\ worker' \in [Workers -> CallOf(X)] /\ worker'[w] = Idle
             /\ \A v \in Workers : v # w => worker'[v] = worker[v]
  BY <1>0, <1>2 DEF Leave
<1>3. ASSUME NEW w \in Workers, NEW r \in Runs, CreateRun(w, r) \/ ReuseRun(w, r)
      PROVE  /\ worker' \in [Workers -> CallOf(X)] /\ Enters(worker'[w])
             /\ \A v \in Workers : v # w => worker'[v] = worker[v]
  <2>1. PICK d \in CallOf(X) : Enters(d) /\ worker' = [worker EXCEPT ![w] = d]
    <3>1. CASE CreateRun(w, r)
      <4>1. PICK d : /\ d = [Idle EXCEPT !.pc = "begin", !.run = r]
                     /\ worker' = [worker EXCEPT ![w] = d]
        BY <3>1 DEF CreateRun
      <4>2. d \in CallOf(X) /\ Enters(d)
        BY <1>0, <4>1 DEF Idle, CallOf, Points, Enters
      <4>3. QED BY <4>1, <4>2
    <3>2. CASE ReuseRun(w, r)
      <4>1. PICK d : /\ d = [Idle EXCEPT !.pc = "load", !.run = r, !.reused = TRUE]
                     /\ worker' = [worker EXCEPT ![w] = d]
        BY <3>2 DEF ReuseRun
      <4>2. d \in CallOf(X) /\ Enters(d)
        BY <1>0, <4>1 DEF Idle, CallOf, Points, Enters
      <4>3. QED BY <4>1, <4>2
    <3>3. QED BY <1>3, <3>1, <3>2
  <2>2. QED BY <1>0, <2>1
<1>4. ASSUME NEW w \in Workers, LoadNothing(w) \/ Stops(w) \/ BeginStage(w)
      PROVE  /\ worker' \in [Workers -> CallOf(X)]
             /\ Keeps(worker[w], worker'[w]) /\ worker'[w].pc \in {"begin", "handle", "retry"}
             /\ \A v \in Workers : v # w => worker'[v] = worker[v]
  <2>0. worker[w] \in CallOf(X) /\ worker[w].pc # "idle" /\ worker[w].at \in Stages
    BY <1>0, <1>4 DEF LoadNothing, Stops, BeginStage, At, CallOf
  <2>1. PICK d \in CallOf(X) : /\ Keeps(worker[w], d) /\ d.pc \in {"begin", "handle", "retry"}
                          /\ worker' = [worker EXCEPT ![w] = d]
    <3>1. CASE LoadNothing(w) \/ Stops(w)
      <4>1. PICK pc \in {"begin", "retry"} : worker' = [worker EXCEPT ![w].pc = pc]
        BY <3>1 DEF LoadNothing, Stops, Goto
      <4>2. PICK d : d = [worker[w] EXCEPT !.pc = pc] /\ worker' = [worker EXCEPT ![w] = d]
        BY <1>0, <4>1
      <4>3. d \in CallOf(X) /\ Keeps(worker[w], d) /\ d.pc = pc
        BY <2>0, <4>2 DEF CallOf, Points, Keeps
      <4>4. QED BY <4>2, <4>3
    <3>2. CASE BeginStage(w)
      <4>1. PICK f \in Nat : f = lease[worker[w].at].fence + 1
        BY <2>0 DEF Typed, Lease
      <4>2. worker' = [worker EXCEPT ![w].pc = "handle", ![w].fence = f]
        BY <3>2, <4>1 DEF BeginStage
      <4>3. PICK d : /\ d = [worker[w] EXCEPT !.pc = "handle", !.fence = f]
                     /\ worker' = [worker EXCEPT ![w] = d]
        BY <1>0, <4>2
      <4>4. d \in CallOf(X) /\ Keeps(worker[w], d) /\ d.pc = "handle"
        BY <2>0, <4>3 DEF CallOf, Points, Keeps
      <4>5. QED BY <4>3, <4>4
    <3>3. QED BY <1>4, <3>1, <3>2
  <2>2. QED BY <1>0, <2>1
<1>5. ASSUME NEW w \in Workers, Returns(w, X)
      PROVE  /\ worker' \in [Workers -> CallOf(X)]
             /\ Keeps(worker[w], worker'[w]) /\ worker'[w].pc = "finalize"
             /\ \E st \in EndStates :
                  /\ worker[w].at = N => st = "SUCCEEDED"
                  /\ worker'[w].result = IF worker[w].prior = "NONE" THEN st
                                         ELSE worker[w].prior
             /\ \A v \in Workers : v # w => worker'[v] = worker[v]
  <2>0. worker[w] \in CallOf(X) /\ worker[w].pc # "idle"
    BY <1>0, <1>5 DEF Returns, At
  <2>1. PICK x \in X, st \in EndStates :
          /\ worker[w].at = N => st = "SUCCEEDED"
          /\ worker' = [worker EXCEPT ![w].pc = "finalize", ![w].output = x,
               ![w].result = IF worker[w].prior = "NONE" THEN st ELSE worker[w].prior]
    BY <1>5 DEF Returns
  <2>2. PICK result \in Terminal \cup {"NONE"} :
          result = IF worker[w].prior = "NONE" THEN st ELSE worker[w].prior
    BY <2>0 DEF CallOf, EndStates
  <2>3. /\ worker[w].at = N => st = "SUCCEEDED"
        /\ result = IF worker[w].prior = "NONE" THEN st ELSE worker[w].prior
        /\ worker' = [worker EXCEPT ![w].pc = "finalize", ![w].output = x,
                                    ![w].result = result]
    BY <2>1, <2>2
  <2>4. PICK d : /\ d = [worker[w] EXCEPT !.pc = "finalize", !.output = x, !.result = result]
                 /\ worker' = [worker EXCEPT ![w] = d]
    BY <1>0, <2>3
  <2>5. /\ d \in CallOf(X) /\ Keeps(worker[w], d) /\ d.pc = "finalize" /\ d.result = result
    BY <2>0, <2>4 DEF CallOf, Points, Keeps
  <2>6. QED BY <1>0, <2>3, <2>4, <2>5
<1>6. ASSUME NEW w \in Workers, LoadSucceeded(w)
      PROVE  /\ worker' \in [Workers -> CallOf(X)]
             /\ \/ worker'[w] = Idle
                \/ Advances(worker[w], worker'[w], "SUCCEEDED", StageOf(w).output)
             /\ \A v \in Workers : v # w => worker'[v] = worker[v]
  <2>1. /\ ~At(w, "idle") /\ Advance(w, "SUCCEEDED", StageOf(w).output)
    BY <1>6 DEF LoadSucceeded, At
  <2>2. StageOf(w).output \in X
    BY <2>1, CallIsTyped DEF RowOf
  <2>3. QED BY <2>1, <2>2, AdvanceMoves DEF Terminal
<1>7. ASSUME NEW w \in Workers, FinalizeStage(w)
      PROVE  /\ worker' \in [Workers -> CallOf(X)]
             /\ \/ worker'[w] = Idle
                \/ Advances(worker[w], worker'[w], worker[w].result, worker[w].output)
             /\ \A v \in Workers : v # w => worker'[v] = worker[v]
  <2>1. /\ ~At(w, "idle") /\ At(w, "finalize")
        /\ Advance(w, worker[w].result, worker[w].output)
    BY <1>7 DEF FinalizeStage, At
  <2>2. worker[w].output \in X
    BY <1>0 DEF CallOf
  <2>3. worker[w].result \in Terminal
    BY <2>1 DEF CallsFollowStages, EndStates, Terminal
  <2>4. QED BY <2>1, <2>2, <2>3, AdvanceMoves
<1>8. \/ UNCHANGED worker
      \/ \E w \in Workers :
           \/ Leave(w) \/ \E r \in Runs : CreateRun(w, r) \/ ReuseRun(w, r)
           \/ LoadNothing(w) \/ Stops(w) \/ BeginStage(w) \/ Returns(w, X)
           \/ LoadSucceeded(w) \/ FinalizeStage(w)
  BY DEF Steps, Quits, MarkRetryable, LeaseExpires
<1>9. QED BY <1>1, <1>2, <1>3, <1>4, <1>5, <1>6, <1>7, <1>8

----------------------------------------------------------------------------
(***************************************************************************)
(* What each action does to the attempts of a stage.                       *)
(***************************************************************************)
\* Every fence of a stage is given once, and the lease never goes back.
LEMMA LeaseGrows ==
  ASSUME NEW X, Typed(X), CallsHaveRuns, Steps(X)
  PROVE  /\ lease' \in [Stages -> Lease]
         /\ \A s \in Stages : lease[s].fence <= lease'[s].fence
<1>0. lease \in [Stages -> Lease] /\ \A s \in Stages : lease[s].fence <= lease[s].fence
  BY DEF Typed, Lease
<1>1. CASE UNCHANGED lease
  BY <1>0, <1>1
<1>2. ASSUME NEW w \in Workers, BeginStage(w)
      PROVE  /\ lease' \in [Stages -> Lease]
             /\ \A s \in Stages : lease[s].fence <= lease'[s].fence
  <2>1. worker[w].at \in Stages
    BY <1>2, CallIsTyped DEF BeginStage, At
  <2>2. PICK f \in Nat : f = lease[worker[w].at].fence + 1
    BY <1>0, <2>1 DEF Lease
  <2>3. PICK l \in Lease : l.fence = f /\ lease' = [lease EXCEPT ![worker[w].at] = l]
    BY <1>2, <2>2 DEF BeginStage, Lease
  <2>4. f >= lease[worker[w].at].fence
    BY <1>0, <2>1, <2>2 DEF Lease
  <2>5. QED BY <1>0, <2>1, <2>3, <2>4
<1>3. ASSUME NEW s \in Stages, lease' = [lease EXCEPT ![s].live = FALSE]
      PROVE  /\ lease' \in [Stages -> Lease]
             /\ \A t \in Stages : lease[t].fence <= lease'[t].fence
  <2>1. PICK l : l = [lease[s] EXCEPT !.live = FALSE] /\ lease' = [lease EXCEPT ![s] = l]
    BY <1>0, <1>3
  <2>2. l \in Lease /\ l.fence = lease[s].fence
    BY <1>0, <2>1 DEF Lease
  <2>3. QED BY <1>0, <2>1, <2>2
<1>4. ASSUME NEW w \in Workers, MarkRetryable(w)
      PROVE  /\ worker[w].at \in Stages
             /\ lease' = [lease EXCEPT ![worker[w].at].live = FALSE]
  BY <1>4, CallIsTyped DEF MarkRetryable, At
<1>5. \A s \in Stages : LeaseExpires(s) => lease' = [lease EXCEPT ![s].live = FALSE]
  BY DEF LeaseExpires
<1>6. QED BY <1>1, <1>2, <1>3, <1>4, <1>5, WhoChanges

\* The attempts of a stage that begins: those there were, given up, and a new one
\* under the fence after the lease's.
AttemptsBegin(r, s) ==
  /\ stage'[r][s].state = "RUNNING" /\ stage[r][s].state \in {"ABSENT", "RUNNING", "RETRYABLE"}
  /\ lease'[s].fence = lease[s].fence + 1
  /\ \E n \in Attempt :
       /\ n.fence = lease[s].fence + 1 /\ n.state = "RUNNING"
       /\ attempts'[r][s] = Abandoned(r, s) \cup {n}

\* The attempts of a stage that ends: the one that ran is in its new state.
AttemptsEnd(r, s) ==
  \E st \in ShadowStates, a \in Running(r, s) :
    /\ stage'[r][s].state = st
    /\ attempts'[r][s] = {IF b.fence = a.fence THEN [b EXCEPT !.state = st] ELSE b :
                            b \in attempts[r][s]}

LEMMA AttemptMoves ==
  ASSUME NEW X, Typed(X), CallsHaveRuns, CallsFollowStages, Steps(X)
  PROVE  /\ attempts' = [r \in Runs |-> attempts'[r]]
         /\ \A r \in Runs : attempts'[r] = [s \in Stages |-> attempts'[r][s]]
         /\ \A r \in Runs, s \in Stages :
              \/ stage'[r][s] = stage[r][s] /\ attempts'[r][s] = attempts[r][s]
              \/ AttemptsBegin(r, s)
              \/ AttemptsEnd(r, s)
<1>0. attempts \in [Runs -> [Stages -> SUBSET Attempt]]
  BY DEF Typed
<1>1. CASE UNCHANGED <<stage, attempts>>
  BY <1>0, <1>1
<1>2. ASSUME NEW w \in Workers, BeginStage(w) \/ FinalizeStage(w) \/ MarkRetryable(w)
      PROVE  /\ attempts' = [r \in Runs |-> attempts'[r]]
             /\ \A r \in Runs : attempts'[r] = [s \in Stages |-> attempts'[r][s]]
             /\ \A r \in Runs, s \in Stages : r # worker[w].run \/ s # worker[w].at =>
                  stage'[r][s] = stage[r][s] /\ attempts'[r][s] = attempts[r][s]
  <2>1. worker[w].run \in Runs /\ worker[w].at \in Stages
    BY <1>2, CallIsTyped DEF BeginStage, FinalizeStage, MarkRetryable, At
  <2>2. \E row : SetStage(w, row)
    BY <1>2 DEF BeginStage, FinalizeStage, MarkRetryable
  <2>3. \E as : SetAttempts(w, as)
    BY <1>2 DEF BeginStage, FinalizeStage, MarkRetryable
  <2>4. \A r \in Runs, s \in Stages :
          r # worker[w].run \/ s # worker[w].at => stage'[r][s] = stage[r][s]
    BY <2>1, <2>2 DEF Typed, SetStage
  <2>5. PICK as : attempts' = [attempts EXCEPT ![worker[w].run][worker[w].at] = as]
    BY <2>3 DEF SetAttempts
  <2>6. /\ attempts' = [r \in Runs |-> attempts'[r]]
        /\ \A r \in Runs, s \in Stages :
             r # worker[w].run \/ s # worker[w].at => attempts'[r][s] = attempts[r][s]
    BY <1>0, <2>1, <2>5
  <2>7. \A r \in Runs : attempts'[r] = [s \in Stages |-> attempts'[r][s]]
    BY <1>0, <2>1, <2>5
  <2>8. QED BY <2>4, <2>6, <2>7
<1>3. ASSUME NEW w \in Workers, BeginStage(w)
      PROVE  AttemptsBegin(worker[w].run, worker[w].at)
  <2>1. worker[w].run \in Runs /\ worker[w].at \in Stages
    BY <1>3, CallIsTyped DEF BeginStage, At
  <2> lease[worker[w].at].fence \in Nat
    BY <2>1 DEF Typed, Lease
  <2>2. PICK f \in Nat \ {0} : f = lease[worker[w].at].fence + 1
    OBVIOUS
  <2>3. /\ stage' = [stage EXCEPT ![worker[w].run][worker[w].at] =
                       [state |-> "RUNNING", input |-> worker[w].dep, output |-> NoOutput]]
        /\ StageOf(w).state \in {"ABSENT", "RUNNING", "RETRYABLE"}
        /\ lease' = [lease EXCEPT ![worker[w].at] = [owner |-> w, fence |-> f, live |-> TRUE]]
    BY <1>3, <2>2 DEF BeginStage, SetStage, Startable
  <2>4. /\ stage'[worker[w].run][worker[w].at].state = "RUNNING"
        /\ lease'[worker[w].at].fence = f
    BY <2>1, <2>3 DEF Typed
  <2>5. PICK n \in Attempt : n = [fence |-> f, owner |-> w, state |-> "RUNNING"]
    BY DEF Attempt, ShadowStates
  <2>6. attempts' = [attempts EXCEPT ![worker[w].run][worker[w].at] =
                       Abandoned(worker[w].run, worker[w].at) \cup {n}]
    BY <1>3, <2>2, <2>5 DEF BeginStage, SetAttempts
  <2>7. attempts'[worker[w].run][worker[w].at] =
          Abandoned(worker[w].run, worker[w].at) \cup {n}
    BY <1>0, <2>1, <2>6
  <2>8. QED BY <2>2, <2>3, <2>4, <2>5, <2>7 DEF AttemptsBegin, StageOf
<1>4. ASSUME NEW w \in Workers, FinalizeStage(w) \/ MarkRetryable(w)
      PROVE  AttemptsEnd(worker[w].run, worker[w].at)
  <2>1. worker[w].run \in Runs /\ worker[w].at \in Stages
    BY <1>4, CallIsTyped DEF FinalizeStage, MarkRetryable, At
  <2>2. PICK st \in ShadowStates :
          /\ stage'[worker[w].run][worker[w].at].state = st
          /\ attempts' = [attempts EXCEPT ![worker[w].run][worker[w].at] = OwnEnded(w, st)]
    <3>1. /\ stage[worker[w].run][worker[w].at].state = "RUNNING"
          /\ StageOf(w) \in RowOf(X)
      BY <1>4, CallIsTyped DEF FinalizeStage, MarkRetryable, Finalizable, HoldsFence, StageOf, At
    <3>2. CASE FinalizeStage(w)
      <4>1. PICK row : /\ row = [StageOf(w) EXCEPT !.state = worker[w].result,
                                                    !.output = worker[w].output]
                       /\ stage' = [stage EXCEPT ![worker[w].run][worker[w].at] = row]
        BY <3>2 DEF FinalizeStage, SetStage
      <4>2. row.state = worker[w].result
        BY <3>1, <4>1 DEF RowOf
      <4>3. stage'[worker[w].run][worker[w].at] = row
        BY <2>1, <4>1 DEF Typed
      <4>4. attempts' = [attempts EXCEPT ![worker[w].run][worker[w].at] =
                           OwnEnded(w, worker[w].result)]
        BY <3>2 DEF FinalizeStage, SetAttempts
      <4>5. worker[w].result \in ShadowStates
        BY <3>2 DEF FinalizeStage, CallsFollowStages, At, EndStates, ShadowStates, Terminal
      <4>6. QED BY <4>2, <4>3, <4>4, <4>5
    <3>3. CASE MarkRetryable(w)
      <4>1. PICK row : /\ row = [StageOf(w) EXCEPT !.state = "RETRYABLE"]
                       /\ stage' = [stage EXCEPT ![worker[w].run][worker[w].at] = row]
        BY <3>3 DEF MarkRetryable, SetStage
      <4>2. row.state = "RETRYABLE"
        BY <3>1, <4>1 DEF RowOf
      <4>3. stage'[worker[w].run][worker[w].at] = row
        BY <2>1, <4>1 DEF Typed
      <4>4. attempts' = [attempts EXCEPT ![worker[w].run][worker[w].at] =
                           OwnEnded(w, "RETRYABLE")]
        BY <3>3 DEF MarkRetryable, SetAttempts
      <4>5. QED BY <4>2, <4>3, <4>4 DEF ShadowStates
    <3>4. QED BY <1>4, <3>2, <3>3
  <2>3. attempts'[worker[w].run][worker[w].at] = OwnEnded(w, st)
    BY <1>0, <2>1, <2>2
  <2>4. PICK a \in Running(worker[w].run, worker[w].at) : a.fence = worker[w].fence
    BY <1>4 DEF FinalizeStage, MarkRetryable, Finalizable, HoldsFence
  <2>5. OwnEnded(w, st) =
          {IF b.fence = a.fence THEN [b EXCEPT !.state = st] ELSE b :
             b \in attempts[worker[w].run][worker[w].at]}
    BY <2>4 DEF OwnEnded
  <2>6. QED BY <2>2, <2>3, <2>4, <2>5 DEF AttemptsEnd
<1>5. QED BY <1>1, <1>2, <1>3, <1>4, WhoChanges

----------------------------------------------------------------------------
(***************************************************************************)
(* Every step preserves the invariant.                                     *)
(***************************************************************************)
LEMMA TypedStep ==
  ASSUME NEW X, Typed(X), CallsHaveRuns, CallsFollowStages, Steps(X)
  PROVE  Typed(X)'
<1>1. runState' \in [Runs -> ShadowStates \cup {"ABSENT"}]
  <2>1. ASSUME NEW r \in Runs, NEW st \in ShadowStates,
               runState' = [runState EXCEPT ![r] = st]
        PROVE  runState' \in [Runs -> ShadowStates \cup {"ABSENT"}]
    BY <2>1 DEF Typed
  <2>2. CASE UNCHANGED runState
    BY <2>2 DEF Typed
  <2>3. ASSUME NEW w \in Workers, NEW r \in Runs, CreateRun(w, r)
        PROVE  \E q \in Runs, st \in ShadowStates : runState' = [runState EXCEPT ![q] = st]
    BY <2>3 DEF CreateRun, ShadowStates
  <2>4. ASSUME NEW w \in Workers, BeginStage(w) \/ MarkRetryable(w)
        PROVE  \E q \in Runs, st \in ShadowStates : runState' = [runState EXCEPT ![q] = st]
    <3>1. worker[w].run \in Runs
      BY <2>4, CallIsTyped DEF BeginStage, MarkRetryable, At
    <3>2. SetRun(w, "RUNNING") \/ SetRun(w, "RETRYABLE")
      BY <2>4 DEF BeginStage, MarkRetryable
    <3>3. QED BY <3>1, <3>2 DEF SetRun, ShadowStates
  <2>5. ASSUME NEW w \in Workers, FinalizeStage(w), runState' # runState
        PROVE  \E q \in Runs, st \in ShadowStates : runState' = [runState EXCEPT ![q] = st]
    <3>1. worker[w].run \in Runs
      BY <2>5, CallIsTyped DEF FinalizeStage, At
    <3>2. PICK st : /\ st = RunVerdict(worker[w].run, worker[w].result)
                    /\ Allowed(runState[worker[w].run], st)
                    /\ runState' = [runState EXCEPT ![worker[w].run] = st]
      BY <2>5 DEF FinalizeStage, Finalizable, SetRun
    <3>3. st \in ShadowStates
      BY <3>2 DEF Allowed, ShadowStates, Terminal
    <3>4. QED BY <3>1, <3>2, <3>3
  <2>6. QED BY <2>1, <2>2, <2>3, <2>4, <2>5, WhoChanges
<1>2. stage' \in [Runs -> [Stages -> RowOf(X)]]
  BY StageMoves
<1>3. attempts' \in [Runs -> [Stages -> SUBSET Attempt]]
  <2>1. ASSUME NEW r \in Runs, NEW s \in Stages
        PROVE  attempts'[r][s] \subseteq Attempt
    <3>0. attempts[r][s] \subseteq Attempt
      BY DEF Typed
    <3>1. CASE attempts'[r][s] = attempts[r][s]
      BY <3>0, <3>1
    <3>2. CASE AttemptsBegin(r, s)
      <4>1. \A a \in Attempt : [a EXCEPT !.state = "RETRYABLE"] \in Attempt
        BY DEF Attempt, ShadowStates
      <4>2. Abandoned(r, s) \subseteq Attempt
        BY <3>0, <4>1 DEF Abandoned
      <4>3. QED BY <3>2, <4>2 DEF AttemptsBegin
    <3>3. CASE AttemptsEnd(r, s)
      <4>1. \A a \in Attempt, st \in ShadowStates : [a EXCEPT !.state = st] \in Attempt
        BY DEF Attempt
      <4>2. QED BY <3>0, <3>3, <4>1 DEF AttemptsEnd
    <3>4. QED BY <3>1, <3>2, <3>3, AttemptMoves
  <2>2. /\ attempts' = [r \in Runs |-> attempts'[r]]
        /\ \A r \in Runs : attempts'[r] = [s \in Stages |-> attempts'[r][s]]
    BY AttemptMoves
  <2>3. ASSUME NEW r \in Runs
        PROVE  attempts'[r] \in [Stages -> SUBSET Attempt]
    BY <2>1, <2>2
  <2>4. QED BY <2>2, <2>3
<1>4. lease' \in [Stages -> Lease]
  BY LeaseGrows
<1>5. worker' \in [Workers -> CallOf(X)]
  BY CallMoves
<1>6. QED BY <1>1, <1>2, <1>3, <1>4, <1>5 DEF Typed

LEMMA CallsHaveRunsStep ==
  ASSUME NEW X, Typed(X), CallsHaveRuns, CallsFollowStages, Steps(X)
  PROVE  CallsHaveRuns'
<1>1. SUFFICES ASSUME NEW w \in Workers, worker'[w].pc # "idle"
               PROVE  worker'[w].run \in Runs
  BY DEF CallsHaveRuns, At
<1>2. worker[w].pc # "idle" => worker[w].run \in Runs
  BY DEF CallsHaveRuns, At
<1>3. worker'[w] # Idle
  BY <1>1 DEF Idle
<1>4. LoadSucceeded(w) \/ FinalizeStage(w) => worker[w].pc # "idle"
  BY DEF LoadSucceeded, FinalizeStage, At
<1>5. QED BY <1>1, <1>2, <1>3, <1>4, CallMoves DEF Enters, Keeps, Advances

LEMMA AttemptsDecideStep ==
  ASSUME NEW X, Typed(X), CallsHaveRuns, CallsFollowStages, AttemptsDecide, Steps(X)
  PROVE  AttemptsDecide'
<1> SUFFICES ASSUME NEW r \in Runs, NEW s \in Stages
    PROVE  /\ \A a \in attempts'[r][s] :
                /\ a.fence <= lease'[s].fence
                /\ ~IsLast(a, attempts'[r][s]) => a.state = "RETRYABLE"
                /\ IsLast(a, attempts'[r][s]) => a.state = stage'[r][s].state
           /\ \A a, b \in attempts'[r][s] : a.fence = b.fence => a = b
           /\ IF stage'[r][s].state = "ABSENT"
              THEN attempts'[r][s] = {}
              ELSE \E a \in attempts'[r][s] : IsLast(a, attempts'[r][s])
  BY DEF AttemptsDecide, IsLast
<1> DEFINE as == attempts[r][s]
<1>0. /\ as \subseteq Attempt /\ lease[s].fence \in Nat /\ lease'[s].fence \in Nat
      /\ lease[s].fence <= lease'[s].fence
  BY LeaseGrows DEF Typed, Lease
<1>1. /\ \A a \in as : /\ a.fence <= lease[s].fence
                       /\ ~IsLast(a, as) => a.state = "RETRYABLE"
                       /\ IsLast(a, as) => a.state = stage[r][s].state
      /\ \A a, b \in as : a.fence = b.fence => a = b
      /\ IF stage[r][s].state = "ABSENT" THEN as = {} ELSE \E a \in as : IsLast(a, as)
  BY DEF AttemptsDecide
<1>2. CASE stage'[r][s] = stage[r][s] /\ attempts'[r][s] = attempts[r][s]
  <2>1. \A a \in as : a.fence <= lease'[s].fence
    BY <1>0, <1>1 DEF Attempt
  <2>2. QED BY <1>1, <1>2, <2>1
<1>3. CASE AttemptsBegin(r, s)
  <2>1. PICK n \in Attempt :
          /\ n.fence = lease[s].fence + 1 /\ n.state = "RUNNING"
          /\ attempts'[r][s] = Abandoned(r, s) \cup {n}
    BY <1>3 DEF AttemptsBegin
  <2>2. /\ stage'[r][s].state = "RUNNING" /\ lease'[s].fence = lease[s].fence + 1
        /\ stage[r][s].state \in {"ABSENT", "RUNNING", "RETRYABLE"}
    BY <1>3 DEF AttemptsBegin
  <2>3. \A b \in Abandoned(r, s) :
          b.state = "RETRYABLE" /\ \E a \in as : b.fence = a.fence
    <3>1. \A a \in as : a.state \in {"RUNNING", "RETRYABLE"}
      BY <1>1, <2>2
    <3>2. \A a \in Attempt : LET b == [a EXCEPT !.state = "RETRYABLE"] IN
            b.state = "RETRYABLE" /\ b.fence = a.fence
      BY DEF Attempt
    <3>3. QED BY <1>0, <3>1, <3>2 DEF Abandoned
  <2>4. \A b, c \in Abandoned(r, s) : b.fence = c.fence => b = c
    <3>1. \A a \in Attempt : [a EXCEPT !.state = "RETRYABLE"].fence = a.fence
      BY DEF Attempt
    <3>2. ASSUME NEW b \in Abandoned(r, s), NEW c \in Abandoned(r, s), b.fence = c.fence
          PROVE  b = c
      <4>1. PICK x \in as : b = IF x.state = "RUNNING" THEN [x EXCEPT !.state = "RETRYABLE"]
                               ELSE x
        BY DEF Abandoned
      <4>2. PICK y \in as : c = IF y.state = "RUNNING" THEN [y EXCEPT !.state = "RETRYABLE"]
                               ELSE y
        BY DEF Abandoned
      <4>3. b.fence = x.fence /\ c.fence = y.fence
        BY <1>0, <3>1, <4>1, <4>2
      <4>4. x = y
        BY <1>1, <3>2, <4>3
      <4>5. QED BY <4>1, <4>2, <4>4
    <3>3. QED BY <3>2
  <2>5. \A b \in Abandoned(r, s) : b.fence \in Nat /\ b.fence <= lease[s].fence
    BY <1>0, <1>1, <2>3 DEF Attempt
  <2>6. n.fence \in Nat /\ n.fence = lease'[s].fence
    BY <2>1, <2>2 DEF Attempt
  <2>7. /\ \A b \in Abandoned(r, s) : b.fence < n.fence
        /\ \A b \in attempts'[r][s] : b.fence <= n.fence
    BY <1>0, <2>1, <2>5, <2>6
  <2>8. /\ IsLast(n, attempts'[r][s])
        /\ \A b \in Abandoned(r, s) : ~IsLast(b, attempts'[r][s])
    BY <2>1, <2>5, <2>6, <2>7 DEF IsLast
  <2>9. \A a, b \in attempts'[r][s] : a.fence = b.fence => a = b
    BY <2>1, <2>4, <2>5, <2>6, <2>7
  <2>10. /\ \A b \in attempts'[r][s] : b.fence <= lease'[s].fence
         /\ n \in attempts'[r][s]
    BY <2>1, <2>6, <2>7
  <2>11. \A b \in attempts'[r][s] :
           /\ ~IsLast(b, attempts'[r][s]) => b.state = "RETRYABLE"
           /\ IsLast(b, attempts'[r][s]) => b.state = "RUNNING"
    BY <2>1, <2>3, <2>8
  <2>12. QED BY <2>2, <2>8, <2>9, <2>10, <2>11
<1>4. CASE AttemptsEnd(r, s)
  <2>1. PICK st \in ShadowStates, a \in Running(r, s) :
          /\ stage'[r][s].state = st
          /\ attempts'[r][s] = {IF b.fence = a.fence THEN [b EXCEPT !.state = st] ELSE b :
                                  b \in attempts[r][s]}
    BY <1>4 DEF AttemptsEnd
  <2>2. /\ a \in as /\ a.state = "RUNNING" /\ IsLast(a, as)
    BY <1>1, <2>1 DEF Running
  <2>3. PICK d \in Attempt : d = [a EXCEPT !.state = st] /\ d.fence = a.fence /\ d.state = st
    <3>1. a \in Attempt
      BY <1>0, <2>2
    <3>2. PICK d : d = [a EXCEPT !.state = st]
      OBVIOUS
    <3>3. QED BY <3>1, <3>2 DEF Attempt
  <2>4. \A b \in as : b.fence = a.fence <=> b = a
    BY <1>1, <2>2
  <2>5. attempts'[r][s] = (as \ {a}) \cup {d}
    BY <2>1, <2>2, <2>3, <2>4
  <2>6. \A b \in as \ {a} : b.fence < d.fence /\ b.state = "RETRYABLE"
    <3>1. \A b \in as \ {a} : b.fence \in Nat /\ a.fence \in Nat /\ b.fence < a.fence
      BY <1>0, <2>2, <2>4 DEF IsLast, Attempt
    <3>2. \A b \in as \ {a} : ~IsLast(b, as)
      BY <2>2, <3>1 DEF IsLast
    <3>3. QED BY <1>1, <2>3, <3>1, <3>2
  <2>7. /\ IsLast(d, attempts'[r][s])
        /\ \A b \in as \ {a} : ~IsLast(b, attempts'[r][s])
    BY <1>0, <2>3, <2>5, <2>6 DEF IsLast, Attempt
  <2>8. \A b, c \in attempts'[r][s] : b.fence = c.fence => b = c
    BY <1>0, <1>1, <2>3, <2>5, <2>6 DEF Attempt
  <2>9. \A b \in attempts'[r][s] : b.fence <= lease'[s].fence
    <3>1. \A b \in as : b.fence <= lease'[s].fence
      BY <1>0, <1>1 DEF Attempt
    <3>2. QED BY <2>2, <2>3, <2>5, <3>1
  <2>10. st # "ABSENT"
    BY DEF ShadowStates, Terminal
  <2>11. QED BY <2>1, <2>3, <2>5, <2>6, <2>7, <2>8, <2>9, <2>10
<1>5. QED BY <1>2, <1>3, <1>4, AttemptMoves

LEMMA StagesInOrderStep ==
  ASSUME NEW X, Typed(X), CallsHaveRuns, CallsFollowStages, StagesInOrder, Steps(X)
  PROVE  StagesInOrder'
<1> SUFFICES ASSUME NEW r \in Runs, NEW s \in 1..(N - 1), NEW t \in 1..(N - 1),
                    t < s, stage'[r][s].state # "ABSENT"
             PROVE  stage'[r][t].state = "SUCCEEDED"
  BY DEF StagesInOrder
<1>0. s \in Stages /\ t \in Stages /\ s # 1 /\ s # N /\ N \in Nat \ {0}
  BY ConstantsAssumption DEF Stages
<1>1. stage[r][t].state = "SUCCEEDED" => stage'[r][t].state = "SUCCEEDED"
  BY <1>0, EndedStays DEF Terminal
<1>2. CASE stage[r][s].state # "ABSENT"
  BY <1>1, <1>2 DEF StagesInOrder
<1>3. CASE stage[r][s].state = "ABSENT"
  <2>1. stage[r][s - 1].state = "SUCCEEDED"
    BY <1>0, <1>3, StageMoves DEF Begins, Finalizes, Marks
  <2>2. CASE t = s - 1
    BY <1>1, <2>1, <2>2
  <2>3. CASE t # s - 1
    <3>1. s - 1 \in 1..(N - 1) /\ t < s - 1
      BY <1>0, <2>3
    <3>2. QED BY <1>1, <2>1, <3>1 DEF StagesInOrder
  <2>4. QED BY <2>2, <2>3
<1>4. QED BY <1>2, <1>3

\* A call that started from what its run had committed keeps doing so.
LEMMA CallsFollowStagesStep ==
  ASSUME NEW X, Typed(X), CallsHaveRuns, CallsFollowStages, Steps(X)
  PROVE  CallsFollowStages'
<1> SUFFICES ASSUME NEW w \in Workers, worker'[w].pc # "idle"
    PROVE  /\ worker'[w].at < N => worker'[w].prior = "NONE"
           /\ worker'[w].at > 1 /\ worker'[w].prior = "NONE" =>
                /\ stage'[worker'[w].run][worker'[w].at - 1].state = "SUCCEEDED"
                /\ worker'[w].dep = stage'[worker'[w].run][worker'[w].at - 1].output
           /\ worker'[w].prior # "NONE" =>
                /\ worker'[w].prior \in EndStates \ {"SUCCEEDED"}
                /\ \E s \in 1..(N - 1) : stage'[worker'[w].run][s].state = worker'[w].prior
           /\ worker'[w].pc = "finalize" =>
                /\ worker'[w].result \in EndStates \cup {"SUCCEEDED"}
                /\ worker'[w].at = N =>
                     worker'[w].result = IF worker'[w].prior = "NONE" THEN "SUCCEEDED"
                                         ELSE worker'[w].prior
  BY DEF CallsFollowStages, At
<1> DEFINE c == worker[w]
           d == worker'[w]
<1>0. N \in Nat \ {0} /\ "NONE" \notin EndStates /\ EndStates \subseteq Terminal
  BY ConstantsAssumption DEF EndStates, Terminal
<1>1. ASSUME c.pc # "idle"
      PROVE  /\ c \in CallOf(X) /\ c.run \in Runs /\ c.at \in 1..N
             /\ c.at < N => c.prior = "NONE"
             /\ c.at > 1 /\ c.prior = "NONE" =>
                  /\ stage[c.run][c.at - 1].state = "SUCCEEDED"
                  /\ c.dep = stage[c.run][c.at - 1].output
             /\ c.prior # "NONE" =>
                  /\ c.prior \in EndStates \ {"SUCCEEDED"}
                  /\ \E s \in 1..(N - 1) : stage[c.run][s].state = c.prior
             /\ c.pc = "finalize" =>
                  /\ c.result \in EndStates \cup {"SUCCEEDED"}
                  /\ c.at = N => c.result = IF c.prior = "NONE" THEN "SUCCEEDED" ELSE c.prior
  BY <1>1, CallIsTyped DEF CallsFollowStages, At, Stages
\* What held of the stages of a call still holds of them.
<1>2. ASSUME c.pc # "idle"
      PROVE  /\ c.at > 1 /\ c.prior = "NONE" =>
                  /\ stage'[c.run][c.at - 1].state = "SUCCEEDED"
                  /\ c.dep = stage'[c.run][c.at - 1].output
             /\ c.prior # "NONE" =>
                  \E s \in 1..(N - 1) : stage'[c.run][s].state = c.prior
  <2>1. \A s \in 1..N : stage[c.run][s].state \in Terminal => stage'[c.run][s] = stage[c.run][s]
    BY <1>1, <1>2, EndedStays DEF Stages
  <2>2. ASSUME c.at > 1, c.prior = "NONE"
        PROVE  /\ stage'[c.run][c.at - 1].state = "SUCCEEDED"
               /\ c.dep = stage'[c.run][c.at - 1].output
    <3>1. c.at - 1 \in 1..N /\ "SUCCEEDED" \in Terminal
      BY <1>0, <1>1, <1>2, <2>2 DEF Terminal
    <3>2. QED BY <1>1, <1>2, <2>1, <2>2, <3>1
  <2>3. ASSUME c.prior # "NONE"
        PROVE  \E s \in 1..(N - 1) : stage'[c.run][s].state = c.prior
    <3>1. PICK s \in 1..(N - 1) : stage[c.run][s].state = c.prior
      BY <1>1, <1>2, <2>3
    <3>2. s \in 1..N /\ c.prior \in Terminal
      BY <1>0, <1>1, <1>2, <2>3
    <3>3. QED BY <2>1, <3>1, <3>2
  <2>4. QED BY <2>2, <2>3
<1>3. CASE d = c
  BY <1>1, <1>2, <1>3
<1>4. CASE Enters(d)
  BY <1>0, <1>4 DEF Enters
<1>5. CASE Keeps(c, d) /\ d.pc \in {"begin", "handle", "retry"}
  BY <1>1, <1>2, <1>5 DEF Keeps
<1>6. ASSUME Keeps(c, d), d.pc = "finalize",
             \E st \in EndStates : /\ c.at = N => st = "SUCCEEDED"
                                  /\ d.result = IF c.prior = "NONE" THEN st ELSE c.prior
      PROVE  /\ d.result \in EndStates \cup {"SUCCEEDED"}
             /\ d.at = N => d.result = IF d.prior = "NONE" THEN "SUCCEEDED" ELSE d.prior
  BY <1>1, <1>6 DEF Keeps
<1>7. CASE Returns(w, X) /\ Keeps(c, d) /\ d.pc = "finalize"
           /\ \E st \in EndStates : /\ c.at = N => st = "SUCCEEDED"
                                   /\ d.result = IF c.prior = "NONE" THEN st ELSE c.prior
  BY <1>1, <1>2, <1>6, <1>7 DEF Keeps
<1>8. CASE LoadSucceeded(w) /\ Advances(c, d, "SUCCEEDED", StageOf(w).output)
  <2>1. c.pc = "load" /\ stage[c.run][c.at].state = "SUCCEEDED"
    BY <1>8 DEF LoadSucceeded, At, StageOf
  <2>2. c.run \in Runs /\ c.at \in Stages /\ c.prior = "NONE" /\ c.at \in 1..N
    BY <1>1, <1>8, <2>1 DEF Advances, Stages
  <2>3. d.run = c.run /\ d.prior = "NONE" /\ d.at = c.at + 1 /\ d.pc # "finalize"
        /\ d.dep = stage[c.run][c.at].output
    BY <1>8, <2>2 DEF Advances, StageOf
  <2>4. stage'[c.run][c.at] = stage[c.run][c.at]
    BY <2>1, <2>2, EndedStays DEF Terminal
  <2>5. d.at - 1 = c.at
    BY <2>2, <2>3
  <2>6. QED BY <2>1, <2>3, <2>4, <2>5
<1>9. CASE FinalizeStage(w) /\ Advances(c, d, c.result, c.output)
  <2>1. c.pc = "finalize"
    BY <1>9 DEF FinalizeStage, At
  <2>2. /\ c.run \in Runs /\ c.at \in Stages /\ c.prior = "NONE" /\ c.at \in 1..(N - 1)
        /\ c.result \in EndStates \cup {"SUCCEEDED"}
    BY <1>0, <1>1, <1>9, <2>1 DEF Advances, Stages
  <2>3. /\ stage'[c.run][c.at].state = c.result
        /\ stage'[c.run][c.at].output = c.output
    <3>1. PICK row : /\ row = [StageOf(w) EXCEPT !.state = c.result, !.output = c.output]
                     /\ stage' = [stage EXCEPT ![c.run][c.at] = row]
      BY <1>9 DEF FinalizeStage, SetStage
    <3>2. StageOf(w) \in RowOf(X)
      BY <2>1, CallIsTyped DEF At
    <3>3. row.state = c.result /\ row.output = c.output
      BY <3>1, <3>2 DEF RowOf
    <3>4. stage'[c.run][c.at] = row
      BY <2>2, <3>1 DEF Typed
    <3>5. QED BY <3>3, <3>4
  <2>4. /\ d.run = c.run /\ d.pc # "finalize" /\ d.dep = c.output
        /\ d.prior = IF c.result = "SUCCEEDED" THEN "NONE" ELSE c.result
        /\ d.at = IF d.prior = "NONE" THEN c.at + 1 ELSE N
    BY <1>9, <2>2 DEF Advances
  <2>5. CASE c.result = "SUCCEEDED"
    <3>1. d.prior = "NONE" /\ d.at - 1 = c.at
      BY <2>2, <2>4, <2>5
    <3>2. QED BY <2>3, <2>4, <2>5, <3>1
  <2>6. CASE c.result # "SUCCEEDED"
    <3>1. d.prior = c.result /\ d.prior # "NONE" /\ d.at = N
      BY <1>0, <2>2, <2>4, <2>6
    <3>2. QED BY <1>0, <2>2, <2>3, <2>4, <2>6, <3>1
  <2>7. QED BY <2>5, <2>6
<1>10. d # Idle
  BY DEF Idle
<1>11. QED BY <1>3, <1>4, <1>5, <1>7, <1>8, <1>9, <1>10, CallMoves

LEMMA InputsAreCommittedStep ==
  ASSUME NEW X, Typed(X), CallsHaveRuns, CallsFollowStages, InputsAreCommitted, Steps(X)
  PROVE  InputsAreCommitted'
<1> SUFFICES ASSUME NEW r \in Runs, NEW s \in 2..(N - 1), stage'[r][s].state # "ABSENT"
             PROVE  /\ stage'[r][s - 1].state = "SUCCEEDED"
                    /\ stage'[r][s].input = stage'[r][s - 1].output
  BY DEF InputsAreCommitted
<1>0. /\ s \in Stages /\ s - 1 \in Stages /\ s # N /\ s # 1 /\ s < N /\ s > 1
  BY ConstantsAssumption DEF Stages
<1>1. /\ stage[r][s - 1].state = "SUCCEEDED"
      /\ stage'[r][s].input = stage[r][s - 1].output
  <2>1. CASE stage'[r][s] = stage[r][s]
    BY <2>1 DEF InputsAreCommitted
  <2>2. ASSUME NEW w \in Workers, Begins(w, r, s)
        PROVE  /\ stage[r][s - 1].state = "SUCCEEDED"
               /\ stage'[r][s].input = stage[r][s - 1].output
    <3>1. worker[w].run = r /\ worker[w].at = s /\ ~At(w, "idle")
          /\ stage'[r][s].input = worker[w].dep
      BY <2>2 DEF Begins, BeginStage, At
    <3>2. QED BY <1>0, <3>1 DEF CallsFollowStages
  <2>3. ASSUME NEW w \in Workers, Finalizes(w, r, s) \/ Marks(w, r, s)
        PROVE  /\ stage[r][s - 1].state = "SUCCEEDED"
               /\ stage'[r][s].input = stage[r][s - 1].output
    BY <2>3 DEF Finalizes, Marks, InputsAreCommitted
  <2>4. QED BY <1>0, <2>1, <2>2, <2>3, StageMoves
<1>2. stage'[r][s - 1] = stage[r][s - 1]
  BY <1>0, <1>1, EndedStays DEF Terminal
<1>3. QED BY <1>1, <1>2

\* When all stages but one succeeded, the roll-up says what that one said.
LEMMA RollupOfOne ==
  ASSUME NEW p \in Terminal \ {"CANCELLED"}, NEW S \in SUBSET {"SUCCEEDED", p}, p \in S
  PROVE  Rollup(S) = p
<1>1. /\ DOMAIN Precedence = 1..9
      /\ Precedence[1] = "UNCERTAIN" /\ Precedence[2] = "BLOCKED"
      /\ Precedence[3] = "REVIEW_REQUIRED" /\ Precedence[4] = "RETRYABLE"
      /\ Precedence[5] = "FAILED_SAFE" /\ Precedence[6] = "SUCCEEDED"
      /\ Precedence[7] = "RUNNING" /\ Precedence[8] = "PENDING" /\ Precedence[9] = "CANCELLED"
  BY DEF Precedence
<1> DEFINE First(i) == /\ Precedence[i] \in S
                       /\ \A j \in 1..(i - 1) : Precedence[j] \notin S
<1>2. PICK k \in {1, 2, 3, 5, 6} : Precedence[k] = p
  BY <1>1 DEF Terminal
<1>3. \A j \in 1..(k - 1) : Precedence[j] # p /\ Precedence[j] # "SUCCEEDED"
  BY <1>1, <1>2
<1>4. k \in DOMAIN Precedence /\ First(k)
  BY <1>1, <1>2, <1>3
<1>5. \A i \in DOMAIN Precedence : First(i) => i = k
  <2>1. ASSUME NEW i \in 1..9, First(i), i # k
        PROVE  FALSE
    <3>1. k \notin 1..(i - 1)
      BY <1>2, <2>1
    <3>2. i \in 1..(k - 1)
      BY <1>2, <2>1, <3>1
    <3>3. QED BY <1>3, <2>1, <3>2
  <2>2. QED BY <1>1, <2>1
<1>6. Rollup(S) = Precedence[CHOOSE i \in DOMAIN Precedence : First(i)]
  BY DEF Rollup
<1> HIDE DEF First
<1>7. (CHOOSE i \in DOMAIN Precedence : First(i)) = k
  BY <1>4, <1>5
<1>8. QED BY <1>2, <1>6, <1>7

\* EXCEPTION_OUTPUT closes a run with what its stages said.
LEMMA ClosingMasksNothing ==
  ASSUME NEW X, Typed(X), CallsHaveRuns, CallsFollowStages, StagesInOrder, Steps(X),
         NEW w \in Workers, FinalizeStage(w), worker[w].at = N,
         NEW r \in Runs, worker[w].run = r
  PROVE  /\ \A s \in Stages : stage'[r][s].state \in Terminal \cup {"ABSENT"}
         /\ runState'[r] = "SUCCEEDED" => \A s \in Stages : stage'[r][s].state = "SUCCEEDED"
         /\ runState'[r] # "SUCCEEDED" =>
              \E s \in 1..(N - 1) :
                 /\ stage'[r][s].state = runState'[r]
                 /\ \A t \in 1..(N - 1) : t < s => stage'[r][t].state = "SUCCEEDED"
                 /\ \A t \in 1..(N - 1) : t > s => stage'[r][t].state = "ABSENT"
<1> DEFINE st == worker[w].result
           Said == {stage[r][s].state : s \in {t \in 1..(N - 1) : stage[r][t].state # "ABSENT"}}
<1>0. N \in Nat \ {0} /\ N \in Stages /\ 1..(N - 1) \subseteq Stages
      /\ \A s \in Stages : s = N \/ s \in 1..(N - 1)
  BY ConstantsAssumption DEF Stages
<1>1. /\ ~At(w, "idle") /\ At(w, "finalize")
      /\ \A s \in 1..(N - 1) : stage[r][s].state \notin {"PENDING", "RUNNING", "RETRYABLE"}
      /\ runState' = [runState EXCEPT ![r] = RunVerdict(r, st)]
      /\ stage' = [stage EXCEPT ![r][N] = [StageOf(w) EXCEPT !.state = st,
                                                             !.output = worker[w].output]]
  BY DEF FinalizeStage, Finalizable, SetRun, SetStage, At
<1>2. runState'[r] = Rollup(Said \cup {st})
  BY <1>1 DEF Typed, RunVerdict
<1>3. /\ stage'[r][N].state = st
      /\ \A s \in 1..(N - 1) : stage'[r][s] = stage[r][s]
  <2>1. PICK row : /\ row = [StageOf(w) EXCEPT !.state = st, !.output = worker[w].output]
                   /\ stage' = [stage EXCEPT ![r][N] = row]
    BY <1>1
  <2>2. StageOf(w) \in RowOf(X)
    BY <1>1, CallIsTyped
  <2>3. row.state = st
    BY <2>1, <2>2 DEF RowOf
  <2>4. stage'[r][N] = row
    BY <1>0, <2>1 DEF Typed
  <2>5. \A s \in 1..(N - 1) : s # N
    BY <1>0
  <2>6. \A s \in 1..(N - 1) : stage'[r][s] = stage[r][s]
    BY <1>0, <2>1, <2>5 DEF Typed
  <2>7. QED BY <2>3, <2>4, <2>6
<1>4. \A s \in 1..(N - 1) : stage[r][s].state \in Terminal \cup {"ABSENT"}
  BY <1>0, <1>1 DEF Typed, RowOf, ShadowStates
<1>5. /\ st = IF worker[w].prior = "NONE" THEN "SUCCEEDED" ELSE worker[w].prior
      /\ worker[w].prior # "NONE" =>
           /\ worker[w].prior \in EndStates \ {"SUCCEEDED"}
           /\ \E s \in 1..(N - 1) : stage[r][s].state = worker[w].prior
      /\ N > 1 /\ worker[w].prior = "NONE" => stage[r][N - 1].state = "SUCCEEDED"
  BY <1>1 DEF CallsFollowStages
<1>6. st \in Terminal \ {"CANCELLED"}
  BY <1>5 DEF EndStates, Terminal
<1>7. CASE worker[w].prior = "NONE"
  <2>1. \A s \in 1..(N - 1) : stage[r][s].state = "SUCCEEDED"
    <3>1. ASSUME NEW s \in 1..(N - 1)
          PROVE  stage[r][s].state = "SUCCEEDED"
      <4>1. N > 1 /\ N - 1 \in 1..(N - 1)
        BY <1>0
      <4>2. CASE s = N - 1
        BY <1>5, <1>7, <4>1, <4>2
      <4>3. CASE s < N - 1
        BY <1>5, <1>7, <4>1, <4>3 DEF StagesInOrder
      <4>4. QED BY <1>0, <4>2, <4>3
    <3>2. QED BY <3>1
  <2>2. Said \cup {st} \subseteq {"SUCCEEDED", st} /\ st = "SUCCEEDED"
    BY <1>5, <1>7, <2>1
  <2>3. Rollup(Said \cup {st}) = "SUCCEEDED"
    BY <1>6, <2>2, RollupOfOne
  <2>4. \A s \in Stages : stage'[r][s].state = "SUCCEEDED"
    BY <1>0, <1>3, <2>1, <2>2
  <2>5. QED BY <1>2, <2>3, <2>4 DEF Terminal
<1>8. CASE worker[w].prior # "NONE"
  <2>1. PICK s \in 1..(N - 1) : stage[r][s].state = st
    BY <1>5, <1>8
  <2>2. st # "SUCCEEDED" /\ st # "ABSENT" /\ st \in Terminal
    BY <1>5, <1>6, <1>8 DEF Terminal
  <2>3. \A t \in 1..(N - 1) : t < s => stage[r][t].state = "SUCCEEDED"
    BY <2>1, <2>2 DEF StagesInOrder
  <2>4. \A t \in 1..(N - 1) : t > s => stage[r][t].state = "ABSENT"
    BY <2>1, <2>2 DEF StagesInOrder
  <2>5. \A t \in 1..(N - 1) : stage[r][t].state \in {"SUCCEEDED", "ABSENT", st}
    <3>1. \A t \in 1..(N - 1) : t < s \/ t = s \/ t > s
      BY <1>0
    <3>2. QED BY <2>1, <2>3, <2>4, <3>1
  <2>6. Said \cup {st} \in SUBSET {"SUCCEEDED", st}
    BY <2>5
  <2>7. Rollup(Said \cup {st}) = st
    BY <1>6, <2>6, RollupOfOne
  <2>8. runState'[r] = st
    BY <1>2, <2>7
  <2>9. \A t \in Stages : stage'[r][t].state \in Terminal \cup {"ABSENT"}
    BY <1>0, <1>3, <1>4, <2>2
  <2>10. QED BY <1>3, <2>1, <2>2, <2>3, <2>4, <2>8, <2>9
<1>9. QED BY <1>7, <1>8

LEMMA NothingIsMaskedStep ==
  ASSUME NEW X, Typed(X), CallsHaveRuns, CallsFollowStages, StagesInOrder, NothingIsMasked, Steps(X)
  PROVE  NothingIsMasked'
<1>0. SUFFICES ASSUME NEW r \in Runs, runState'[r] \in Terminal
      PROVE  /\ \A s \in Stages : stage'[r][s].state \in Terminal \cup {"ABSENT"}
             /\ runState'[r] = "SUCCEEDED" => \A s \in Stages : stage'[r][s].state = "SUCCEEDED"
             /\ runState'[r] # "SUCCEEDED" =>
                  \E s \in 1..(N - 1) :
                     /\ stage'[r][s].state = runState'[r]
                     /\ \A t \in 1..(N - 1) : t < s => stage'[r][t].state = "SUCCEEDED"
                     /\ \A t \in 1..(N - 1) : t > s => stage'[r][t].state = "ABSENT"
  BY DEF NothingIsMasked
\* Which steps change the state of this run, or one of its stages.
<1>1. \/ runState'[r] = runState[r]
      \/ \E w \in Workers :
           \/ worker[w].run = r /\ (BeginStage(w) \/ MarkRetryable(w) \/ FinalizeStage(w))
           \/ CreateRun(w, r)
  <2>1. ASSUME NEW w \in Workers, BeginStage(w) \/ MarkRetryable(w) \/ FinalizeStage(w)
        PROVE  worker[w].run = r \/ runState'[r] = runState[r]
    <3>1. runState' = runState \/ \E st : runState' = [runState EXCEPT ![worker[w].run] = st]
      BY <2>1 DEF BeginStage, MarkRetryable, FinalizeStage, SetRun
    <3>2. QED BY <3>1 DEF Typed
  <2>2. ASSUME NEW w \in Workers, NEW q \in Runs, CreateRun(w, q)
        PROVE  q = r \/ runState'[r] = runState[r]
    BY <2>2 DEF CreateRun, Typed
  <2>3. QED BY <2>1, <2>2, WhoChanges
<1>2. CASE runState[r] \in Terminal
  <2>1. /\ \A s \in Stages : stage[r][s].state \in Terminal \cup {"ABSENT"}
        /\ runState[r] = "SUCCEEDED" => \A s \in Stages : stage[r][s].state = "SUCCEEDED"
        /\ runState[r] # "SUCCEEDED" =>
             \E s \in 1..(N - 1) :
                /\ stage[r][s].state = runState[r]
                /\ \A t \in 1..(N - 1) : t < s => stage[r][t].state = "SUCCEEDED"
                /\ \A t \in 1..(N - 1) : t > s => stage[r][t].state = "ABSENT"
    BY <1>2 DEF NothingIsMasked
  <2>2. \A s \in Stages : stage[r][s].state # "RUNNING"
    BY <2>1 DEF Terminal
  <2>3. \A s \in Stages : stage'[r][s] = stage[r][s]
    BY <1>2, <2>2, StageMoves DEF Begins, Finalizes, Marks
  <2>4. ASSUME NEW w \in Workers, worker[w].run = r,
               BeginStage(w) \/ MarkRetryable(w) \/ FinalizeStage(w)
        PROVE  FALSE
    <3>1. worker[w].at \in Stages
      BY <2>4, CallIsTyped DEF BeginStage, MarkRetryable, FinalizeStage, At
    <3>2. ~BeginStage(w)
      BY <1>2, <2>4 DEF BeginStage, Startable
    <3>3. MarkRetryable(w) \/ FinalizeStage(w) => StageOf(w).state = "RUNNING"
      BY DEF MarkRetryable, FinalizeStage, Finalizable, HoldsFence
    <3>4. QED BY <2>2, <2>4, <3>1, <3>2, <3>3 DEF StageOf
  <2>5. \A w \in Workers : ~CreateRun(w, r)
    BY <1>2 DEF CreateRun, Terminal
  <2>6. runState'[r] = runState[r]
    BY <1>1, <2>4, <2>5
  <2>7. 1..(N - 1) \subseteq Stages
    BY ConstantsAssumption DEF Stages
  <2>8. QED BY <2>1, <2>3, <2>6, <2>7
<1>3. CASE runState[r] \notin Terminal
  <2>1. ASSUME NEW w \in Workers, worker[w].run = r, BeginStage(w) \/ MarkRetryable(w)
        PROVE  FALSE
    <3>1. runState'[r] = "RUNNING" \/ runState'[r] = "RETRYABLE"
      BY <2>1 DEF BeginStage, MarkRetryable, SetRun, Typed
    <3>2. QED BY <1>0, <3>1 DEF Terminal
  <2>2. \A w \in Workers : ~CreateRun(w, r)
    BY <1>0 DEF CreateRun, Typed, Terminal
  <2>3. PICK w \in Workers : worker[w].run = r /\ FinalizeStage(w)
    BY <1>0, <1>1, <1>3, <2>1, <2>2
  <2>4. worker[w].at = N
    BY <1>0, <1>3, <2>3 DEF FinalizeStage
  <2>5. QED BY <2>3, <2>4, ClosingMasksNothing
<1>4. QED BY <1>2, <1>3


LEMMA OrchestratedStep ==
  ASSUME NEW X, Typed(X), Orchestrated, Steps(X)
  PROVE  Typed(X)' /\ Orchestrated'
<1> USE DEF Orchestrated
<1>1. Typed(X)' /\ CallsHaveRuns'
  BY TypedStep, CallsHaveRunsStep
<1>2. AttemptsDecide' /\ StagesInOrder'
  BY AttemptsDecideStep, StagesInOrderStep
<1>3. CallsFollowStages' /\ InputsAreCommitted'
  BY CallsFollowStagesStep, InputsAreCommittedStep
<1>4. NothingIsMasked'
  BY NothingIsMaskedStep
<1>5. QED BY <1>1, <1>2, <1>3, <1>4

\* Nothing is there at first.
LEMMA OrchestratedInit ==
  ASSUME Init, NEW X, NoOutput \in X
  PROVE  Typed(X) /\ Orchestrated
<1>1. Typed(X)
  <2>1. Idle \in CallOf(X)
    BY ConstantsAssumption DEF Idle, CallOf, Points, Stages
  <2>2. NeverLeased \in Lease /\ LeftLive \in Lease
    BY DEF NeverLeased, LeftLive, Lease
  <2>3. [state |-> "ABSENT", input |-> NoOutput, output |-> NoOutput] \in RowOf(X)
    BY DEF RowOf
  <2>4. QED BY <2>1, <2>2, <2>3 DEF Init, Typed
<1>2. CallsHaveRuns /\ CallsFollowStages
  BY DEF Init, CallsHaveRuns, CallsFollowStages, At, Idle
<1>3. \A r \in Runs, s \in Stages : /\ stage[r][s].state = "ABSENT" /\ attempts[r][s] = {}
                                    /\ runState[r] = "ABSENT"
  BY DEF Init
<1>4. AttemptsDecide
  BY <1>3 DEF AttemptsDecide
<1>5. StagesInOrder /\ InputsAreCommitted /\ NothingIsMasked
  <2>1. 1..(N - 1) \subseteq Stages /\ 2..(N - 1) \subseteq Stages /\ N \in Stages
    BY ConstantsAssumption DEF Stages
  <2>2. StagesInOrder /\ InputsAreCommitted
    BY <1>3, <2>1 DEF StagesInOrder, InputsAreCommitted
  <2>3. NothingIsMasked
    BY <1>3, <2>1 DEF NothingIsMasked, Terminal
  <2>4. QED BY <2>2, <2>3
<1>6. QED BY <1>1, <1>2, <1>4, <1>5 DEF Orchestrated

\* Of the attempts of a stage the one with the greatest fence decides.
LEMMA LastDecidesOf ==
  ASSUME NEW X, Typed(X), Orchestrated, NEW r \in Runs, NEW s \in Stages
  PROVE  /\ Cardinality(Running(r, s)) = IF stage[r][s].state = "RUNNING" THEN 1 ELSE 0
         /\ \A a \in attempts[r][s] :
              /\ a.fence <= lease[s].fence
              /\ a.state = IF \E b \in attempts[r][s] : b.fence > a.fence
                           THEN "RETRYABLE" ELSE stage[r][s].state
<1> DEFINE as == attempts[r][s]
<1>1. /\ \A a \in as : /\ a.fence <= lease[s].fence
                       /\ ~IsLast(a, as) => a.state = "RETRYABLE"
                       /\ IsLast(a, as) => a.state = stage[r][s].state
      /\ \A a, b \in as : a.fence = b.fence => a = b
      /\ IF stage[r][s].state = "ABSENT" THEN as = {} ELSE \E a \in as : IsLast(a, as)
  BY DEF Orchestrated, AttemptsDecide
<1>2. \A a \in as : a.fence \in Nat
  BY DEF Typed, Attempt
<1>3. \A a \in as : IsLast(a, as) <=> ~(\E b \in as : b.fence > a.fence)
  BY <1>2 DEF IsLast
<1>4. CASE stage[r][s].state = "RUNNING"
  <2>1. PICK a \in as : IsLast(a, as)
    BY <1>1, <1>4
  <2>2. \A b \in as : IsLast(b, as) => b = a
    BY <1>1, <1>2, <2>1 DEF IsLast
  <2>3. Running(r, s) = {a}
    BY <1>1, <1>4, <2>1, <2>2 DEF Running
  <2>4. QED BY <1>1, <1>3, <1>4, <2>3, FS_Singleton
<1>5. CASE stage[r][s].state # "RUNNING"
  <2>1. Running(r, s) = {}
    BY <1>1, <1>5 DEF Running
  <2>2. QED BY <1>1, <1>3, <1>5, <2>1, FS_EmptySet
<1>6. QED BY <1>4, <1>5

LEMMA LastDecides ==
  ASSUME NEW X, Typed(X), Orchestrated
  PROVE  FenceDecides
BY LastDecidesOf DEF FenceDecides

----------------------------------------------------------------------------
(***************************************************************************)
(* The theorems of ShadowOrchestration.                                    *)
(***************************************************************************)
IInv == TypeOK /\ Orchestrated

LEMMA TypesAgree == TypeOK <=> Typed(Outputs \cup {NoOutput}) /\ faults \in 0..MaxFaults
<1>1. PICK X : X = Outputs \cup {NoOutput}
  OBVIOUS
<1>2. StageRow = RowOf(X) /\ Call = CallOf(X)
  BY <1>1 DEF StageRow, RowOf, Call, CallOf
<1>3. TypeOK <=> Typed(X) /\ faults \in 0..MaxFaults
  BY <1>1, <1>2 DEF TypeOK, Typed
<1>4. QED BY <1>1, <1>3

LEMMA IInvInit == Init => IInv
<1>1. Init => faults \in 0..MaxFaults
  BY ConstantsAssumption DEF Init
<1>2. QED BY <1>1, OrchestratedInit, TypesAgree DEF IInv

\* The handlers of the base module are among those that may return anything.
LEMMA StepsOfNext ==
  ASSUME NEW X, X = Outputs \cup {NoOutput}, [Next]_vars
  PROVE  Steps(X) /\ (UNCHANGED faults \/ Fault)
<1>1. UNCHANGED faults \/ Fault
  BY DEF Next, Step, vars, CreateRun, ReuseRun, LoadSucceeded, LoadNothing, LoadRefused,
    BeginStage, BeginRefused, HandlerEnds, HandlerFails, FinalizeStage, MarkRetryable,
    PersistRefused, Crash, LeaseExpires
<1>2. ASSUME NEW w \in Workers, HandlerEnds(w)
      PROVE  Returns(w, X)
  BY <1>2, ConstantsAssumption DEF HandlerEnds, Returns, EndStates
<1>3. ASSUME NEW w \in Workers
      PROVE  /\ LoadRefused(w) \/ BeginRefused(w) \/ PersistRefused(w) \/ Crash(w) => Quits(w)
             /\ HandlerFails(w) => Stops(w)
  BY DEF LoadRefused, BeginRefused, PersistRefused, Crash, Quits, HandlerFails, Stops
<1>4. Steps(X)
  BY <1>2, <1>3 DEF Next, Step, vars, Steps
<1>5. QED BY <1>1, <1>4

LEMMA IInvStep == IInv /\ [Next]_vars => IInv'
<1> SUFFICES ASSUME IInv, [Next]_vars PROVE IInv'
  OBVIOUS
<1>1. PICK X : X = Outputs \cup {NoOutput}
  OBVIOUS
<1>2. StageRow = RowOf(X) /\ Call = CallOf(X)
  BY <1>1 DEF StageRow, RowOf, Call, CallOf
<1>3. Typed(X) /\ Orchestrated /\ faults \in 0..MaxFaults /\ Steps(X) /\ (UNCHANGED faults \/ Fault)
  BY <1>1, TypesAgree, StepsOfNext DEF IInv
<1>4. Typed(X)' /\ Orchestrated'
  BY <1>3, OrchestratedStep
<1>5. faults' \in 0..MaxFaults
  BY <1>3, ConstantsAssumption DEF Fault
<1>6. TypeOK'
  BY <1>1, <1>2, <1>4, <1>5 DEF TypeOK, Typed
<1>7. QED BY <1>4, <1>6 DEF IInv

\* Every reachable state satisfies the inductive invariant: how many workers run
\* a shadow run, are replaced, crash or overrun their leases makes no difference.
THEOREM Invariant == Spec => []IInv
BY IInvInit, IInvStep, PTL DEF Spec

\* Every variable of the orchestration keeps its type.
THEOREM TypeCorrect == Spec => []TypeOK
<1>1. IInv => TypeOK
  BY DEF IInv
<1>2. QED BY <1>1, Invariant, PTL

\* However many workers were replaced while they computed, a RUNNING stage has
\* exactly one running attempt, the one with the greatest fence is the one that
\* decides it, and every other was given up (start and finalize of 034).
THEOREM GreatestFenceDecides == Spec => []FenceDecides
<1>1. IInv => FenceDecides
  BY LastDecides, TypesAgree DEF IInv
<1>2. QED BY <1>1, Invariant, PTL

\* A stage works on what its predecessor committed, even when several workers
\* computed different outputs for that predecessor.
THEOREM CommittedInputs == Spec => []InputsAreCommitted
<1>1. IInv => InputsAreCommitted
  BY DEF IInv, Orchestrated
<1>2. QED BY <1>1, Invariant, PTL

\* A closed run says what its stages said: step9_shadow_run_rollup_v1 hides no
\* outcome, in whichever order the workers of the run committed them.
THEOREM OutcomesAreReported == Spec => []NothingIsMasked
<1>1. IInv => NothingIsMasked
  BY DEF IInv, Orchestrated
<1>2. QED BY <1>1, Invariant, PTL

----------------------------------------------------------------------------
(***************************************************************************)
(* The manual run: what its handlers do to the call that runs them.        *)
(***************************************************************************)
\* What a call does, as opposed to the environment.
CallStep(w) ==
  \/ \E r \in Runs : Enter(w, r)
  \/ Resume(w) \/ ResumeRefused(w)
  \/ Around(w, LoadNothing(w)) \/ Around(w, LoadRefused(w))
  \/ Begin(w) \/ Around(w, BeginRefused(w))
  \/ Handler(w) \/ Interrupted(w)
  \/ Around(w, FinalizeStage(w)) \/ Around(w, MarkRetryable(w))
  \/ Around(w, PersistRefused(w)) \/ Around(w, Crash(w))

orchestration == <<runState, stage, attempts, lease>>

\* A handler goes on, is over and gives x in state st, fails, or throws past the worker.
HandlerEndsIn(w, st, x) ==
  Ends(w, st, x) /\ UNCHANGED orchestration /\ (worker[w].at = N => st = "SUCCEEDED")
HandlerMoves(w) ==
  /\ At(w, "handle")
  /\ \/ UNCHANGED <<orchestration, worker>>
     \/ \E x : \E st \in EndStates : HandlerEndsIn(w, st, x)
     \/ Stops(w) \/ Quits(w)

LEMMA ThrowMoves ==
  ASSUME NEW w \in Workers, At(w, "handle"), worker[w].at # N,
         NEW st \in EndStates \cup {"RETRYABLE"}, NEW code, Throws(w, st, code)
  PROVE  HandlerMoves(w)
<1>1. CASE st = "RETRYABLE"
  BY <1>1 DEF Throws, HandlerMoves, Stops
<1>2. CASE st # "RETRYABLE"
  <2>1. PICK x : x = [reasonCode |-> code]
    OBVIOUS
  <2>2. st \in EndStates /\ HandlerEndsIn(w, st, x)
    BY <1>2, <2>1 DEF Throws, HandlerEndsIn, orchestration
  <2>3. QED BY <2>2 DEF HandlerMoves
<1>3. QED BY <1>1, <1>2

LEMMA SuccessMoves ==
  ASSUME NEW w \in Workers, At(w, "handle"), NEW x, NEW v, Succeeds(w, x, v)
  PROVE  HandlerMoves(w)
<1>1. "SUCCEEDED" \in EndStates /\ HandlerEndsIn(w, "SUCCEEDED", x)
  BY DEF Succeeds, HandlerEndsIn, orchestration, EndStates, Terminal
<1>2. QED BY <1>1 DEF HandlerMoves

LEMMA ContinueMoves ==
  ASSUME NEW w \in Workers, At(w, "handle"), NEW v, Continue(w, v)
  PROVE  HandlerMoves(w)
BY DEF Continue, HandlerMoves, orchestration, vars

LEMMA HandlersMove ==
  ASSUME NEW w \in Workers, Handler(w) \/ Interrupted(w)
  PROVE  HandlerMoves(w)
<1>0. /\ N = 8 /\ Ingestion # N /\ Extraction # N /\ CanonicalUpdate # N /\ Reconciliation # N
      /\ BalanceProof # N /\ PolicyEvaluation # N /\ Step8Planning # N
  BY ManualAssumption DEF ExceptionOutput, Ingestion, Extraction, CanonicalUpdate,
    Reconciliation, BalanceProof, PolicyEvaluation, Step8Planning
<1>1. {"BLOCKED", "REVIEW_REQUIRED", "UNCERTAIN", "FAILED_SAFE", "SUCCEEDED", "RETRYABLE"}
        \subseteq EndStates \cup {"RETRYABLE"}
  BY DEF EndStates, Terminal
<1>2. Ingest(w) => HandlerMoves(w)
  BY <1>0, <1>1, ThrowMoves, SuccessMoves DEF Ingest, Handling
<1>3. VerifyArtifact(w) \/ FindExtraction(w) \/ RecordExtraction(w) => HandlerMoves(w)
  BY <1>0, <1>1, ThrowMoves, SuccessMoves, ContinueMoves
  DEF VerifyArtifact, FindExtraction, RecordExtraction, Handling
<1>4. StartImport(w) \/ Observe(w) => HandlerMoves(w)
  BY <1>0, <1>1, ThrowMoves, SuccessMoves, ContinueMoves DEF StartImport, Observe, Handling
<1>5. FreezeFrontier(w) \/ RecordInput(w) \/ ComputeMatches(w) => HandlerMoves(w)
  BY <1>0, <1>1, ThrowMoves, ContinueMoves
  DEF FreezeFrontier, RecordInput, ComputeMatches, Handling
<1>6. LoadOutput(w) \/ RecordOutput(w) => HandlerMoves(w)
  BY <1>0, <1>1, ThrowMoves, SuccessMoves, ContinueMoves DEF LoadOutput, RecordOutput, Handling
<1>7. ReadLedger(w) \/ ReadOpening(w) \/ ReadClosing(w) => HandlerMoves(w)
  BY <1>0, <1>1, ThrowMoves, SuccessMoves, ContinueMoves
  DEF ReadLedger, ReadOpening, ReadClosing, Handling
<1>8. LoadBundle(w) \/ LoadPolicy(w) \/ PolicyUnbound(w) => HandlerMoves(w)
  BY ContinueMoves DEF LoadBundle, LoadPolicy, PolicyUnbound, Handling, HandlerMoves, Quits
<1>9. ASSUME RecordDecision(w) PROVE HandlerMoves(w)
  <2>1. At(w, "handle") /\ worker[w].at # N
    BY <1>0, <1>9 DEF RecordDecision, Handling
  <2>2. CASE AuditMatches(w)
    <3>1. \E x : \E st \in {"SUCCEEDED", "BLOCKED", "REVIEW_REQUIRED"} :
             Ends(w, st, x) /\ UNCHANGED orchestration
      BY <1>9, <2>2, Zenon DEF RecordDecision, orchestration
    <3>2. QED BY <1>1, <2>1, <3>1 DEF HandlerMoves, HandlerEndsIn
  <2>3. CASE ~AuditMatches(w)
    BY <1>1, <1>9, <2>1, <2>3, ThrowMoves DEF RecordDecision
  <2>4. QED BY <2>2, <2>3
<1>10. ASSUME PlanCorrection(w) PROVE HandlerMoves(w)
  <2>1. At(w, "handle") /\ worker[w].at # N
    BY <1>0, <1>10 DEF PlanCorrection, Handling
  <2>2. PICK verdict : verdict = Planner!PlanReversibility(plan.planningInput)
    OBVIOUS
  <2>3. \/ \E st \in {"SUCCEEDED", "FAILED_SAFE", "REVIEW_REQUIRED"} :
             Ends(w, st, verdict) /\ UNCHANGED orchestration
        \/ Throws(w, "RETRYABLE", "STEP8_DEPENDENCIES_MISSING_BLOCKED")
    BY <1>10, <2>2 DEF PlanCorrection, orchestration
  <2>4. QED BY <1>1, <2>1, <2>3, ThrowMoves DEF HandlerMoves, HandlerEndsIn
<1>11. RecordException(w) => HandlerMoves(w)
  BY SuccessMoves DEF RecordException, Handling
<1>12. Interrupted(w) => HandlerMoves(w)
  BY DEF Interrupted, HandlerFails, HandlerMoves, Stops, orchestration
<1>13. QED BY <1>2, <1>3, <1>4, <1>5, <1>6, <1>7, <1>8, <1>9, <1>10, <1>11, <1>12 DEF Handler

\* The handlers of a manual run are among those that may return anything.
LEMMA StepsOfManual ==
  ASSUME NEW X, Typed(X), [ManualNext]_manualVars,
         NEW Y, X \subseteq Y, \A w \in Workers : worker'[w].output \in Y
  PROVE  Steps(Y)
<1>1. ASSUME NEW w \in Workers, CallStep(w) PROVE Steps(Y)
  <2>1. CASE Handler(w) \/ Interrupted(w)
    <3>1. HandlerMoves(w)
      BY <2>1, HandlersMove
    <3>2. ASSUME NEW x, NEW st \in EndStates, HandlerEndsIn(w, st, x), At(w, "handle")
          PROVE  Returns(w, Y)
      <4>1. worker'[w].output = x
        BY <3>2 DEF HandlerEndsIn, Ends, Typed, CallOf
      <4>2. QED BY <3>2, <4>1 DEF HandlerEndsIn, Ends, Returns, orchestration
    <3>3. QED BY <3>1, <3>2 DEF HandlerMoves, Steps, orchestration
  <2>2. CASE ~(Handler(w) \/ Interrupted(w))
    <3>1. \/ \E r \in Runs : CreateRun(w, r) \/ ReuseRun(w, r)
          \/ LoadSucceeded(w) \/ LoadNothing(w) \/ BeginStage(w)
          \/ LoadRefused(w) \/ BeginRefused(w) \/ PersistRefused(w) \/ Crash(w)
          \/ Quits(w) \/ FinalizeStage(w) \/ MarkRetryable(w)
      BY <1>1, <2>2 DEF CallStep, Enter, Resume, ResumeRefused, Around, Begin, Quits
    <3>2. LoadRefused(w) \/ BeginRefused(w) \/ PersistRefused(w) \/ Crash(w) => Quits(w)
      BY DEF LoadRefused, BeginRefused, PersistRefused, Crash, Quits
    <3>3. QED BY <3>1, <3>2 DEF Steps
  <2>3. QED BY <2>1, <2>2
<1>2. CASE Environment \/ UNCHANGED manualVars
  BY <1>2 DEF Environment, ArchiveArtifact, ImportArrives, MatchRejected, BookkeeperPosts,
    PublishBundle, RecordPolicy, Disturb, manualVars, vars, Steps
<1>3. ASSUME NEW s \in Stages, LeaseRunsOut(s) PROVE Steps(Y)
  BY <1>3 DEF LeaseRunsOut, Steps
<1>4. QED BY <1>1, <1>2, <1>3 DEF ManualNext, CallStep

SomeTyped == \E X : Typed(X)

LEMMA ManualMoves ==
  ASSUME SomeTyped, Orchestrated, [ManualNext]_manualVars
  PROVE  SomeTyped' /\ Orchestrated' /\ \E Y : Typed(Y) /\ Steps(Y)
<1>1. PICK X : Typed(X)
  BY DEF SomeTyped
<1>2. PICK Y : Y = X \cup {worker'[w].output : w \in Workers}
  OBVIOUS
<1>3. Steps(Y)
  BY <1>1, <1>2, StepsOfManual
<1>4. RowOf(X) \subseteq RowOf(Y) /\ CallOf(X) \subseteq CallOf(Y)
  BY <1>2 DEF RowOf, CallOf
<1>5. Typed(Y)
  <2>1. [Stages -> RowOf(X)] \subseteq [Stages -> RowOf(Y)]
    BY <1>4
  <2>2. stage \in [Runs -> [Stages -> RowOf(Y)]]
    BY <1>1, <2>1 DEF Typed
  <2>3. worker \in [Workers -> CallOf(Y)] /\ NoOutput \in Y
    BY <1>1, <1>2, <1>4 DEF Typed
  <2>4. QED BY <1>1, <2>2, <2>3 DEF Typed
<1>6. Typed(Y)' /\ Orchestrated'
  BY <1>3, <1>5, OrchestratedStep
<1>7. SomeTyped'
  BY <1>6 DEF SomeTyped
<1>8. QED BY <1>3, <1>5, <1>6, <1>7

----------------------------------------------------------------------------
(***************************************************************************)
(* The closures of the calls.                                              *)
(***************************************************************************)
ClosuresOK ==
  DOMAIN local = Workers /\ \A w \in Workers : DOMAIN local[w] = DOMAIN Nothing

LEMMA FieldsOfNothing ==
  DOMAIN Nothing = {"step", "ref", "reconciled", "balanced", "decided", "bundleId", "policyId",
                    "bundle", "policy", "frozen", "after", "rows", "opening"}
BY DEF Nothing

\* Where a step leaves a call: between two handlers, at the start of one, in
\* the same one, or past it.
LEMMA CallGoes ==
  ASSUME SomeTyped, Orchestrated, NEW w \in Workers, CallStep(w)
  PROVE  /\ \A v \in Workers : v # w => worker'[v] = worker[v]
         /\ \/ worker'[w].pc \in {"idle", "load", "begin", "retry"}
            \/ Begin(w)
            \/ Handler(w) /\ UNCHANGED <<orchestration, worker>>
            \/ Handler(w) /\ \E x : \E st \in EndStates : HandlerEndsIn(w, st, x)
<1>0. PICK X : Typed(X)
  BY DEF SomeTyped
<1>1. worker \in [Workers -> CallOf(X)] /\ Idle.pc = "idle"
  BY <1>0 DEF Typed, Idle
<1>2. CASE Handler(w) \/ Interrupted(w)
  <2>1. HandlerMoves(w)
    BY <1>2, HandlersMove
  <2>2. \A v \in Workers : v # w => worker'[v] = worker[v]
    <3>1. \/ UNCHANGED worker \/ Leave(w) \/ Goto(w, "retry")
          \/ \E x : \E st \in EndStates : Ends(w, st, x)
      BY <2>1 DEF HandlerMoves, Stops, Quits, HandlerEndsIn
    <3>2. ASSUME NEW x, NEW st, Ends(w, st, x)
          PROVE  \A v \in Workers : v # w => worker'[v] = worker[v]
      BY <1>1, <3>2 DEF Ends
    <3>3. Leave(w) \/ Goto(w, "retry") => \A v \in Workers : v # w => worker'[v] = worker[v]
      BY <1>1 DEF Leave, Goto
    <3>4. QED BY <3>1, <3>2, <3>3
  <2>3. Interrupted(w) => worker'[w].pc = "retry"
    BY <1>1 DEF Interrupted, HandlerFails, Goto, CallOf
  <2>4. Stops(w) \/ Quits(w) => worker'[w].pc \in {"idle", "retry"}
    BY <1>1 DEF Stops, Quits, Goto, Leave, CallOf
  <2>5. QED BY <1>2, <2>1, <2>2, <2>3, <2>4 DEF HandlerMoves
<1>3. CASE \E r \in Runs : Enter(w, r)
  <2>1. PICK r \in Runs : CreateRun(w, r) \/ ReuseRun(w, r)
    BY <1>3 DEF Enter
  <2>2. PICK d : d.pc \in {"load", "begin"} /\ worker' = [worker EXCEPT ![w] = d]
    <3>1. PICK a : a = [Idle EXCEPT !.pc = "begin", !.run = r]
      OBVIOUS
    <3>2. PICK b : b = [Idle EXCEPT !.pc = "load", !.run = r, !.reused = TRUE]
      OBVIOUS
    <3>3. a.pc = "begin" /\ b.pc = "load"
      BY <3>1, <3>2 DEF Idle
    <3>4. worker' = [worker EXCEPT ![w] = a] \/ worker' = [worker EXCEPT ![w] = b]
      BY <2>1, <3>1, <3>2 DEF CreateRun, ReuseRun
    <3>5. QED BY <3>3, <3>4
  <2>3. QED BY <1>1, <2>2
<1>4. CASE Around(w, LoadNothing(w))
  BY <1>1, <1>4 DEF Around, LoadNothing, Goto, CallOf
<1>5. CASE Begin(w)
  BY <1>1, <1>5 DEF Begin, Around, BeginStage
<1>6. CASE Resume(w) \/ Around(w, FinalizeStage(w))
  <2>1. PICK st, x : Advance(w, st, x)
    BY <1>6 DEF Resume, Around, LoadSucceeded, FinalizeStage
  <2>2. /\ \A v \in Workers : v # w => worker'[v] = worker[v]
        /\ worker'[w].pc \in {"idle", "load", "begin"}
    <3>1. CASE worker[w].at = N
      BY <1>1, <2>1, <3>1 DEF Advance, Leave
    <3>2. CASE worker[w].at # N
      <4>1. PICK prior, at : \E pc \in {"load", "begin"} :
              worker' = [worker EXCEPT ![w] = [Idle EXCEPT !.pc = pc, !.run = worker[w].run,
                !.at = at, !.reused = worker[w].reused, !.dep = x, !.prior = prior]]
        BY <2>1, <3>2 DEF Advance
      <4>2. PICK pc \in {"load", "begin"} :
              worker' = [worker EXCEPT ![w] = [Idle EXCEPT !.pc = pc, !.run = worker[w].run,
                !.at = at, !.reused = worker[w].reused, !.dep = x, !.prior = prior]]
        BY <4>1
      <4>3. PICK d : d = [Idle EXCEPT !.pc = pc, !.run = worker[w].run, !.at = at,
                                      !.reused = worker[w].reused, !.dep = x, !.prior = prior]
        OBVIOUS
      <4>4. d.pc \in {"idle", "load", "begin"}
        BY <4>3 DEF Idle
      <4>5. worker' = [worker EXCEPT ![w] = d]
        BY <4>2, <4>3
      <4>6. QED BY <1>1, <4>4, <4>5
    <3>3. QED BY <3>1, <3>2
  <2>3. QED BY <2>2
<1>7. CASE Leave(w)
  BY <1>1, <1>7 DEF Leave
<1>8. QED
  BY <1>2, <1>3, <1>4, <1>5, <1>6, <1>7 DEF CallStep, ResumeRefused, Around, LoadRefused, BeginRefused,
    MarkRetryable, PersistRefused, Crash

\* A call keeps the ids it entered with, and the shape of its closure.
LEMMA ClosuresMove ==
  ASSUME SomeTyped, ClosuresOK, NEW w \in Workers, CallStep(w)
  PROVE  /\ ClosuresOK'
         /\ \A v \in Workers : v # w => local'[v] = local[v]
         /\ \/ worker'[w] = Idle
            \/ \E r \in Runs : Enter(w, r)
            \/ /\ ~At(w, "idle")
               /\ local'[w].bundleId = local[w].bundleId
               /\ local'[w].policyId = local[w].policyId
<1> DEFINE Kept == /\ ~At(w, "idle")
                   /\ local'[w].bundleId = local[w].bundleId
                   /\ local'[w].policyId = local[w].policyId
           Shaped == /\ DOMAIN local' = Workers /\ DOMAIN local'[w] = DOMAIN Nothing
                     /\ \A v \in Workers : v # w => local'[v] = local[v]
<1> USE FieldsOfNothing DEF ClosuresOK
<1>0. DOMAIN worker = Workers
  BY DEF SomeTyped, Typed
<1>1. ASSUME NEW r \in Runs, Enter(w, r) PROVE Shaped
  BY <1>1 DEF Enter
<1>2. ASSUME local' = [local EXCEPT ![w] = Keep(w)], ~At(w, "idle")
      PROVE  Shaped /\ (worker'[w] = Idle \/ Kept)
  BY <1>2 DEF Keep
<1>3. ASSUME Resume(w) PROVE Shaped /\ Kept
  <2>1. PICK v : v = Hydrated(local[w], worker[w].at, StageOf(w).output)
    OBVIOUS
  <2>2. /\ DOMAIN v = DOMAIN Nothing
        /\ v.bundleId = local[w].bundleId /\ v.policyId = local[w].policyId
    BY <2>1 DEF Hydrated
  <2>3. local' = [local EXCEPT ![w] = v] /\ ~At(w, "idle")
    BY <1>3, <2>1 DEF Resume, LoadSucceeded, At
  <2>4. QED BY <2>2, <2>3
<1>4. ASSUME ResumeRefused(w) PROVE Shaped /\ worker'[w] = Idle
  BY <1>0, <1>4 DEF ResumeRefused, Leave
<1>5. ASSUME \/ Around(w, LoadNothing(w)) \/ Around(w, LoadRefused(w))
             \/ Around(w, BeginRefused(w)) \/ Around(w, FinalizeStage(w))
             \/ Around(w, MarkRetryable(w)) \/ Around(w, PersistRefused(w))
             \/ Around(w, Crash(w)) \/ Begin(w) \/ Interrupted(w)
      PROVE  local' = [local EXCEPT ![w] = Keep(w)] /\ ~At(w, "idle")
  BY <1>5 DEF Around, LoadNothing, LoadRefused, BeginRefused, FinalizeStage, MarkRetryable,
    PersistRefused, Crash, Begin, BeginStage, Interrupted, HandlerFails, At
<1>6. ASSUME NEW v, local' = [local EXCEPT ![w] = v], DOMAIN v = DOMAIN Nothing, At(w, "handle"),
             v.bundleId = local[w].bundleId, v.policyId = local[w].policyId
      PROVE  Shaped /\ Kept
  BY <1>6 DEF At
<1>7. ASSUME NEW st, NEW code, Throws(w, st, code), At(w, "handle")
      PROVE  Shaped /\ Kept
  BY <1>7 DEF Throws, At
<1>8. ASSUME Ingest(w) \/ VerifyArtifact(w) \/ FindExtraction(w) \/ RecordExtraction(w)
      PROVE  Shaped /\ Kept
  BY <1>7, <1>8 DEF Ingest, VerifyArtifact, FindExtraction, RecordExtraction, Handling, Succeeds,
    Continue, At
<1>9. ASSUME StartImport(w) \/ Observe(w) PROVE Shaped /\ Kept
  BY <1>7, <1>9 DEF StartImport, Observe, Handling, Succeeds, Continue, At
<1>10. ASSUME FreezeFrontier(w) \/ RecordInput(w) \/ ComputeMatches(w) PROVE Shaped /\ Kept
  <2>1. CASE FreezeFrontier(w)
    <3>1. PICK m : m = Manifest
      OBVIOUS
    <3>2. Continue(w, [local[w] EXCEPT !.step = "input", !.frozen = m])
      BY <2>1, <3>1 DEF FreezeFrontier
    <3>3. QED BY <2>1, <3>2 DEF FreezeFrontier, Handling, Continue, At
  <2>2. CASE RecordInput(w)
    BY <1>7, <2>2 DEF RecordInput, Handling, Continue, At
  <2>3. CASE ComputeMatches(w)
    <3>1. Continue(w, [local[w] EXCEPT !.step = "after"]) /\ At(w, "handle")
      BY <2>3 DEF ComputeMatches, Handling
    <3>2. QED BY <3>1 DEF Continue, At
  <2>4. QED BY <1>10, <2>1, <2>2, <2>3
<1>11. ASSUME LoadOutput(w) \/ RecordOutput(w) PROVE Shaped /\ Kept
  BY <1>7, <1>11 DEF LoadOutput, RecordOutput, Handling, Succeeds, Continue, At
<1>12. ASSUME ReadLedger(w) \/ ReadOpening(w) PROVE Shaped /\ Kept
  <2>1. CASE ReadLedger(w)
    <3>1. PICK gl : gl = GeneralLedger
      OBVIOUS
    <3>2. \/ Continue(w, [local[w] EXCEPT !.step = "opening", !.after = gl])
          \/ \E code : Throws(w, "RETRYABLE", code)
      BY <2>1, <3>1 DEF ReadLedger
    <3>3. QED BY <1>7, <2>1, <3>2 DEF ReadLedger, Handling, Continue, At
  <2>2. CASE ReadOpening(w)
    <3>1. PICK tb : tb = TrialBalance(PeriodStart - 1)
      OBVIOUS
    <3>2. Continue(w, [local[w] EXCEPT !.step = "closing", !.opening = tb])
      BY <2>2, <3>1 DEF ReadOpening
    <3>3. QED BY <2>2, <3>2 DEF ReadOpening, Handling, Continue, At
  <2>3. QED BY <1>12, <2>1, <2>2
<1>13. ASSUME ReadClosing(w) PROVE Shaped /\ Kept
  BY <1>7, <1>13 DEF ReadClosing, Handling, Succeeds, At
<1>14. ASSUME LoadBundle(w) \/ LoadPolicy(w) PROVE Shaped /\ Kept
  BY <1>14 DEF LoadBundle, LoadPolicy, Handling, Continue, At
<1>15. ASSUME PolicyUnbound(w) PROVE Shaped /\ worker'[w] = Idle
  BY <1>0, <1>15 DEF PolicyUnbound, Leave
<1>16. ASSUME RecordDecision(w) PROVE Shaped /\ Kept
  BY <1>7, <1>16 DEF RecordDecision, Handling, At
<1>17. ASSUME PlanCorrection(w) \/ RecordException(w) PROVE Shaped /\ Kept
  BY <1>7, <1>17 DEF PlanCorrection, RecordException, Handling, Succeeds, At
<1>18. ASSUME Shaped PROVE ClosuresOK'
  BY <1>18
<1> HIDE DEF Kept, Shaped
<1>19. /\ Shaped
       /\ worker'[w] = Idle \/ (\E r \in Runs : Enter(w, r)) \/ Kept
  BY <1>1, <1>2, <1>3, <1>4, <1>5, <1>8, <1>9, <1>10, <1>11, <1>12, <1>13, <1>14, <1>15, <1>16,
    <1>17 DEF CallStep, Handler
<1>20. QED BY <1>18, <1>19 DEF Kept, Shaped

----------------------------------------------------------------------------
(***************************************************************************)
(* What the steps of a manual run change of the domain.                    *)
(***************************************************************************)
LEMMA CallsChange ==
  ASSUME NEW w \in Workers, CallStep(w)
  PROVE  /\ UNCHANGED <<plan, bundles, policies>>
         /\ UNCHANGED decisions \/ RecordDecision(w)
         /\ UNCHANGED snapshots \/ RecordInput(w) \/ RecordOutput(w)
         /\ UNCHANGED frontier \/ ComputeMatches(w)
         /\ UNCHANGED proofs \/ ReadClosing(w)
<1> USE DEF domain, evidence, given, balances, policyVars
<1>1. CASE UNCHANGED domain
  BY <1>1
<1>2. CASE \E r \in Runs : Enter(w, r)
  BY <1>2 DEF Enter
<1>3. CASE Ingest(w) \/ VerifyArtifact(w) \/ FindExtraction(w) \/ RecordExtraction(w)
  BY <1>3 DEF Ingest, VerifyArtifact, FindExtraction, RecordExtraction
<1>4. CASE StartImport(w) \/ Observe(w)
  BY <1>4 DEF StartImport, Observe
<1>5. CASE FreezeFrontier(w) \/ RecordInput(w) \/ ComputeMatches(w) \/ LoadOutput(w) \/ RecordOutput(w)
  BY <1>5 DEF FreezeFrontier, RecordInput, ComputeMatches, LoadOutput, RecordOutput
<1>6. CASE ReadLedger(w) \/ ReadOpening(w) \/ ReadClosing(w)
  BY <1>6 DEF ReadLedger, ReadOpening, ReadClosing
<1>7. CASE LoadBundle(w) \/ LoadPolicy(w) \/ PolicyUnbound(w) \/ RecordDecision(w)
  BY <1>7 DEF LoadBundle, LoadPolicy, PolicyUnbound, RecordDecision
<1>8. CASE PlanCorrection(w) \/ RecordException(w)
  BY <1>8 DEF PlanCorrection, RecordException
<1> HIDE DEF domain, evidence, given, balances, policyVars
<1>9. QED
  BY <1>1, <1>2, <1>3, <1>4, <1>5, <1>6, <1>7, <1>8 DEF CallStep, Handler, Around, Begin, Resume,
    ResumeRefused, Interrupted

LEMMA OthersChange ==
  ASSUME [ManualNext]_manualVars, ~\E w \in Workers : CallStep(w)
  PROVE  /\ UNCHANGED <<orchestration, worker>> \/ (\E s \in Stages : LeaseExpires(s))
         /\ UNCHANGED <<stage, worker, local, plan, snapshots, decisions, proofs>>
         /\ UNCHANGED frontier \/ ImportArrives \/ MatchRejected
         /\ UNCHANGED bundles \/ PublishBundle
         /\ UNCHANGED policies \/ RecordPolicy
<1> USE DEF domain, evidence, given, balances, policyVars, orchestration
<1>1. CASE UNCHANGED manualVars
  BY <1>1 DEF manualVars, vars
<1>2. CASE \E s \in Stages : LeaseRunsOut(s)
  BY <1>2 DEF LeaseRunsOut, LeaseExpires
<1>3. CASE ArchiveArtifact \/ ImportArrives \/ MatchRejected \/ BookkeeperPosts
  BY <1>3 DEF ArchiveArtifact, ImportArrives, MatchRejected, BookkeeperPosts, Disturb
<1>4. CASE PublishBundle \/ RecordPolicy
  BY <1>4 DEF PublishBundle, RecordPolicy, Disturb
<1>5. QED BY <1>1, <1>2, <1>3, <1>4 DEF ManualNext, CallStep, Environment

----------------------------------------------------------------------------
(***************************************************************************)
(* Bundles and policy snapshots are only ever added, so an id loaded       *)
(* before the run names the same artifact when the decision is recorded.   *)
(***************************************************************************)
ArtifactsOK ==
  /\ 1 \in DOMAIN bundles /\ \E S : bundles \in Seq(S)
  /\ 1 \in DOMAIN policies /\ \E S : policies \in Seq(S)
IdsStand ==
  \A w \in Workers : ~At(w, "idle") =>
    local[w].bundleId \in DOMAIN bundles /\ local[w].policyId \in DOMAIN policies
DecisionsStand ==
  /\ AuditNamesArtifacts
  /\ \A d \in decisions : d.bundleId \in DOMAIN bundles /\ d.policyId \in DOMAIN policies

Extends(s, t) == \A k \in DOMAIN s : k \in DOMAIN t /\ t[k] = s[k]

LEMMA AppendExtends ==
  ASSUME NEW s, \E S : s \in Seq(S), NEW e
  PROVE  (\E S : Append(s, e) \in Seq(S)) /\ Extends(s, Append(s, e))
<1>1. PICK S : s \in Seq(S)
  OBVIOUS
<1>2. PICK T : T = S \cup {e}
  OBVIOUS
<1>3. s \in Seq(T)
  BY <1>1, <1>2, SeqDef
<1>4. /\ Append(s, e) \in Seq(T)
      /\ DOMAIN s = 1..Len(s) /\ Len(s) \in Nat /\ Len(Append(s, e)) = Len(s) + 1
      /\ DOMAIN Append(s, e) = 1..Len(Append(s, e))
      /\ \A k \in 1..Len(s) : Append(s, e)[k] = s[k]
  BY <1>2, <1>3, AppendProperties, LenProperties
<1>5. QED BY <1>4 DEF Extends

LEMMA ArtifactsKept ==
  ASSUME ArtifactsOK, [ManualNext]_manualVars
  PROVE  ArtifactsOK' /\ Extends(bundles, bundles') /\ Extends(policies, policies')
<1>1. UNCHANGED bundles \/ \E e : bundles' = Append(bundles, e)
  BY CallsChange, OthersChange DEF PublishBundle
<1>2. UNCHANGED policies \/ \E e : policies' = Append(policies, e)
  BY CallsChange, OthersChange DEF RecordPolicy
<1>3. (\E S : bundles' \in Seq(S)) /\ Extends(bundles, bundles')
  BY <1>1, AppendExtends DEF ArtifactsOK, Extends
<1>4. (\E S : policies' \in Seq(S)) /\ Extends(policies, policies')
  BY <1>2, AppendExtends DEF ArtifactsOK, Extends
<1>5. QED BY <1>3, <1>4 DEF ArtifactsOK, Extends

LEMMA IdsStandStep ==
  ASSUME SomeTyped, Orchestrated, ClosuresOK, ArtifactsOK, IdsStand, [ManualNext]_manualVars
  PROVE  IdsStand'
<1> SUFFICES ASSUME NEW v \in Workers, ~At(v, "idle")'
    PROVE  local'[v].bundleId \in DOMAIN bundles' /\ local'[v].policyId \in DOMAIN policies'
  BY DEF IdsStand
<1>0. Extends(bundles, bundles') /\ Extends(policies, policies')
  BY ArtifactsKept
<1>1. CASE worker'[v] = worker[v] /\ local'[v] = local[v]
  BY <1>0, <1>1 DEF IdsStand, At, Extends
<1>2. ASSUME NEW w \in Workers, CallStep(w), v = w
      PROVE  local'[v].bundleId \in DOMAIN bundles' /\ local'[v].policyId \in DOMAIN policies'
  <2>1. worker'[w] # Idle
    BY <1>2 DEF At, Idle
  <2>2. ASSUME NEW r \in Runs, Enter(w, r)
        PROVE  local'[w].bundleId \in DOMAIN bundles' /\ local'[w].policyId \in DOMAIN policies'
    <3>1. bundles' = bundles /\ policies' = policies
      BY <1>2, CallsChange
    <3>2. local'[w].bundleId = Len(bundles) /\ local'[w].policyId = Len(policies)
      BY <2>2 DEF Enter, ClosuresOK, Nothing
    <3>3. Len(bundles) \in DOMAIN bundles /\ Len(policies) \in DOMAIN policies
      <4>1. PICK S : bundles \in Seq(S)
        BY DEF ArtifactsOK
      <4>2. PICK T : policies \in Seq(T)
        BY DEF ArtifactsOK
      <4>3. QED BY <4>1, <4>2, LenProperties DEF ArtifactsOK
    <3>4. QED BY <3>1, <3>2, <3>3
  <2>3. CASE /\ ~At(w, "idle")
             /\ local'[w].bundleId = local[w].bundleId
             /\ local'[w].policyId = local[w].policyId
    BY <1>0, <1>2, <2>3 DEF IdsStand, Extends
  <2>4. \/ worker'[w] = Idle
        \/ \E r \in Runs : Enter(w, r)
        \/ /\ ~At(w, "idle")
           /\ local'[w].bundleId = local[w].bundleId
           /\ local'[w].policyId = local[w].policyId
    BY <1>2, ClosuresMove
  <2>5. QED BY <1>2, <2>1, <2>2, <2>3, <2>4
<1>3. ASSUME NEW w \in Workers, CallStep(w), v # w
      PROVE  worker'[v] = worker[v] /\ local'[v] = local[v]
  BY <1>3, CallGoes, ClosuresMove
<1>4. CASE ~\E w \in Workers : CallStep(w)
  BY <1>1, <1>4, OthersChange
<1>5. QED BY <1>1, <1>2, <1>3, <1>4

LEMMA DecisionsStandStep ==
  ASSUME ArtifactsOK, IdsStand, DecisionsStand, [ManualNext]_manualVars
  PROVE  DecisionsStand'
<1>0. Extends(bundles, bundles') /\ Extends(policies, policies')
  BY ArtifactsKept
<1> SUFFICES ASSUME NEW d \in decisions'
    PROVE  /\ d.bundleId \in DOMAIN bundles' /\ d.policyId \in DOMAIN policies'
           /\ bundles'[d.bundleId] = d.bundle /\ policies'[d.policyId] = d.policy
           /\ d.policy.boundTo = d.bundle
  BY DEF DecisionsStand, AuditNamesArtifacts
<1>1. CASE d \in decisions
  BY <1>0, <1>1 DEF DecisionsStand, AuditNamesArtifacts, Extends
<1>2. CASE d \notin decisions
  <2>1. PICK w \in Workers : RecordDecision(w) /\ UNCHANGED <<bundles, policies>>
    BY <1>2, CallsChange, OthersChange
  <2>2. /\ AuditMatches(w) /\ At(w, "handle")
        /\ local[w].policy.boundTo = local[w].bundle
        /\ d.bundleId = local[w].bundleId /\ d.policyId = local[w].policyId
        /\ d.bundle = local[w].bundle /\ d.policy = local[w].policy
    <3>1. PICK i, a : i = Canonicalize(plan.policyInput)
                      /\ a = Evaluate(local[w].bundle, local[w].policy, i)
      OBVIOUS
    <3>2. /\ AuditMatches(w)
          /\ decisions' = decisions \cup
               {[bundleId |-> local[w].bundleId, policyId |-> local[w].policyId,
                 bundle |-> local[w].bundle, policy |-> local[w].policy, input |-> i.input,
                 decision |-> a]}
      BY <1>2, <2>1, <3>1 DEF RecordDecision
    <3>3. At(w, "handle") /\ local[w].policy.boundTo = local[w].bundle
      BY <2>1 DEF RecordDecision, Handling
    <3>4. QED BY <1>2, <3>2, <3>3
  <2>3. local[w].bundleId \in DOMAIN bundles /\ local[w].policyId \in DOMAIN policies
    BY <2>2 DEF IdsStand, At
  <2>4. QED BY <2>1, <2>2, <2>3 DEF AuditMatches
<1>3. QED BY <1>1, <1>2

----------------------------------------------------------------------------
(***************************************************************************)
(* The frontier a reconciliation works on, from its first snapshot to what *)
(* its stage commits.                                                      *)
(***************************************************************************)
FrontierOK ==
  /\ plan \in Plans
  /\ frontier \in [stable : SUBSET SourceRows, matches : SUBSET [id : Nat, pair : Pairs], made : Nat]
  /\ snapshots \in [Runs -> [INPUT : Manifests \cup {None}, OUTPUT : Manifests \cup {None}]]

\* What is handed on is what both snapshots of the run say.
Committed(r, output) ==
  /\ snapshots[r].INPUT \in Manifests /\ snapshots[r].OUTPUT \in Manifests
  /\ output.inputMembers = snapshots[r].INPUT
  /\ output.outputMembers = snapshots[r].OUTPUT
  /\ output.inputMembers.stable = output.outputMembers.stable

\* How far the handler of RECONCILIATION is.
Follows(w) ==
  LET c == local[w]
      r == worker[w].run IN
  /\ c.step \in {"input", "compute", "after", "output"}
  /\ c.frozen \in Manifests
  /\ c.step # "input" => snapshots[r].INPUT = c.frozen
  /\ c.step = "output" => c.after \in Manifests /\ c.after.stable = c.frozen.stable
Reconciling(w) ==
  At(w, "handle") /\ worker[w].at = Reconciliation /\ local[w].step # "start"
HandlersFollow == \A w \in Workers : Reconciling(w) => Follows(w)

HandsOver(w) ==
  At(w, "finalize") /\ worker[w].at = Reconciliation /\ worker[w].result = "SUCCEEDED"
ReturnsAreFrozen == \A w \in Workers : HandsOver(w) => Committed(worker[w].run, worker[w].output)
CommitsAreFrozen ==
  \A r \in Runs : stage[r][Reconciliation].state = "SUCCEEDED" =>
    Committed(r, stage[r][Reconciliation].output)

LEMMA StageOfReconciliation == Reconciliation \in Stages /\ Reconciliation # N /\ Reconciliation = 4
BY ManualAssumption DEF Reconciliation, Stages, ExceptionOutput

\* Only these steps are taken at RECONCILIATION.
LEMMA HandlersOfReconciliation ==
  ASSUME NEW w \in Workers, Handler(w), worker[w].at = Reconciliation
  PROVE  FreezeFrontier(w) \/ RecordInput(w) \/ ComputeMatches(w) \/ LoadOutput(w) \/ RecordOutput(w)
<1> USE DEF Handling, Ingestion, Extraction, CanonicalUpdate, Reconciliation, BalanceProof,
  PolicyEvaluation, Step8Planning, ExceptionOutput
<1>1. ~(Ingest(w) \/ VerifyArtifact(w) \/ FindExtraction(w) \/ RecordExtraction(w))
  BY DEF Ingest, VerifyArtifact, FindExtraction, RecordExtraction
<1>2. ~(StartImport(w) \/ Observe(w))
  BY DEF StartImport, Observe
<1>3. ~(ReadLedger(w) \/ ReadOpening(w) \/ ReadClosing(w))
  BY DEF ReadLedger, ReadOpening, ReadClosing
<1>4. ~(LoadBundle(w) \/ LoadPolicy(w) \/ PolicyUnbound(w) \/ RecordDecision(w))
  BY DEF LoadBundle, LoadPolicy, PolicyUnbound, RecordDecision
<1>5. ~(PlanCorrection(w) \/ RecordException(w))
  BY DEF PlanCorrection, RecordException
<1>6. QED BY <1>1, <1>2, <1>3, <1>4, <1>5 DEF Handler

LEMMA ManifestIsTyped ==
  ASSUME FrontierOK
  PROVE  Manifest \in Manifests
BY DEF FrontierOK, Manifest, Manifests

\* A call at RECONCILIATION works for a run.
LEMMA RunOfCall ==
  ASSUME SomeTyped, Orchestrated, NEW w \in Workers, ~At(w, "idle")
  PROVE  worker[w].run \in Runs
BY DEF Orchestrated, CallsHaveRuns

\* A snapshot that was recorded stands, and the rest of what the frontier keeps
\* has its type.
LEMMA SnapshotsKept ==
  ASSUME SomeTyped, Orchestrated, FrontierOK, HandlersFollow, [ManualNext]_manualVars
  PROVE  /\ snapshots' \in [Runs -> [INPUT : Manifests \cup {None}, OUTPUT : Manifests \cup {None}]]
         /\ \A r \in Runs :
              /\ snapshots[r].INPUT \in Manifests => snapshots'[r].INPUT = snapshots[r].INPUT
              /\ snapshots[r].OUTPUT \in Manifests => snapshots'[r].OUTPUT = snapshots[r].OUTPUT
<1>1. CASE UNCHANGED snapshots
  BY <1>1 DEF FrontierOK
<1>2. ASSUME NEW w \in Workers, RecordInput(w) \/ RecordOutput(w)
      PROVE  \/ UNCHANGED snapshots
             \/ \E r \in Runs, role \in {"INPUT", "OUTPUT"}, m \in Manifests :
                  snapshots[r][role] = None /\ snapshots' = [snapshots EXCEPT ![r][role] = m]
  <2>1. worker[w].run \in Runs
    BY <1>2, RunOfCall DEF RecordInput, RecordOutput, Handling, At
  <2>2. Reconciling(w) /\ Follows(w)
    BY <1>2 DEF RecordInput, RecordOutput, Handling, Reconciling, HandlersFollow
  <2>3. CASE RecordInput(w)
    BY <2>1, <2>2, <2>3 DEF RecordInput, SetSnapshot, Follows
  <2>4. CASE RecordOutput(w)
    <3>1. local[w].after \in Manifests
      BY <2>2, <2>4 DEF RecordOutput, Handling, Follows
    <3>2. QED BY <2>1, <2>4, <3>1 DEF RecordOutput, SetSnapshot
  <2>5. QED BY <1>2, <2>3, <2>4
<1>3. ASSUME NEW r \in Runs, NEW role \in {"INPUT", "OUTPUT"}, NEW m \in Manifests,
             snapshots[r][role] = None, snapshots' = [snapshots EXCEPT ![r][role] = m]
      PROVE  /\ snapshots' \in [Runs -> [INPUT : Manifests \cup {None}, OUTPUT : Manifests \cup {None}]]
             /\ \A q \in Runs :
                  /\ snapshots[q].INPUT \in Manifests => snapshots'[q].INPUT = snapshots[q].INPUT
                  /\ snapshots[q].OUTPUT \in Manifests => snapshots'[q].OUTPUT = snapshots[q].OUTPUT
  <2>1. PICK M : M = Manifests /\ m \in M /\ None \notin M
    BY NullAssumption
  <2>2. snapshots \in [Runs -> [INPUT : M \cup {None}, OUTPUT : M \cup {None}]]
    BY <2>1 DEF FrontierOK
  <2>3. CASE role = "INPUT"
    <3>1. snapshots' = [snapshots EXCEPT ![r].INPUT = m] /\ snapshots[r].INPUT = None
      BY <1>3, <2>3
    <3>2. QED BY <2>1, <2>2, <3>1
  <2>4. CASE role = "OUTPUT"
    <3>1. snapshots' = [snapshots EXCEPT ![r].OUTPUT = m] /\ snapshots[r].OUTPUT = None
      BY <1>3, <2>4
    <3>2. QED BY <2>1, <2>2, <3>1
  <2>5. QED BY <2>3, <2>4
<1>4. UNCHANGED snapshots \/ \E w \in Workers : RecordInput(w) \/ RecordOutput(w)
  BY CallsChange, OthersChange
<1>5. QED BY <1>1, <1>2, <1>3, <1>4

LEMMA FrontierOKStep ==
  ASSUME SomeTyped, Orchestrated, FrontierOK, HandlersFollow, [ManualNext]_manualVars
  PROVE  FrontierOK'
<1> DEFINE F == [stable : SUBSET SourceRows, matches : SUBSET [id : Nat, pair : Pairs], made : Nat]
<1>1. UNCHANGED plan
  BY CallsChange, OthersChange
<1>2. \/ UNCHANGED frontier \/ ImportArrives \/ MatchRejected
      \/ \E w \in Workers : ComputeMatches(w)
  BY CallsChange, OthersChange
<1>3. frontier \in F
  BY DEF FrontierOK
<1>4. ASSUME NEW rows \in SUBSET SourceRows, NEW ms \in SUBSET [id : Nat, pair : Pairs],
             NEW k \in Nat, frontier' = [frontier EXCEPT !.stable = rows, !.matches = ms, !.made = k]
      PROVE  frontier' \in F
  <2>1. PICK S, M : /\ S = SUBSET SourceRows /\ M = SUBSET [id : Nat, pair : Pairs]
                    /\ frontier \in [stable : S, matches : M, made : Nat]
                    /\ rows \in S /\ ms \in M
    BY <1>3
  <2>2. frontier' \in [stable : S, matches : M, made : Nat]
    BY <1>4, <2>1
  <2>3. QED BY <2>1, <2>2
<1>5. /\ frontier.stable \in SUBSET SourceRows /\ frontier.made \in Nat
      /\ frontier.matches \in SUBSET [id : Nat, pair : Pairs]
  BY <1>3
<1>6. frontier = [stable |-> frontier.stable, matches |-> frontier.matches, made |-> frontier.made]
  BY <1>3
<1>7. ASSUME ImportArrives PROVE frontier' \in F
  <2>1. PICK x \in LateRows : frontier' = [frontier EXCEPT !.stable = @ \cup {x}]
    BY <1>7 DEF ImportArrives
  <2>2. PICK rows : rows = frontier.stable \cup {x}
    OBVIOUS
  <2>3. rows \in SUBSET SourceRows
    <3>1. x \in SourceRows
      BY <2>1 DEF SourceRows
    <3>2. QED BY <1>5, <2>2, <3>1
  <2>4. frontier' = [frontier EXCEPT !.stable = rows, !.matches = frontier.matches,
                                     !.made = frontier.made]
    BY <1>6, <2>1, <2>2
  <2>5. QED BY <1>4, <1>5, <2>3, <2>4
<1>8. ASSUME MatchRejected PROVE frontier' \in F
  <2>1. PICK x : frontier' = [frontier EXCEPT !.matches = @ \ {x}]
    BY <1>8 DEF MatchRejected
  <2>2. PICK ms : ms = frontier.matches \ {x}
    OBVIOUS
  <2>3. ms \in SUBSET [id : Nat, pair : Pairs]
    BY <1>5, <2>2
  <2>4. frontier' = [frontier EXCEPT !.stable = frontier.stable, !.matches = ms,
                                     !.made = frontier.made]
    BY <1>6, <2>1, <2>2
  <2>5. QED BY <1>4, <1>5, <2>3, <2>4
<1>9. ASSUME NEW w \in Workers, ComputeMatches(w) PROVE frontier' \in F
  <2>1. PICK new : new = {[id |-> frontier.made, pair |-> p] : p \in Unmatched}
    OBVIOUS
  <2>2. PICK k : k = IF Unmatched = {} THEN frontier.made ELSE frontier.made + 1
    OBVIOUS
  <2>3. PICK ms : ms = frontier.matches \cup new
    OBVIOUS
  <2>4. ms \in SUBSET [id : Nat, pair : Pairs] /\ k \in Nat
    BY <1>5, <2>1, <2>2, <2>3 DEF Unmatched
  <2>5. frontier' = [frontier EXCEPT !.matches = ms, !.made = k]
    BY <1>9, <2>1, <2>2, <2>3 DEF ComputeMatches
  <2>6. frontier' = [frontier EXCEPT !.stable = frontier.stable, !.matches = ms, !.made = k]
    BY <1>6, <2>5
  <2>7. QED BY <1>4, <1>5, <2>4, <2>6
<1>10. frontier' \in F
  BY <1>2, <1>3, <1>7, <1>8, <1>9
<1>11. QED BY <1>1, <1>10, SnapshotsKept DEF FrontierOK

\* Nobody changes the closure of a call that is not the one that moves.
LEMMA OthersStand ==
  ASSUME SomeTyped, Orchestrated, ClosuresOK, [ManualNext]_manualVars, NEW v \in Workers
  PROVE  \/ CallStep(v)
         \/ worker'[v] = worker[v] /\ local'[v] = local[v]
<1>1. ASSUME NEW w \in Workers, CallStep(w), w # v
      PROVE  worker'[v] = worker[v] /\ local'[v] = local[v]
  BY <1>1, CallGoes, ClosuresMove
<1>2. QED BY <1>1, OthersChange

LEMMA HandlersFollowStep ==
  ASSUME SomeTyped, Orchestrated, ClosuresOK, FrontierOK, HandlersFollow, [ManualNext]_manualVars
  PROVE  HandlersFollow'
<1> SUFFICES ASSUME NEW v \in Workers, Reconciling(v)'
    PROVE  Follows(v)'
  BY DEF HandlersFollow
<1>1. CASE worker'[v] = worker[v] /\ local'[v] = local[v]
  <2>1. Reconciling(v) /\ Follows(v) /\ worker[v].run \in Runs
    BY <1>1, RunOfCall DEF HandlersFollow, Reconciling, At
  <2>2. snapshots[worker[v].run].INPUT \in Manifests =>
          snapshots'[worker[v].run].INPUT = snapshots[worker[v].run].INPUT
    BY <2>1, SnapshotsKept
  <2>3. QED BY <1>1, <2>1, <2>2 DEF Follows
<1>2. ASSUME CallStep(v) PROVE Follows(v)'
  <2>1. At(v, "handle")' /\ worker'[v].at = Reconciliation /\ local'[v].step # "start"
    BY DEF Reconciling, At
  <2>2. ~Begin(v)
    <3>1. SUFFICES ASSUME Begin(v) PROVE FALSE
      OBVIOUS
    <3>2. local' = [local EXCEPT ![v] = Keep(v)] /\ worker'[v] # Idle
      BY <2>1, <3>1 DEF Begin, Around, At, Idle
    <3>3. local'[v].step = "start"
      BY <3>2, FieldsOfNothing DEF Keep, ClosuresOK
    <3>4. QED BY <2>1, <3>3
  <2>3. ASSUME NEW x, NEW st, HandlerEndsIn(v, st, x) PROVE FALSE
    <3>1. worker'[v].pc = "finalize"
      BY <2>3 DEF HandlerEndsIn, Ends, SomeTyped, Typed, CallOf
    <3>2. QED BY <2>1, <3>1 DEF At
  <2>4. Handler(v) /\ UNCHANGED worker
    BY <1>2, <2>1, <2>2, <2>3, CallGoes DEF At
  <2>5. At(v, "handle") /\ worker[v].at = Reconciliation /\ worker[v].run \in Runs
    BY <2>1, <2>4, RunOfCall DEF At
  <2>6. Reconciling(v) => Follows(v)
    BY DEF HandlersFollow
  <2>7. CASE FreezeFrontier(v)
    <3>1. PICK m \in Manifests : local' = [local EXCEPT ![v] = [local[v] EXCEPT !.step = "input",
                                                                              !.frozen = m]]
      BY <2>7, ManifestIsTyped DEF FreezeFrontier, Continue
    <3>2. local'[v].step = "input" /\ local'[v].frozen = m
      BY <3>1, FieldsOfNothing DEF ClosuresOK
    <3>3. QED BY <3>2 DEF Follows
  <2>8. CASE RecordInput(v)
    <3>1. local[v].frozen \in Manifests
      BY <2>5, <2>6, <2>8 DEF RecordInput, Handling, Reconciling, Follows
    <3>2. SnapshotStands(v, "INPUT", local[v].frozen)
      <4>1. SUFFICES ASSUME Throws(v, "RETRYABLE", "SHADOW_RECONCILIATION_SNAPSHOT_FAILED")
                     PROVE  FALSE
        BY <2>8 DEF RecordInput
      <4>2. worker'[v].pc = "retry"
        BY <4>1 DEF Throws, Goto, SomeTyped, Typed, CallOf
      <4>3. QED BY <2>1, <4>2 DEF At
    <3>3. /\ local' = [local EXCEPT ![v] = [local[v] EXCEPT !.step = "compute"]]
          /\ SetSnapshot(v, "INPUT", local[v].frozen)
      BY <2>8, <3>2 DEF RecordInput, Continue
    <3>4. local'[v].step = "compute" /\ local'[v].frozen = local[v].frozen
      BY <3>3, FieldsOfNothing DEF ClosuresOK
    <3>5. snapshots'[worker[v].run].INPUT = local[v].frozen
      BY <2>5, <3>2, <3>3 DEF SnapshotStands, SetSnapshot, FrontierOK
    <3>6. QED BY <2>4, <3>1, <3>4, <3>5 DEF Follows
  <2>9. CASE ComputeMatches(v)
    <3>1. local[v].frozen \in Manifests /\ snapshots[worker[v].run].INPUT = local[v].frozen
      BY <2>5, <2>6, <2>9 DEF ComputeMatches, Handling, Reconciling, Follows
    <3>2. /\ local' = [local EXCEPT ![v] = [local[v] EXCEPT !.step = "after"]]
          /\ UNCHANGED snapshots
      BY <2>9 DEF ComputeMatches, Continue
    <3>3. local'[v].step = "after" /\ local'[v].frozen = local[v].frozen
      BY <3>2, FieldsOfNothing DEF ClosuresOK
    <3>4. QED BY <2>4, <3>1, <3>2, <3>3 DEF Follows
  <2>10. CASE LoadOutput(v)
    <3>1. local[v].frozen \in Manifests /\ snapshots[worker[v].run].INPUT = local[v].frozen
      BY <2>5, <2>6, <2>10 DEF LoadOutput, Handling, Reconciling, Follows
    <3>2. frontier.stable = local[v].frozen.stable
      <4>1. SUFFICES ASSUME Throws(v, "UNCERTAIN", "RECONCILIATION_FRONTIER_DRIFT_UNCERTAIN")
                     PROVE  FALSE
        BY <2>10 DEF LoadOutput
      <4>2. worker'[v].pc = "finalize"
        BY <4>1 DEF Throws, Ends, SomeTyped, Typed, CallOf
      <4>3. QED BY <2>1, <4>2 DEF At
    <3>3. PICK m \in Manifests :
            /\ m.stable = local[v].frozen.stable
            /\ local' = [local EXCEPT ![v] = [local[v] EXCEPT !.step = "output", !.after = m]]
      BY <2>10, <3>2, ManifestIsTyped DEF LoadOutput, Continue, Manifest
    <3>4. /\ local'[v].step = "output" /\ local'[v].frozen = local[v].frozen
          /\ local'[v].after = m
      BY <3>3, FieldsOfNothing DEF ClosuresOK
    <3>5. UNCHANGED snapshots
      BY <2>10 DEF LoadOutput, domain, evidence
    <3>6. QED BY <2>4, <3>1, <3>3, <3>4, <3>5 DEF Follows
  <2>11. ~RecordOutput(v)
    <3>1. SUFFICES ASSUME RecordOutput(v) PROVE FALSE
      OBVIOUS
    <3>2. \/ Throws(v, "RETRYABLE", "SHADOW_RECONCILIATION_SNAPSHOT_FAILED")
          \/ \E x : Ends(v, "SUCCEEDED", x)
      BY <3>1 DEF RecordOutput, Succeeds
    <3>3. worker'[v].pc \in {"retry", "finalize"}
      <4>1. CASE Throws(v, "RETRYABLE", "SHADOW_RECONCILIATION_SNAPSHOT_FAILED")
        BY <4>1 DEF Throws, Goto, SomeTyped, Typed, CallOf
      <4>2. ASSUME NEW x, Ends(v, "SUCCEEDED", x) PROVE worker'[v].pc = "finalize"
        BY <4>2 DEF Ends, SomeTyped, Typed, CallOf
      <4>3. QED BY <3>2, <4>1, <4>2
    <3>4. QED BY <2>1, <3>3 DEF At
  <2>12. QED BY <2>4, <2>5, <2>7, <2>8, <2>9, <2>10, <2>11, HandlersOfReconciliation
<1>3. QED BY <1>1, <1>2, OthersStand

LEMMA ReturnsAreFrozenStep ==
  ASSUME SomeTyped, Orchestrated, ClosuresOK, FrontierOK, HandlersFollow, ReturnsAreFrozen,
         [ManualNext]_manualVars
  PROVE  ReturnsAreFrozen'
<1> SUFFICES ASSUME NEW v \in Workers, HandsOver(v)'
    PROVE  Committed(worker[v].run, worker[v].output)'
  BY DEF ReturnsAreFrozen
<1>0. PICK X : Typed(X)
  BY DEF SomeTyped
<1>1. CASE worker'[v] = worker[v]
  <2>1. HandsOver(v) /\ worker[v].run \in Runs
    BY <1>1, RunOfCall DEF HandsOver, At
  <2>2. Committed(worker[v].run, worker[v].output)
    BY <2>1 DEF ReturnsAreFrozen
  <2>3. QED BY <1>1, <2>1, <2>2, SnapshotsKept DEF Committed
<1>2. ASSUME CallStep(v), worker'[v] # worker[v]
      PROVE  Committed(worker[v].run, worker[v].output)'
  <2>1. worker'[v].pc = "finalize" /\ worker'[v].at = Reconciliation
        /\ worker'[v].result = "SUCCEEDED"
    BY DEF HandsOver, At
  <2>2. ~Begin(v)
    BY <1>0, <2>1 DEF Begin, Around, BeginStage, Typed, CallOf
  <2>3. /\ Handler(v)
        /\ \E x : \E st \in EndStates : HandlerEndsIn(v, st, x)
    BY <1>2, <2>1, <2>2, CallGoes
  <2>4. At(v, "handle") /\ worker[v].at = Reconciliation
    <3>1. worker'[v].at = worker[v].at
      BY <1>0, <2>3 DEF HandlerEndsIn, Ends, Typed, CallOf
    <3>2. QED BY <2>1, <2>3, <3>1, HandlersMove DEF HandlerMoves
  <2>5. worker[v].run \in Runs /\ worker[v].prior = "NONE"
    BY <2>4, RunOfCall, StageOfReconciliation, ManualAssumption
    DEF At, Orchestrated, CallsFollowStages, ExceptionOutput
  <2>6. ASSUME NEW code, NEW st \in {"RETRYABLE", "UNCERTAIN"}, Throws(v, st, code) PROVE FALSE
    <3>1. CASE st = "RETRYABLE"
      BY <1>0, <2>1, <2>6, <3>1 DEF Throws, Goto, Typed, CallOf
    <3>2. CASE st = "UNCERTAIN"
      BY <1>0, <2>1, <2>5, <2>6, <3>2 DEF Throws, Ends, Typed, CallOf
    <3>3. QED BY <2>6, <3>1, <3>2
  <2>7. ASSUME NEW c, Continue(v, c) PROVE FALSE
    BY <1>2, <2>7 DEF Continue, vars
  <2>8. RecordOutput(v) /\ SnapshotStands(v, "OUTPUT", local[v].after)
    <3>1. ~FreezeFrontier(v) /\ ~ComputeMatches(v)
      BY <2>7 DEF FreezeFrontier, ComputeMatches
    <3>2. ~RecordInput(v) /\ ~LoadOutput(v)
      BY <2>6, <2>7 DEF RecordInput, LoadOutput
    <3>3. QED BY <2>3, <2>4, <2>6, <3>1, <3>2, HandlersOfReconciliation DEF RecordOutput
  <2>9. Follows(v) /\ local[v].step = "output"
    BY <2>8 DEF RecordOutput, Handling, Reconciling, HandlersFollow
  <2>10. /\ worker'[v].run = worker[v].run
         /\ worker'[v].output = [inputMembers |-> local[v].frozen, outputMembers |-> local[v].after]
    <3>1. PICK x : /\ x = [inputMembers |-> local[v].frozen, outputMembers |-> local[v].after]
                   /\ Ends(v, "SUCCEEDED", x)
      BY <2>8 DEF RecordOutput, Succeeds
    <3>2. worker'[v].run = worker[v].run /\ worker'[v].output = x
      BY <1>0, <3>1 DEF Ends, Typed, CallOf
    <3>3. QED BY <3>1, <3>2
  <2>11. /\ local[v].frozen \in Manifests /\ local[v].after \in Manifests
         /\ local[v].after.stable = local[v].frozen.stable
         /\ snapshots[worker[v].run].INPUT = local[v].frozen
    BY <2>9 DEF Follows
  <2>12. snapshots'[worker[v].run].INPUT = local[v].frozen
    BY <2>5, <2>11, SnapshotsKept
  <2>13. snapshots'[worker[v].run].OUTPUT = local[v].after
    BY <2>5, <2>8 DEF RecordOutput, SnapshotStands, SetSnapshot, FrontierOK
  <2>14. QED BY <2>10, <2>11, <2>12, <2>13 DEF Committed
<1>3. QED BY <1>1, <1>2, OthersStand

LEMMA CommitsAreFrozenStep ==
  ASSUME SomeTyped, Orchestrated, FrontierOK, HandlersFollow, ReturnsAreFrozen, CommitsAreFrozen,
         [ManualNext]_manualVars
  PROVE  CommitsAreFrozen'
<1> SUFFICES ASSUME NEW r \in Runs, stage'[r][Reconciliation].state = "SUCCEEDED"
    PROVE  Committed(r, stage[r][Reconciliation].output)'
  BY DEF CommitsAreFrozen
<1>0. PICK Y : Typed(Y) /\ Steps(Y)
  BY ManualMoves
<1>1. \/ stage'[r][Reconciliation] = stage[r][Reconciliation]
      \/ \E w \in Workers : \/ Begins(w, r, Reconciliation) \/ Finalizes(w, r, Reconciliation)
                            \/ Marks(w, r, Reconciliation)
  BY <1>0, StageMoves, StageOfReconciliation DEF Orchestrated
<1>2. CASE stage'[r][Reconciliation] = stage[r][Reconciliation]
  BY <1>2, SnapshotsKept DEF CommitsAreFrozen, Committed
<1>3. ASSUME NEW w \in Workers, Finalizes(w, r, Reconciliation)
      PROVE  Committed(r, stage[r][Reconciliation].output)'
  <2>1. HandsOver(w) /\ worker[w].run = r
    BY <1>3 DEF Finalizes, FinalizeStage, HandsOver
  <2>2. Committed(r, worker[w].output) /\ stage'[r][Reconciliation].output = worker[w].output
    BY <1>3, <2>1 DEF ReturnsAreFrozen, Finalizes
  <2>3. QED BY <2>2, SnapshotsKept DEF Committed
<1>4. QED BY <1>1, <1>2, <1>3 DEF Begins, Marks

----------------------------------------------------------------------------
(***************************************************************************)
(* The policy evaluation: an input that says less is never allowed, for    *)
(* any bundle, client policy and limit.                                    *)
(***************************************************************************)
Seen(i) == Canonicalize(i).input

\* Without a reason, no rule of the evaluation fired.
LEMMA AllowIsUnopposed ==
  ASSUME NEW b, NEW s, NEW i, Evaluate(b, s, Canonicalize(i)) = "ALLOW"
  PROVE  /\ BindingReasons(b, s) = {} /\ ClientReasons(s, Seen(i)) = {}
         /\ FingerprintReasons(Seen(i)) = {} /\ EvidenceReasons(Seen(i)) = {}
         /\ RiskReasons(Seen(i)) = {} /\ MaterialityReasons(s, Seen(i)) = {}
         /\ ConfidenceReasons(Seen(i)) = {} /\ ReversibilityReasons(Seen(i)) = {}
         /\ AuthorizationReasons(s, Seen(i)) = {}
         /\ Seen(i).action.actionType \in {"ADOPT_EXISTING_VENDOR", "CREATE_BILL"}
         /\ Seen(i).action.actionType = "CREATE_BILL" => BillReasons(Seen(i)) = {}
         /\ Seen(i).action.actionType # "CREATE_BILL" => VendorReasons(Seen(i)) = {}
<1> DEFINE c == Canonicalize(i)
<1>1. Triggered(b, s, c) = {} /\ c.input.action.actionType \in {"ADOPT_EXISTING_VENDOR", "CREATE_BILL"}
  <2>1. Evaluate(b, s, c) = "ALLOW"  OBVIOUS
  <2> HIDE DEF c
  <2> QED BY <2>1 DEF Evaluate
<1>2. c.input.action.actionType \in SupportedActions  BY <1>1 DEF SupportedActions
<1> HIDE DEF c
<1>3. QED
  <2>1. Seen(i) = c.input  BY DEF Seen, c
  <2> QED BY <1>1, <1>2, <2>1, Zenon DEF Triggered

\* Only the fingerprint of the action is computed anew.
LEMMA OtherFieldsStand ==
  ASSUME NEW i, NEW f \in DOMAIN i, f # "action"
  PROVE  Seen(i)[f] = i[f]
BY DEF Seen, Canonicalize

LEMMA FingerprintIsComputed ==
  ASSUME NEW i, "action" \in DOMAIN i, "computedActionFingerprint" \in DOMAIN i.action
  PROVE  /\ Seen(i).action.computedActionFingerprint = i.action.snapshot
         /\ \A g \in DOMAIN i.action : g # "computedActionFingerprint" =>
              Seen(i).action[g] = i.action[g]
BY DEF Seen, Canonicalize

\* What an input fulfils that gives a rule no reason.
LEMMA NoReason ==
  ASSUME NEW j
  PROVE  /\ \A s : ClientReasons(s, j) = {} => j.client.active /\ ~s.suspended
         /\ FingerprintReasons(j) = {} =>
              j.action.claimedActionFingerprint = j.action.computedActionFingerprint
         /\ EvidenceReasons(j) = {} =>
              /\ j.modelProposedPermission # "ALLOW"
              /\ j.evidence.quality = "STRONG" /\ j.evidence.completeness = "COMPLETE"
              /\ Elems(j.evidence.facts) # {}
              /\ \A f \in Elems(j.evidence.facts) : f.verified /\ f.sha256 = f.verifiedSha256
         /\ BillReasons(j) = {} =>
              /\ j.accountTreatment.mappingId # None /\ j.taxTreatment.verified
              /\ ~(j.history.priorVerifiedActions < 3)
              /\ ~j.history.hasCorrectionsOrReversals
              /\ j.profileFacts.duplicateCheck = "CLEAR" /\ j.profileFacts.vendorBindingVerified
<1>1. \A s : ClientReasons(s, j) = {} => j.client.active /\ ~s.suspended
  BY DEF ClientReasons, Reason
<1>2. FingerprintReasons(j) = {} =>
              j.action.claimedActionFingerprint = j.action.computedActionFingerprint
  BY DEF FingerprintReasons, Reason
<1>3. EvidenceReasons(j) = {} =>
              /\ j.modelProposedPermission # "ALLOW"
              /\ j.evidence.quality = "STRONG" /\ j.evidence.completeness = "COMPLETE"
              /\ Elems(j.evidence.facts) # {}
              /\ \A f \in Elems(j.evidence.facts) : f.verified /\ f.sha256 = f.verifiedSha256
  BY DEF EvidenceReasons, Reason
<1>4. BillReasons(j) = {} =>
              /\ j.accountTreatment.mappingId # None /\ j.taxTreatment.verified
              /\ ~(j.history.priorVerifiedActions < 3)
              /\ ~j.history.hasCorrectionsOrReversals
              /\ j.profileFacts.duplicateCheck = "CLEAR" /\ j.profileFacts.vendorBindingVerified
  BY DEF BillReasons, Reason, Profile
<1> QED BY <1>1, <1>2, <1>3, <1>4, Zenon

LEMMA NoRiskReason ==
  ASSUME NEW j, RiskReasons(j) = {}
  PROVE  Elems(j.riskFlags) = {}
BY DEF RiskReasons

LEMMA NoProfileReason ==
  ASSUME NEW j, NEW s, j.action.actionType \in {"ADOPT_EXISTING_VENDOR", "CREATE_BILL"}
  PROVE  /\ ConfidenceReasons(j) = {} =>
              /\ j.confidence # <<>>
              /\ \A f \in Elems(j.confidence) :
                   /\ ~(f.basisPoints < Profile[j.action.actionType].minimumConfidence)
                   /\ f.provenance = "DETERMINISTIC"
         /\ ReversibilityReasons(j) = {} => j.reversibility # "UNKNOWN"
         /\ AuthorizationReasons(s, j) = {} =>
              /\ j.humanAuthorization.state = "EXACT"
              /\ j.humanAuthorization.authorizedActionFingerprint # None
              /\ j.humanAuthorization.authorizedLedgerBookId # None
         /\ j.action.actionType # "CREATE_BILL" /\ VendorReasons(j) = {} =>
              j.profileFacts.existingVendorMatch = "EXACT_UNIQUE_CURRENT_VERIFIED"
<1> DEFINE type == j.action.actionType
<1>1. ConfidenceReasons(j) = {} =>
              /\ j.confidence # <<>>
              /\ \A f \in Elems(j.confidence) :
                   /\ ~(f.basisPoints < Profile[j.action.actionType].minimumConfidence)
                   /\ f.provenance = "DETERMINISTIC"
  BY DEF ConfidenceReasons, Reason
<1>2. ReversibilityReasons(j) = {} => j.reversibility # "UNKNOWN"
  <2>1. ReversibilityRank[Profile[type].maxReversibility] \in {1, 2}
    BY DEF Profile, ReversibilityRank
  <2>2. ReversibilityRank["UNKNOWN"] = 4  BY DEF ReversibilityRank
  <2> QED BY <2>1, <2>2 DEF ReversibilityReasons, Reason
<1>3. AuthorizationReasons(s, j) = {} =>
              /\ j.humanAuthorization.state = "EXACT"
              /\ j.humanAuthorization.authorizedActionFingerprint # None
              /\ j.humanAuthorization.authorizedLedgerBookId # None
  <2>1. Profile[type].requiresHumanAuthorization  BY DEF Profile
  <2> QED BY <2>1 DEF AuthorizationReasons, Reason
<1>4. j.action.actionType # "CREATE_BILL" /\ VendorReasons(j) = {} =>
              j.profileFacts.existingVendorMatch = "EXACT_UNIQUE_CURRENT_VERIFIED"
  BY DEF VendorReasons, Reason
<1> QED BY <1>1, <1>2, <1>3, <1>4

LEMMA NoMaterialityReason ==
  ASSUME NEW j, NEW s, NEW b, j.action.actionType = "CREATE_BILL", MaxMinor \in Nat,
         BindingReasons(b, s) = {}, MaterialityReasons(s, j) = {}
  PROVE  /\ j.amount.dailyAggregateBeforeMinor # {}
         /\ j.amount.amountMinor # {Only(s.maxSingleActionAmountMinor) + 1}
<1> DEFINE limit == s.maxSingleActionAmountMinor
           amount == j.amount.amountMinor
           before == j.amount.dailyAggregateBeforeMinor
<1>1. \A n \in limit : n \in 0..MaxMinor  BY DEF BindingReasons, Reason
<1>2. Profile[j.action.actionType].requiresAmount /\ j.action.actionType \in SupportedActions
  BY DEF Profile, SupportedActions
<1>3. before # {} /\ limit # {} /\ ~(AbsMinor(Only(amount)) > AbsMinor(Only(limit)))
  BY <1>2, Zenon DEF MaterialityReasons, Reason
<1>4. Only(limit) \in Nat
  BY <1>1, <1>3 DEF Only
<1> HIDE DEF limit
<1>5. amount # {Only(limit) + 1}
  <2> SUFFICES ASSUME amount = {Only(limit) + 1} PROVE FALSE  OBVIOUS
  <2>1. PICK n : n = Only(limit)  OBVIOUS
  <2>2. Only(amount) = n + 1  BY <2>1 DEF Only
  <2>3. AbsMinor(n + 1) = n + 1 /\ AbsMinor(n) = n  BY <1>4, <2>1 DEF AbsMinor
  <2>4. ~(AbsMinor(n + 1) > AbsMinor(n))  BY <1>3, <2>1, <2>2, Zenon
  <2> QED BY <1>4, <2>1, <2>3, <2>4
<1> QED BY <1>3, <1>5 DEF limit
\* The fields of an input a program builds.
LEMMA HasFields ==
  ASSUME NEW i, PolicyInputOK(i)
  PROVE  /\ {"client", "action", "amount", "evidence", "accountTreatment", "taxTreatment", "history",
             "humanAuthorization", "profileFacts", "confidence", "riskFlags", "reversibility",
             "modelProposedPermission"} \subseteq DOMAIN i
         /\ "active" \in DOMAIN i.client
         /\ {"actionType", "claimedActionFingerprint", "computedActionFingerprint", "snapshot"}
              \subseteq DOMAIN i.action
         /\ {"amountMinor", "dailyAggregateBeforeMinor"} \subseteq DOMAIN i.amount
         /\ {"quality", "completeness", "facts"} \subseteq DOMAIN i.evidence
         /\ "mappingId" \in DOMAIN i.accountTreatment /\ "verified" \in DOMAIN i.taxTreatment
         /\ {"priorVerifiedActions", "hasCorrectionsOrReversals"} \subseteq DOMAIN i.history
         /\ {"state", "authorizedActionFingerprint", "authorizedLedgerBookId"}
              \subseteq DOMAIN i.humanAuthorization
         /\ {"existingVendorMatch", "duplicateCheck", "vendorBindingVerified"}
              \subseteq DOMAIN i.profileFacts
<1>1. \A f \in DOMAIN InputFields : f \in DOMAIN i /\ InputFields[f] \subseteq DOMAIN i[f]
  BY DEF PolicyInputOK
<1>2. \A f \in {"client", "action", "amount", "evidence", "accountTreatment", "taxTreatment",
                "history", "humanAuthorization", "profileFacts"} : f \in DOMAIN InputFields
  BY DEF InputFields
<1>3. /\ InputFields.client = {"active"}
      /\ InputFields.action = {"actionType", "claimedActionFingerprint", "computedActionFingerprint", "snapshot"}
      /\ InputFields.amount = {"amountMinor", "dailyAggregateBeforeMinor"}
      /\ InputFields.evidence = {"quality", "completeness", "facts"}
      /\ InputFields.accountTreatment = {"mappingId"} /\ InputFields.taxTreatment = {"verified"}
      /\ InputFields.history = {"priorVerifiedActions", "hasCorrectionsOrReversals"}
      /\ InputFields.humanAuthorization =
           {"state", "authorizedActionFingerprint", "authorizedLedgerBookId"}
      /\ InputFields.profileFacts =
           {"existingVendorMatch", "duplicateCheck", "vendorBindingVerified"}
  BY DEF InputFields
<1>4. {"confidence", "riskFlags", "reversibility", "modelProposedPermission"} \subseteq DOMAIN i
  BY DEF PolicyInputOK
<1>5. \A f \in {"client", "action", "amount", "evidence", "accountTreatment", "taxTreatment",
                "history", "humanAuthorization", "profileFacts"} :
         f \in DOMAIN i /\ InputFields[f] \subseteq DOMAIN i[f]
  BY <1>1, <1>2, Zenon
<1> QED BY <1>3, <1>4, <1>5

\* A list that keeps its places when one of them is changed is as long.
LEMMA FirstStays ==
  ASSUME NEW seq, seq \in Seq(Elems(seq)), NEW v, Elems([seq EXCEPT ![1] = v]) # {}
  PROVE  1 \in DOMAIN seq /\ v \in Elems([seq EXCEPT ![1] = v])
<1>1. DOMAIN [seq EXCEPT ![1] = v] = DOMAIN seq  OBVIOUS
<1>2. DOMAIN seq # {}  BY <1>1 DEF Elems, ToSet
<1>3. 1 \in DOMAIN seq  BY <1>2
<1>4. [seq EXCEPT ![1] = v][1] = v  BY <1>3
<1> QED BY <1>1, <1>3, <1>4 DEF Elems, ToSet

LEMMA OneIsListed ==
  ASSUME NEW seq, seq \in Seq(Elems(seq)), NEW v, [seq EXCEPT ![1] = v] # <<>>
  PROVE  Elems([seq EXCEPT ![1] = v]) # {}
<1>1. PICK n \in Nat : DOMAIN seq = 1..n  OBVIOUS
<1>2. CASE n = 0
  <2>1. seq = <<>>  BY <1>1, <1>2
  <2>2. [seq EXCEPT ![1] = v] = <<>>  BY <2>1
  <2> QED BY <2>2
<1>3. CASE n # 0
  BY <1>1, <1>3 DEF Elems, ToSet
<1> QED BY <1>2, <1>3

\* No input that says less about one fact is allowed, by any bundle and policy.
LEMMA NoWeakerIsAllowed ==
  ASSUME NEW i, PolicyInputOK(i), MaxMinor \in Nat, NEW b, NEW s,
         NEW w \in Weaker(i, s.maxSingleActionAmountMinor),
         Evaluate(b, s, Canonicalize(w)) = "ALLOW"
  PROVE  FALSE
<1> DEFINE j == Seen(w)
           type == i.action.actionType
           limit == s.maxSingleActionAmountMinor
<1>1. /\ BindingReasons(b, s) = {} /\ ClientReasons(s, j) = {}
      /\ FingerprintReasons(j) = {} /\ EvidenceReasons(j) = {}
      /\ RiskReasons(j) = {} /\ MaterialityReasons(s, j) = {}
      /\ ConfidenceReasons(j) = {} /\ ReversibilityReasons(j) = {}
      /\ AuthorizationReasons(s, j) = {}
      /\ j.action.actionType \in {"ADOPT_EXISTING_VENDOR", "CREATE_BILL"}
      /\ j.action.actionType = "CREATE_BILL" => BillReasons(j) = {}
      /\ j.action.actionType # "CREATE_BILL" => VendorReasons(j) = {}
  BY AllowIsUnopposed
<1> HIDE DEF j
<1>2. /\ j.client.active
      /\ j.action.claimedActionFingerprint = j.action.computedActionFingerprint
      /\ j.modelProposedPermission # "ALLOW"
      /\ j.evidence.quality = "STRONG" /\ j.evidence.completeness = "COMPLETE"
      /\ Elems(j.evidence.facts) # {}
      /\ \A f \in Elems(j.evidence.facts) : f.verified /\ f.sha256 = f.verifiedSha256
  BY <1>1, NoReason
<1>3. Elems(j.riskFlags) = {}  BY <1>1, NoRiskReason
<1>4. /\ j.confidence # <<>>
      /\ \A f \in Elems(j.confidence) :
           /\ ~(f.basisPoints < Profile[j.action.actionType].minimumConfidence)
           /\ f.provenance = "DETERMINISTIC"
      /\ j.reversibility # "UNKNOWN"
      /\ j.humanAuthorization.state = "EXACT"
      /\ j.humanAuthorization.authorizedActionFingerprint # None
      /\ j.humanAuthorization.authorizedLedgerBookId # None
      /\ j.action.actionType # "CREATE_BILL" =>
           j.profileFacts.existingVendorMatch = "EXACT_UNIQUE_CURRENT_VERIFIED"
  BY <1>1, NoProfileReason
<1>5. j.action.actionType = "CREATE_BILL" =>
        /\ j.accountTreatment.mappingId # None /\ j.taxTreatment.verified
        /\ ~(j.history.priorVerifiedActions < 3)
        /\ ~j.history.hasCorrectionsOrReversals
        /\ j.profileFacts.duplicateCheck = "CLEAR" /\ j.profileFacts.vendorBindingVerified
  BY <1>1, NoReason
<1>6. j.action.actionType = "CREATE_BILL" =>
        /\ j.amount.dailyAggregateBeforeMinor # {}
        /\ j.amount.amountMinor # {Only(limit) + 1}
  BY <1>1, NoMaterialityReason
<1>7. /\ {"client", "action", "amount", "evidence", "accountTreatment", "taxTreatment", "history",
          "humanAuthorization", "profileFacts", "confidence", "riskFlags", "reversibility",
          "modelProposedPermission"} \subseteq DOMAIN i
      /\ "active" \in DOMAIN i.client
      /\ {"actionType", "claimedActionFingerprint", "computedActionFingerprint", "snapshot"}
           \subseteq DOMAIN i.action
      /\ {"amountMinor", "dailyAggregateBeforeMinor"} \subseteq DOMAIN i.amount
      /\ {"quality", "completeness", "facts"} \subseteq DOMAIN i.evidence
      /\ "mappingId" \in DOMAIN i.accountTreatment /\ "verified" \in DOMAIN i.taxTreatment
      /\ {"priorVerifiedActions", "hasCorrectionsOrReversals"} \subseteq DOMAIN i.history
      /\ {"state", "authorizedActionFingerprint", "authorizedLedgerBookId"}
           \subseteq DOMAIN i.humanAuthorization
      /\ {"existingVendorMatch", "duplicateCheck", "vendorBindingVerified"}
           \subseteq DOMAIN i.profileFacts
  BY HasFields
<1>8. \A f \in DOMAIN w : f # "action" => j[f] = w[f]
  BY OtherFieldsStand DEF j
<1>9. ASSUME "action" \in DOMAIN w, "actionType" \in DOMAIN w.action,
             "computedActionFingerprint" \in DOMAIN w.action
      PROVE  j.action.actionType = w.action.actionType
  BY <1>9, FingerprintIsComputed DEF j
<1>10. w # [i EXCEPT !.action.claimedActionFingerprint = None]
  <2> SUFFICES ASSUME w = [i EXCEPT !.action.claimedActionFingerprint = None] PROVE FALSE
    OBVIOUS
  <2>1. /\ w.action = [i.action EXCEPT !["claimedActionFingerprint"] = None]
        /\ DOMAIN w = DOMAIN i
    BY <1>7
  <2>2. /\ w.action.claimedActionFingerprint = None
        /\ w.action.snapshot = i.action.snapshot
        /\ DOMAIN w.action = DOMAIN i.action
    BY <1>7, <2>1
  <2>3. /\ j.action.claimedActionFingerprint = None
        /\ j.action.computedActionFingerprint = i.action.snapshot
    BY <1>7, <2>1, <2>2, FingerprintIsComputed DEF j
  <2> QED BY <1>2, <2>3 DEF PolicyInputOK
<1>11. w # [i EXCEPT !.evidence.facts[1].verified = FALSE]
  <2> SUFFICES ASSUME w = [i EXCEPT !.evidence.facts[1].verified = FALSE] PROVE FALSE
    OBVIOUS
  <2>1. PICK facts : facts = i.evidence.facts  OBVIOUS
  <2>2. PICK fact : fact = [facts[1] EXCEPT !.verified = FALSE]  OBVIOUS
  <2>3. w = [i EXCEPT !.evidence.facts = [facts EXCEPT ![1] = fact]]  BY <1>7, <2>1, <2>2
  <2>4. w.evidence.facts = [facts EXCEPT ![1] = fact] /\ DOMAIN w = DOMAIN i  BY <1>7, <2>3
  <2>5. j.evidence.facts = [facts EXCEPT ![1] = fact]  BY <1>7, <1>8, <2>4
  <2>6. ListOf({"verified", "sha256", "verifiedSha256"}, facts)  BY <2>1 DEF PolicyInputOK
  <2>7. 1 \in DOMAIN facts /\ fact \in Elems(j.evidence.facts)
    BY <1>2, <2>5, <2>6, FirstStays DEF ListOf
  <2>8. ~fact.verified  BY <2>2, <2>6, <2>7 DEF ListOf
  <2> QED BY <1>2, <2>7, <2>8
<1>12. w # [i EXCEPT !.evidence.facts[1].verifiedSha256 = None]
  <2> SUFFICES ASSUME w = [i EXCEPT !.evidence.facts[1].verifiedSha256 = None] PROVE FALSE
    OBVIOUS
  <2>1. PICK facts : facts = i.evidence.facts  OBVIOUS
  <2>2. PICK fact : fact = [facts[1] EXCEPT !.verifiedSha256 = None]  OBVIOUS
  <2>3. w = [i EXCEPT !.evidence.facts = [facts EXCEPT ![1] = fact]]  BY <1>7, <2>1, <2>2
  <2>4. w.evidence.facts = [facts EXCEPT ![1] = fact] /\ DOMAIN w = DOMAIN i  BY <1>7, <2>3
  <2>5. j.evidence.facts = [facts EXCEPT ![1] = fact]  BY <1>7, <1>8, <2>4
  <2>6. /\ ListOf({"verified", "sha256", "verifiedSha256"}, facts)
        /\ \A f \in Elems(facts) : f.sha256 # None
    BY <2>1 DEF PolicyInputOK
  <2>7. 1 \in DOMAIN facts /\ fact \in Elems(j.evidence.facts)
    BY <1>2, <2>5, <2>6, FirstStays DEF ListOf
  <2>8. facts[1].sha256 # None  BY <2>6, <2>7 DEF Elems, ToSet
  <2>9. fact.verifiedSha256 = None /\ fact.sha256 = facts[1].sha256
    BY <2>2, <2>6, <2>7 DEF ListOf
  <2> QED BY <1>2, <2>7, <2>8, <2>9
<1>13. w # [i EXCEPT !.evidence.facts = <<>>]
  <2> SUFFICES ASSUME w = [i EXCEPT !.evidence.facts = <<>>] PROVE FALSE  OBVIOUS
  <2>1. w.evidence.facts = <<>> /\ DOMAIN w = DOMAIN i  BY <1>7
  <2>2. j.evidence.facts = <<>>  BY <1>7, <1>8, <2>1
  <2> QED BY <1>2, <2>2 DEF Elems, ToSet
<1>14. w # [i EXCEPT !.riskFlags = <<[code |-> "NEW_COUNTERPARTY", severity |-> "REVIEW"]>>]
  <2> SUFFICES
        ASSUME w = [i EXCEPT !.riskFlags = <<[code |-> "NEW_COUNTERPARTY", severity |-> "REVIEW"]>>]
        PROVE FALSE
    OBVIOUS
  <2>1. PICK flag : flag = [code |-> "NEW_COUNTERPARTY", severity |-> "REVIEW"]  OBVIOUS
  <2>2. w.riskFlags = <<flag>> /\ DOMAIN w = DOMAIN i  BY <1>7, <2>1
  <2>3. j.riskFlags = <<flag>>  BY <1>7, <1>8, <2>2
  <2> QED BY <1>3, <2>3 DEF Elems, ToSet
<1>15. w # [i EXCEPT !.confidence[1].basisPoints = Profile[i.action.actionType].minimumConfidence - 1]
  <2> DEFINE minimum == Profile[i.action.actionType].minimumConfidence
  <2> SUFFICES ASSUME w = [i EXCEPT !.confidence[1].basisPoints = minimum - 1] PROVE FALSE
    OBVIOUS
  <2> HIDE DEF minimum
  <2>0. PICK less : less = minimum - 1  OBVIOUS
  <2>1. PICK facts : facts = i.confidence  OBVIOUS
  <2>2. PICK fact : fact = [facts[1] EXCEPT !.basisPoints = less]  OBVIOUS
  <2>3. w = [i EXCEPT !.confidence = [facts EXCEPT ![1] = fact]]  BY <2>0, <2>1, <2>2, Zenon
  <2>4. /\ w.confidence = [facts EXCEPT ![1] = fact]
        /\ DOMAIN w = DOMAIN i /\ w.action = i.action
    BY <1>7, <2>3
  <2>5. j.confidence = [facts EXCEPT ![1] = fact]  BY <1>7, <1>8, <2>4
  <2>6. ListOf({"basisPoints", "provenance"}, facts)  BY <2>1 DEF PolicyInputOK
  <2>7. facts \in Seq(Elems(facts)) /\ [facts EXCEPT ![1] = fact] # <<>>
    BY <1>4, <2>5, <2>6, Zenon DEF ListOf
  <2>8. 1 \in DOMAIN facts /\ fact \in Elems(j.confidence)
    BY <2>5, <2>7, OneIsListed, FirstStays, Zenon
  <2>9. fact.basisPoints = less  BY <2>2, <2>6, <2>8 DEF ListOf
  <2>10. Profile[j.action.actionType].minimumConfidence = minimum
    BY <1>7, <1>9, <2>4 DEF minimum
  <2>11. minimum \in Int  BY <1>1, <2>10 DEF Profile
  <2> QED BY <1>4, <2>0, <2>8, <2>9, <2>10, <2>11
<1>16. w # [i EXCEPT !.confidence[1].provenance = "MODEL"]
  <2> SUFFICES ASSUME w = [i EXCEPT !.confidence[1].provenance = "MODEL"] PROVE FALSE
    OBVIOUS
  <2>1. PICK facts : facts = i.confidence  OBVIOUS
  <2>2. PICK fact : fact = [facts[1] EXCEPT !.provenance = "MODEL"]  OBVIOUS
  <2>3. w = [i EXCEPT !.confidence = [facts EXCEPT ![1] = fact]]  BY <2>1, <2>2, Zenon
  <2>4. w.confidence = [facts EXCEPT ![1] = fact] /\ DOMAIN w = DOMAIN i  BY <1>7, <2>3
  <2>5. j.confidence = [facts EXCEPT ![1] = fact]  BY <1>7, <1>8, <2>4
  <2>6. ListOf({"basisPoints", "provenance"}, facts)  BY <2>1 DEF PolicyInputOK
  <2>7. facts \in Seq(Elems(facts)) /\ [facts EXCEPT ![1] = fact] # <<>>
    BY <1>4, <2>5, <2>6, Zenon DEF ListOf
  <2>8. 1 \in DOMAIN facts /\ fact \in Elems(j.confidence)
    BY <2>5, <2>7, OneIsListed, FirstStays, Zenon
  <2>9. fact.provenance = "MODEL"  BY <2>2, <2>6, <2>8 DEF ListOf
  <2> QED BY <1>4, <2>8, <2>9
<1>17. w # [i EXCEPT !.confidence = <<>>]
  <2> SUFFICES ASSUME w = [i EXCEPT !.confidence = <<>>] PROVE FALSE  OBVIOUS
  <2>1. w.confidence = <<>> /\ DOMAIN w = DOMAIN i  BY <1>7
  <2> QED BY <1>4, <1>7, <1>8, <2>1
<1>18. w # [i EXCEPT !.reversibility = "UNKNOWN"]
  <2> SUFFICES ASSUME w = [i EXCEPT !.reversibility = "UNKNOWN"] PROVE FALSE  OBVIOUS
  <2>1. w.reversibility = "UNKNOWN" /\ DOMAIN w = DOMAIN i  BY <1>7
  <2> QED BY <1>4, <1>7, <1>8, <2>1
<1>19. w # [i EXCEPT !.modelProposedPermission = "ALLOW"]
  <2> SUFFICES ASSUME w = [i EXCEPT !.modelProposedPermission = "ALLOW"] PROVE FALSE  OBVIOUS
  <2>1. w.modelProposedPermission = "ALLOW" /\ DOMAIN w = DOMAIN i  BY <1>7
  <2> QED BY <1>2, <1>7, <1>8, <2>1
<1>20. w # [i EXCEPT !.client.active = FALSE]
  <2> SUFFICES ASSUME w = [i EXCEPT !.client.active = FALSE] PROVE FALSE  OBVIOUS
  <2>1. w.client.active = FALSE /\ DOMAIN w = DOMAIN i  BY <1>7
  <2>2. j.client.active = FALSE  BY <1>7, <1>8, <2>1
  <2> QED BY <1>2, <2>2
<1>21. w # [i EXCEPT !.evidence.quality = "ACCEPTABLE"]
  <2> SUFFICES ASSUME w = [i EXCEPT !.evidence.quality = "ACCEPTABLE"] PROVE FALSE  OBVIOUS
  <2>1. w.evidence.quality = "ACCEPTABLE" /\ DOMAIN w = DOMAIN i  BY <1>7
  <2>2. j.evidence.quality = "ACCEPTABLE"  BY <1>7, <1>8, <2>1
  <2> QED BY <1>2, <2>2
<1>22. w # [i EXCEPT !.evidence.completeness = "CONFLICTED"]
  <2> SUFFICES ASSUME w = [i EXCEPT !.evidence.completeness = "CONFLICTED"] PROVE FALSE  OBVIOUS
  <2>1. w.evidence.completeness = "CONFLICTED" /\ DOMAIN w = DOMAIN i  BY <1>7
  <2>2. j.evidence.completeness = "CONFLICTED"  BY <1>7, <1>8, <2>1
  <2> QED BY <1>2, <2>2
<1>23. w # [i EXCEPT !.humanAuthorization.state = "EXPIRED"]
  <2> SUFFICES ASSUME w = [i EXCEPT !.humanAuthorization.state = "EXPIRED"] PROVE FALSE  OBVIOUS
  <2>1. w.humanAuthorization.state = "EXPIRED" /\ DOMAIN w = DOMAIN i  BY <1>7
  <2>2. j.humanAuthorization.state = "EXPIRED"  BY <1>7, <1>8, <2>1
  <2> QED BY <1>4, <2>2
<1>24. w # [i EXCEPT !.humanAuthorization.authorizedActionFingerprint = None]
  <2> SUFFICES ASSUME w = [i EXCEPT !.humanAuthorization.authorizedActionFingerprint = None] PROVE FALSE  OBVIOUS
  <2>1. w.humanAuthorization.authorizedActionFingerprint = None /\ DOMAIN w = DOMAIN i  BY <1>7
  <2>2. j.humanAuthorization.authorizedActionFingerprint = None  BY <1>7, <1>8, <2>1
  <2> QED BY <1>4, <2>2
<1>25. w # [i EXCEPT !.humanAuthorization.authorizedLedgerBookId = None]
  <2> SUFFICES ASSUME w = [i EXCEPT !.humanAuthorization.authorizedLedgerBookId = None] PROVE FALSE  OBVIOUS
  <2>1. w.humanAuthorization.authorizedLedgerBookId = None /\ DOMAIN w = DOMAIN i  BY <1>7
  <2>2. j.humanAuthorization.authorizedLedgerBookId = None  BY <1>7, <1>8, <2>1
  <2> QED BY <1>4, <2>2
<1>26. ~(type # "CREATE_BILL" /\ w = [i EXCEPT !.profileFacts.existingVendorMatch = "AMBIGUOUS"])
  <2> SUFFICES ASSUME type # "CREATE_BILL", w = [i EXCEPT !.profileFacts.existingVendorMatch = "AMBIGUOUS"] PROVE FALSE  OBVIOUS
  <2>1. w.profileFacts.existingVendorMatch = "AMBIGUOUS" /\ DOMAIN w = DOMAIN i /\ w.action = i.action  BY <1>7
  <2>2. j.profileFacts.existingVendorMatch = "AMBIGUOUS" /\ j.action.actionType # "CREATE_BILL"  BY <1>7, <1>8, <1>9, <2>1
  <2> QED BY <1>4, <2>2
<1>27. ~(type = "CREATE_BILL" /\ w = [i EXCEPT !.amount.amountMinor = {Only(limit) + 1}])
  <2> SUFFICES ASSUME type = "CREATE_BILL", w = [i EXCEPT !.amount.amountMinor = {Only(limit) + 1}] PROVE FALSE  OBVIOUS
  <2>1. w.amount.amountMinor = {Only(limit) + 1} /\ DOMAIN w = DOMAIN i /\ w.action = i.action  BY <1>7
  <2>2. j.amount.amountMinor = {Only(limit) + 1} /\ j.action.actionType = "CREATE_BILL"  BY <1>7, <1>8, <1>9, <2>1
  <2> QED BY <1>6, <2>2
<1>28. ~(type = "CREATE_BILL" /\ w = [i EXCEPT !.amount.dailyAggregateBeforeMinor = {}])
  <2> SUFFICES ASSUME type = "CREATE_BILL", w = [i EXCEPT !.amount.dailyAggregateBeforeMinor = {}] PROVE FALSE  OBVIOUS
  <2>1. w.amount.dailyAggregateBeforeMinor = {} /\ DOMAIN w = DOMAIN i /\ w.action = i.action  BY <1>7
  <2>2. j.amount.dailyAggregateBeforeMinor = {} /\ j.action.actionType = "CREATE_BILL"  BY <1>7, <1>8, <1>9, <2>1
  <2> QED BY <1>6, <2>2
<1>29. ~(type = "CREATE_BILL" /\ w = [i EXCEPT !.accountTreatment.mappingId = None])
  <2> SUFFICES ASSUME type = "CREATE_BILL", w = [i EXCEPT !.accountTreatment.mappingId = None] PROVE FALSE  OBVIOUS
  <2>1. w.accountTreatment.mappingId = None /\ DOMAIN w = DOMAIN i /\ w.action = i.action  BY <1>7
  <2>2. j.accountTreatment.mappingId = None /\ j.action.actionType = "CREATE_BILL"  BY <1>7, <1>8, <1>9, <2>1
  <2> QED BY <1>5, <2>2
<1>30. ~(type = "CREATE_BILL" /\ w = [i EXCEPT !.taxTreatment.verified = FALSE])
  <2> SUFFICES ASSUME type = "CREATE_BILL", w = [i EXCEPT !.taxTreatment.verified = FALSE] PROVE FALSE  OBVIOUS
  <2>1. w.taxTreatment.verified = FALSE /\ DOMAIN w = DOMAIN i /\ w.action = i.action  BY <1>7
  <2>2. j.taxTreatment.verified = FALSE /\ j.action.actionType = "CREATE_BILL"  BY <1>7, <1>8, <1>9, <2>1
  <2> QED BY <1>5, <2>2
<1>31. ~(type = "CREATE_BILL" /\ w = [i EXCEPT !.history.priorVerifiedActions = 2])
  <2> SUFFICES ASSUME type = "CREATE_BILL", w = [i EXCEPT !.history.priorVerifiedActions = 2] PROVE FALSE  OBVIOUS
  <2>1. w.history.priorVerifiedActions = 2 /\ DOMAIN w = DOMAIN i /\ w.action = i.action  BY <1>7
  <2>2. j.history.priorVerifiedActions = 2 /\ j.action.actionType = "CREATE_BILL"  BY <1>7, <1>8, <1>9, <2>1
  <2> QED BY <1>5, <2>2
<1>32. ~(type = "CREATE_BILL" /\ w = [i EXCEPT !.history.hasCorrectionsOrReversals = TRUE])
  <2> SUFFICES ASSUME type = "CREATE_BILL", w = [i EXCEPT !.history.hasCorrectionsOrReversals = TRUE] PROVE FALSE  OBVIOUS
  <2>1. w.history.hasCorrectionsOrReversals = TRUE /\ DOMAIN w = DOMAIN i /\ w.action = i.action  BY <1>7
  <2>2. j.history.hasCorrectionsOrReversals = TRUE /\ j.action.actionType = "CREATE_BILL"  BY <1>7, <1>8, <1>9, <2>1
  <2> QED BY <1>5, <2>2
<1>33. ~(type = "CREATE_BILL" /\ w = [i EXCEPT !.profileFacts.duplicateCheck = "INCOMPLETE"])
  <2> SUFFICES ASSUME type = "CREATE_BILL", w = [i EXCEPT !.profileFacts.duplicateCheck = "INCOMPLETE"] PROVE FALSE  OBVIOUS
  <2>1. w.profileFacts.duplicateCheck = "INCOMPLETE" /\ DOMAIN w = DOMAIN i /\ w.action = i.action  BY <1>7
  <2>2. j.profileFacts.duplicateCheck = "INCOMPLETE" /\ j.action.actionType = "CREATE_BILL"  BY <1>7, <1>8, <1>9, <2>1
  <2> QED BY <1>5, <2>2
<1>34. ~(type = "CREATE_BILL" /\ w = [i EXCEPT !.profileFacts.vendorBindingVerified = FALSE])
  <2> SUFFICES ASSUME type = "CREATE_BILL", w = [i EXCEPT !.profileFacts.vendorBindingVerified = FALSE] PROVE FALSE  OBVIOUS
  <2>1. w.profileFacts.vendorBindingVerified = FALSE /\ DOMAIN w = DOMAIN i /\ w.action = i.action  BY <1>7
  <2>2. j.profileFacts.vendorBindingVerified = FALSE /\ j.action.actionType = "CREATE_BILL"  BY <1>7, <1>8, <1>9, <2>1
  <2> QED BY <1>5, <2>2
<1>35. type # "CREATE_BILL"
  <2> SUFFICES ASSUME type = "CREATE_BILL" PROVE FALSE  OBVIOUS
  <2> HIDE DEF limit
  <2>1. w \in Weaker(i, limit)  BY DEF limit
  <2>2. i.action.actionType = "CREATE_BILL"  OBVIOUS
  <2>3. \/ w = [i EXCEPT !.amount.amountMinor = {Only(limit) + 1}]
        \/ w = [i EXCEPT !.amount.dailyAggregateBeforeMinor = {}]
        \/ w = [i EXCEPT !.accountTreatment.mappingId = None]
        \/ w = [i EXCEPT !.taxTreatment.verified = FALSE]
        \/ w = [i EXCEPT !.history.priorVerifiedActions = 2]
        \/ w = [i EXCEPT !.history.hasCorrectionsOrReversals = TRUE]
        \/ w = [i EXCEPT !.profileFacts.duplicateCheck = "INCOMPLETE"]
        \/ w = [i EXCEPT !.profileFacts.vendorBindingVerified = FALSE]
    BY <2>1, <2>2, <1>10, <1>11, <1>12, <1>13, <1>14, <1>15, <1>16, <1>17, <1>18, <1>19, <1>20, <1>21,
       <1>22, <1>23, <1>24, <1>25, Zenon DEF Weaker
  <2> QED BY <2>3, <1>27, <1>28, <1>29, <1>30, <1>31, <1>32, <1>33, <1>34, Zenon DEF limit
<1> HIDE DEF type, limit
<1>36. w \in Weaker(i, limit) /\ i.action.actionType # "CREATE_BILL"  BY <1>35 DEF type, limit
<1>37. w = [i EXCEPT !.profileFacts.existingVendorMatch = "AMBIGUOUS"]
  BY <1>36, <1>10, <1>11, <1>12, <1>13, <1>14, <1>15, <1>16, <1>17, <1>18, <1>19, <1>20, <1>21,
     <1>22, <1>23, <1>24, <1>25, Zenon DEF Weaker
<1> QED BY <1>35, <1>37, <1>26, Zenon DEF type

LEMMA NoSuspendedIsAllowed ==
  ASSUME NEW b, NEW s, "suspended" \in DOMAIN s, NEW i
  PROVE  Evaluate(b, [s EXCEPT !.suspended = TRUE], Canonicalize(i)) # "ALLOW"
<1>1. PICK t : t = [s EXCEPT !.suspended = TRUE]
  OBVIOUS
<1>2. t.suspended
  BY <1>1
<1>3. ClientReasons(t, Seen(i)) # {}
  BY <1>2, NoReason
<1>4. Evaluate(b, t, Canonicalize(i)) # "ALLOW"
  BY <1>3, AllowIsUnopposed
<1>5. QED BY <1>1, <1>4

LEMMA CanonicalIsBuilt ==
  ASSUME NEW i, PolicyInputOK(i)
  PROVE  PolicyInputOK(Canonicalize(i).input)
<1>1. PICK j : j = Canonicalize(i).input
  OBVIOUS
<1>2. "action" \in DOMAIN i /\ {"computedActionFingerprint", "snapshot"} \subseteq DOMAIN i.action
  BY HasFields
<1>3. j = [i EXCEPT !.action = [i.action EXCEPT !.computedActionFingerprint = i.action.snapshot]]
  BY <1>1, <1>2 DEF Canonicalize
<1>4. /\ DOMAIN j = DOMAIN i /\ DOMAIN j.action = DOMAIN i.action
      /\ j.action.snapshot = i.action.snapshot
      /\ \A f \in DOMAIN i : f # "action" => j[f] = i[f]
  BY <1>2, <1>3
<1>5. {"evidence", "confidence"} \subseteq DOMAIN i
  BY HasFields
<1>6. j.evidence = i.evidence /\ j.confidence = i.confidence
  BY <1>4, <1>5
<1>7. \A f \in DOMAIN InputFields : f \in DOMAIN j /\ InputFields[f] \subseteq DOMAIN j[f]
  <2> SUFFICES ASSUME NEW f \in DOMAIN InputFields
      PROVE  f \in DOMAIN j /\ InputFields[f] \subseteq DOMAIN j[f]
    OBVIOUS
  <2>1. f \in DOMAIN i /\ InputFields[f] \subseteq DOMAIN i[f]
    BY DEF PolicyInputOK
  <2>2. DOMAIN j[f] = DOMAIN i[f]
    BY <1>4, <2>1
  <2>3. QED BY <1>4, <2>1, <2>2
<1>8. PolicyInputOK(j)
  <2>1. {"confidence", "riskFlags", "reversibility", "modelProposedPermission"} \subseteq DOMAIN j
    BY <1>4 DEF PolicyInputOK
  <2>2. /\ ListOf({"verified", "sha256", "verifiedSha256"}, j.evidence.facts)
        /\ ListOf({"basisPoints", "provenance"}, j.confidence)
        /\ j.action.snapshot # None /\ \A f \in Elems(j.evidence.facts) : f.sha256 # None
    BY <1>4, <1>6 DEF PolicyInputOK
  <2>3. QED BY <1>7, <2>1, <2>2 DEF PolicyInputOK
<1>9. QED BY <1>1, <1>8

\* Every client policy snapshot says whether the client is suspended.
PoliciesOK == \A k \in DOMAIN policies : "suspended" \in DOMAIN policies[k]

LEMMA PoliciesOKStep ==
  ASSUME ArtifactsOK, PoliciesOK, [ManualNext]_manualVars
  PROVE  PoliciesOK'
<1>1. CASE UNCHANGED policies
  BY <1>1 DEF PoliciesOK
<1>2. CASE RecordPolicy
  <2>1. PICK suspended \in BOOLEAN :
       policies' = Append(policies,
         [policies[Len(policies)] EXCEPT !.snapshotVersion = @ + 1, !.suspended = suspended,
            !.boundTo = bundles[Len(bundles)],
            !.policyVersion = bundles[Len(bundles)].policyVersion])
    BY <1>2 DEF RecordPolicy
  <2>2. PICK p : /\ policies' = Append(policies, p)
                 /\ DOMAIN p = DOMAIN policies[Len(policies)]
    <3>1. PICK p : p = [policies[Len(policies)] EXCEPT !.snapshotVersion = @ + 1,
            !.suspended = suspended, !.boundTo = bundles[Len(bundles)],
            !.policyVersion = bundles[Len(bundles)].policyVersion]
      OBVIOUS
    <3>2. policies' = Append(policies, p)
      BY <2>1, <3>1, Zenon
    <3>3. DOMAIN p = DOMAIN policies[Len(policies)]
      BY <3>1
    <3>4. QED BY <3>2, <3>3
  <2>3. PICK S : policies \in Seq(S)
    BY DEF ArtifactsOK
  <2>4. PICK T : T = S \cup {p}
    OBVIOUS
  <2>5. policies \in Seq(T)
    BY <2>3, <2>4, SeqDef
  <2>6. /\ Len(policies) \in DOMAIN policies /\ Len(policies) \in Nat
        /\ DOMAIN policies = 1..Len(policies)
        /\ DOMAIN policies' = 1..(Len(policies) + 1)
        /\ policies'[Len(policies) + 1] = p
        /\ \A k \in 1..Len(policies) : policies'[k] = policies[k]
    BY <2>2, <2>4, <2>5, AppendProperties, LenProperties DEF ArtifactsOK
  <2>7. "suspended" \in DOMAIN p
    BY <2>2, <2>6 DEF PoliciesOK
  <2>8. QED BY <2>6, <2>7 DEF PoliciesOK
<1>3. QED BY <1>1, <1>2, CallsChange, OthersChange

LEMMA NewDecisionsNeedEveryFact ==
  ASSUME FrontierOK, ArtifactsOK, DecisionsStand', PoliciesOK', [ManualNext]_manualVars,
         NEW d \in decisions' \ decisions
  PROVE  NeedsEveryFact(d)
<1>1. PICK w \in Workers : RecordDecision(w)
  BY CallsChange, OthersChange
<1>2. d.input = Canonicalize(plan.policyInput).input
  <2>1. PICK a : a = Evaluate(local[w].bundle, local[w].policy, Canonicalize(plan.policyInput))
    OBVIOUS
  <2>2. decisions' = decisions \cup
          {[bundleId |-> local[w].bundleId, policyId |-> local[w].policyId,
            bundle |-> local[w].bundle, policy |-> local[w].policy,
            input |-> Canonicalize(plan.policyInput).input, decision |-> a]}
    BY <1>1, <2>1 DEF RecordDecision
  <2>3. QED BY <2>2
<1>3. MaxMinor \in Nat /\ PolicyInputOK(d.input)
  BY <1>2, CanonicalIsBuilt, PlansAssumption DEF FrontierOK
<1>4. "suspended" \in DOMAIN d.policy
  BY DEF DecisionsStand, AuditNamesArtifacts, PoliciesOK
<1>5. \A i \in Weaker(d.input, d.policy.maxSingleActionAmountMinor) :
        Evaluate(d.bundle, d.policy, Canonicalize(i)) # "ALLOW"
  BY <1>3, NoWeakerIsAllowed
<1>6. Evaluate(d.bundle, [d.policy EXCEPT !.suspended = TRUE], Canonicalize(d.input)) # "ALLOW"
  BY <1>4, NoSuspendedIsAllowed
<1>7. QED BY <1>5, <1>6 DEF NeedsEveryFact

----------------------------------------------------------------------------
(***************************************************************************)
(* The balance proof.  A sum over a statement of any length is an integer, *)
(* by induction over the rows: a function that sums the sets of n rows     *)
(* exists for every n, as one for n rows is extended to n + 1.             *)
(***************************************************************************)
\* Every inhabited set of naturals has a least element, which is how a claim about
\* all of them is shown by its smallest counterexample.
LEMMA LeastNatural ==
  ASSUME NEW T, T \subseteq Nat, T # {}
  PROVE  \E x \in T : \A y \in T : ~(y < x)
<1>1. PICK R : R = OpToRel(<, Nat)
  OBVIOUS
<1>2. IsWellFoundedOn(R, Nat)
  BY <1>1, NatLessThanWellFounded
<1>3. PICK x \in T : \A y \in T : <<y, x>> \notin R
  BY <1>2, WFMin
<1>4. \A y \in T : y < x => <<y, x>> \in R
  BY <1>1 DEF OpToRel
<1>5. QED BY <1>3, <1>4

\* What SumAt recurs on.
Pick(s) == CHOOSE k \in s : TRUE
Sums(rows, S, g) ==
  g = [s \in SUBSET S |-> IF s = {} THEN 0 ELSE rows[Pick(s)].amount.minor + g[s \ {Pick(s)}]]

LEMMA SumAtIsRecursive ==
  ASSUME NEW rows, NEW S
  PROVE  SumAt(rows, S) = (CHOOSE g : Sums(rows, S, g))[S]
BY DEF SumAt, MapThenFoldSet, Sums, Pick

\* The subsets of S of n elements at most.
Upto(S, n) == {s \in SUBSET S : Cardinality(s) <= n}
Term(rows, s) == rows[Pick(s)].amount.minor
Extended(rows, S, n, g) ==
  [s \in Upto(S, n + 1) |-> IF s = {} THEN 0 ELSE Term(rows, s) + g[s \ {Pick(s)}]]
SumsUpto(rows, S, n, g) ==
  g = [s \in Upto(S, n) |-> IF s = {} THEN 0 ELSE Term(rows, s) + g[s \ {Pick(s)}]]

LEMMA PickIsLess ==
  ASSUME NEW S, IsFiniteSet(S), NEW s \in SUBSET S, s # {}
  PROVE  /\ Pick(s) \in s /\ s \ {Pick(s)} \in SUBSET S
         /\ Cardinality(s) \in Nat /\ Cardinality(s \ {Pick(s)}) = Cardinality(s) - 1
         /\ Cardinality(s) # 0
<1>1. Pick(s) \in s
  BY DEF Pick
<1>2. IsFiniteSet(s)
  BY FS_Subset
<1>3. Cardinality(s) \in Nat /\ Cardinality(s) # 0
  BY <1>2, FS_CardinalityType, FS_EmptySet
<1>4. Cardinality(s \ {Pick(s)}) = Cardinality(s) - 1
  BY <1>1, <1>2, FS_RemoveElement
<1>5. QED BY <1>1, <1>3, <1>4

LEMMA SumsExist ==
  ASSUME NEW rows, NEW S, IsFiniteSet(S)
  PROVE  \A n \in Nat : \E g : SumsUpto(rows, S, n, g)
<1> DEFINE T == {n \in Nat : ~\E g : SumsUpto(rows, S, n, g)}
<1>1. ASSUME T # {} PROVE FALSE
  <2>1. PICK n \in T : \A m \in T : ~(m < n)
    <3> HIDE DEF T
    <3>1. T \subseteq Nat BY DEF T
    <3>2. QED BY <1>1, <3>1, LeastNatural
  <2>2. n # 0
    <3>1. \A s \in Upto(S, 0) : s = {}
      BY FS_Subset, FS_CardinalityType, FS_EmptySet DEF Upto
    <3>2. PICK g : g = [s \in Upto(S, 0) |-> 0]
      OBVIOUS
    <3>3. SumsUpto(rows, S, 0, g)
      BY <3>1, <3>2 DEF SumsUpto
    <3>4. QED BY <3>3
  <2>3. n - 1 \in Nat /\ n - 1 \notin T
    BY <2>1, <2>2
  <2>4. PICK g : SumsUpto(rows, S, n - 1, g)
    BY <2>3
  <2>5. PICK h : h = Extended(rows, S, n - 1, g)
    OBVIOUS
  <2>6. PICK m \in Nat : m = n - 1 /\ n = m + 1
    BY <2>3
  <2>7. \A s \in Upto(S, m) : h[s] = g[s]
    <3>1. \A s \in Upto(S, m) : s \in Upto(S, m + 1)
      BY FS_Subset, FS_CardinalityType DEF Upto
    <3>2. QED BY <2>4, <2>5, <2>6, <3>1 DEF SumsUpto, Extended
  <2>8. \A s \in Upto(S, m + 1) : s # {} => s \ {Pick(s)} \in Upto(S, m)
    BY PickIsLess DEF Upto
  <2>9. SumsUpto(rows, S, m + 1, h)
    BY <2>5, <2>6, <2>7, <2>8 DEF SumsUpto, Extended
  <2>10. QED BY <2>1, <2>6, <2>9
<1>2. QED BY <1>1

LEMMA SumIsRecursive ==
  ASSUME NEW rows, NEW S, IsFiniteSet(S)
  PROVE  Sums(rows, S, CHOOSE g : Sums(rows, S, g))
<1>1. Cardinality(S) \in Nat
  BY FS_CardinalityType
<1>2. Upto(S, Cardinality(S)) = SUBSET S
  BY FS_Subset DEF Upto
<1>3. PICK g : SumsUpto(rows, S, Cardinality(S), g)
  BY <1>1, SumsExist
<1>4. Sums(rows, S, g)
  BY <1>2, <1>3 DEF Sums, SumsUpto, Term
<1>5. QED BY <1>4

LEMMA SumIsInteger ==
  ASSUME NEW rows, NEW S, IsFiniteSet(S), \A k \in S : rows[k].amount.minor \in Int
  PROVE  SumAt(rows, S) \in Int
<1>1. PICK g : g = CHOOSE f : Sums(rows, S, f)
  OBVIOUS
<1>2. g = [s \in SUBSET S |-> IF s = {} THEN 0 ELSE Term(rows, s) + g[s \ {Pick(s)}]]
  <2>1. Sums(rows, S, g)
    BY <1>1, SumIsRecursive
  <2>2. QED BY <2>1 DEF Sums, Term
<1> DEFINE T == {n \in Nat : \E s \in SUBSET S : Cardinality(s) = n /\ g[s] \notin Int}
<1>3. T = {}
  <2> SUFFICES ASSUME T # {} PROVE FALSE
    OBVIOUS
  <2>1. PICK n \in T : \A m \in T : ~(m < n)
    <3> HIDE DEF T
    <3>1. T \subseteq Nat BY DEF T
    <3>2. QED BY <3>1, LeastNatural
  <2>2. PICK s \in SUBSET S : Cardinality(s) = n /\ g[s] \notin Int
    BY <2>1
  <2>3. s # {} /\ g[s] = Term(rows, s) + g[s \ {Pick(s)}]
    <3>1. g[s] = IF s = {} THEN 0 ELSE Term(rows, s) + g[s \ {Pick(s)}]
      BY <1>2
    <3>2. QED BY <2>2, <3>1
  <2>4. Pick(s) \in S /\ s \ {Pick(s)} \in SUBSET S
        /\ Cardinality(s \ {Pick(s)}) = n - 1 /\ n \in Nat /\ n # 0
    BY <2>2, <2>3, PickIsLess
  <2>5. n - 1 \in Nat /\ n - 1 \notin T
    BY <2>1, <2>4
  <2>6. g[s \ {Pick(s)}] \in Int
    BY <2>4, <2>5
  <2>7. Term(rows, s) \in Int
    BY <2>4 DEF Term
  <2>8. QED BY <2>2, <2>3, <2>6, <2>7
<1>4. Cardinality(S) \in Nat
  BY FS_CardinalityType
<1>5. g[S] \in Int
  BY <1>3, <1>4
<1>6. QED BY <1>1, <1>5, SumAtIsRecursive
LEMMA SideIsValid ==
  ASSUME NEW e, SideValidation(e) = "OK"
  PROVE  e.covered /\ e.boundarySeen /\ e.opening + e.movement = e.closing
BY DEF SideValidation

LEMMA VerdictIsProven ==
  ASSUME NEW source, NEW ledger, BalanceVerdict(source, ledger) = "RECONCILED"
  PROVE  /\ SideValidation(source) = "OK" /\ SideValidation(ledger) = "OK"
         /\ source.opening = ledger.opening /\ source.closing = ledger.closing
BY DEF BalanceVerdict

\* When nothing is rejected and nothing repeated, every row is a member.
LEMMA CoveredIsWhole ==
  ASSUME NEW rows \in Seq(OfxRow),
         Cardinality(OfxRepeated(rows)) = 0,
         Cardinality(DOMAIN rows) - Cardinality(OfxMembers(rows)) - Cardinality(OfxRepeated(rows)) = 0
  PROVE  /\ OfxMembers(rows) = DOMAIN rows
         /\ \A k \in DOMAIN rows : InPeriod(rows[k].day) /\ Readable(rows[k].amount)
         /\ \A j, k \in DOMAIN rows : j # k => rows[j].fitId # rows[k].fitId
<1>1. PICK n \in Nat : DOMAIN rows = 1..n
  OBVIOUS
<1>2. IsFiniteSet(DOMAIN rows) /\ DOMAIN rows \subseteq Nat
  BY <1>1, FS_Interval
<1>3. OfxMembers(rows) \in SUBSET DOMAIN rows /\ OfxRepeated(rows) \in SUBSET DOMAIN rows
  BY DEF OfxMembers, OfxRepeated
<1>4. OfxRepeated(rows) = {}
  BY <1>2, <1>3, FS_Subset, FS_EmptySet
<1>5. Cardinality(OfxMembers(rows)) = Cardinality(DOMAIN rows)
  <2>1. Cardinality(OfxMembers(rows)) \in Nat /\ Cardinality(DOMAIN rows) \in Nat
    BY <1>2, <1>3, FS_Subset, FS_CardinalityType
  <2>2. QED BY <2>1
<1>6. OfxMembers(rows) = DOMAIN rows
  BY <1>2, <1>3, <1>5, FS_Subset
<1>7. OfxRejected(rows) = {}
  BY <1>6 DEF OfxMembers, OfxRejected
<1>8. \A k \in DOMAIN rows : InPeriod(rows[k].day) /\ Readable(rows[k].amount)
  BY <1>6, <1>7 DEF OfxMembers, OfxRejected
<1>9. \A j, k \in DOMAIN rows : j < k => rows[j].fitId # rows[k].fitId
  <2> SUFFICES ASSUME NEW j \in DOMAIN rows, NEW k \in DOMAIN rows, j < k,
                      rows[j].fitId = rows[k].fitId
      PROVE  FALSE
    OBVIOUS
  <2>1. j \in 1..(k - 1)
    BY <1>1
  <2>2. k \in OfxRepeated(rows)
    BY <1>7, <2>1 DEF OfxRepeated
  <2>3. QED BY <1>4, <2>2
<1>10. \A j, k \in DOMAIN rows : j # k => j < k \/ k < j
  BY <1>2
<1>11. QED BY <1>6, <1>8, <1>9, <1>10

LEMMA EvidenceProves ==
  ASSUME NEW prior, NEW current, NEW scope, scope.sourceSign \in {1, -1},
         {prior.balance, current.balance} \subseteq Money, current.rows \in Seq(OfxRow),
         NEW e, e = OfxEvidence(prior, current, scope), SideValidation(e) = "OK"
  PROVE  /\ StatementProves(prior, current)
         /\ e.opening = scope.sourceSign * prior.balance.minor
         /\ e.closing = scope.sourceSign * current.balance.minor
<1> DEFINE rows == current.rows
           members == OfxMembers(rows)
           repeated == Cardinality(OfxRepeated(rows))
           rejected == Cardinality(DOMAIN rows) - Cardinality(members) - repeated
           total == SumAt(rows, members)
           cutoff == OfxCutoffUnproven(prior, current)
<1>1. e.covered /\ e.boundarySeen /\ e.opening + e.movement = e.closing
  BY SideIsValid
<1>2. /\ e.opening = scope.sourceSign * prior.balance.minor
      /\ e.closing = scope.sourceSign * current.balance.minor
      /\ e.movement = scope.sourceSign * total
      /\ e.covered => rejected = 0 /\ repeated = 0
      /\ e.boundarySeen => ~cutoff
  <2> HIDE DEF rows, members, total, cutoff
  <2>1. PICK o : o = scope.sourceSign * prior.balance.minor
    OBVIOUS
  <2>2. PICK c : c = scope.sourceSign * current.balance.minor
    OBVIOUS
  <2>3. PICK m : m = scope.sourceSign * total
    OBVIOUS
  <2>4. PICK v : v = (rejected = 0 /\ repeated = 0 /\ (o + m # c \/ ~cutoff))
    OBVIOUS
  <2>5. PICK l, a, r, d : /\ l = Len(rows) /\ a = Cardinality(members)
                          /\ r = rejected /\ d = repeated
    OBVIOUS
  <2>6. PICK b : b = ~cutoff
    OBVIOUS
  <2>7. e = [opening |-> o, closing |-> c, movement |-> m, returned |-> l, accepted |-> a,
             rejected |-> r, duplicates |-> d, boundarySeen |-> b, covered |-> v]
    BY <2>1, <2>2, <2>3, <2>4, <2>5, <2>6, Zenon DEF OfxEvidence, rows, members, total, cutoff
  <2>8. e.opening = o /\ e.closing = c /\ e.movement = m /\ e.boundarySeen = b /\ e.covered = v
    BY <2>7
  <2>9. QED BY <2>1, <2>2, <2>3, <2>4, <2>6, <2>8, Zenon
<1>3. /\ members = DOMAIN rows
      /\ \A k \in DOMAIN rows : InPeriod(rows[k].day) /\ Readable(rows[k].amount)
      /\ \A j, k \in DOMAIN rows : j # k => rows[j].fitId # rows[k].fitId
  BY <1>1, <1>2, CoveredIsWhole
<1>4. total \in Int
  <2>1. PICK n \in Nat : DOMAIN rows = 1..n
    OBVIOUS
  <2>2. IsFiniteSet(members)
    BY <1>3, <2>1, FS_Interval
  <2>3. \A k \in members : rows[k].amount.minor \in Int
    <3>1. \A k \in DOMAIN rows : rows[k] \in OfxRow
      OBVIOUS
    <3>2. \A r \in OfxRow : r.amount.minor \in Int
      BY DEF OfxRow, Money
    <3>3. members = DOMAIN rows
      BY <1>3
    <3> HIDE DEF rows, members
    <3>4. QED BY <3>1, <3>2, <3>3
  <2>4. QED BY <2>2, <2>3, SumIsInteger
<1>5. prior.balance.minor + SumAt(rows, DOMAIN rows) = current.balance.minor
  <2>1. prior.balance.minor \in Int /\ current.balance.minor \in Int
    BY DEF Money
  <2>2. prior.balance.minor + total = current.balance.minor
    <3> HIDE DEF total
    <3>1. PICK p, c, s : p = prior.balance.minor /\ c = current.balance.minor /\ s = scope.sourceSign
      OBVIOUS
    <3>2. s * p + s * total = s * c
      BY <1>1, <1>2, <3>1
    <3>3. QED BY <1>4, <2>1, <3>1, <3>2
  <2>3. QED BY <1>3, <2>2
<1>6. {prior.asOf, prior.end} = {PeriodStart - 1} /\ {current.asOf, current.end} = {PeriodEnd}
  BY <1>1, <1>2 DEF OfxCutoffUnproven
<1>7. QED BY <1>2, <1>3, <1>5, <1>6 DEF StatementProves

LEMMA ReconciledIsProvenStep ==
  ASSUME FrontierOK, ReconciledIsProven, [ManualNext]_manualVars
  PROVE  ReconciledIsProven'
<1> SUFFICES ASSUME NEW p \in proofs', p.state = "RECONCILED"
    PROVE  /\ StatementProves(plan'.prior, plan'.current)
           /\ p.ledger.opening = plan'.scope.sourceSign * plan'.prior.balance.minor
           /\ p.ledger.closing = plan'.scope.sourceSign * plan'.current.balance.minor
           /\ p.ledger.opening + p.ledger.movement = p.ledger.closing
  BY DEF ReconciledIsProven, StatementProves
<1>1. plan' = plan
  BY CallsChange, OthersChange
<1>2. CASE p \in proofs
  BY <1>1, <1>2 DEF ReconciledIsProven
<1>3. CASE p \notin proofs
  <2>1. PICK w \in Workers : ReadClosing(w)
    BY <1>3, CallsChange, OthersChange
  <2>2. PICK s : s = OfxEvidence(plan.prior, plan.current, plan.scope)
    OBVIOUS
  <2>3. PICK l : l = LedgerEvidence(local[w].after, local[w].opening, TrialBalance(PeriodEnd),
                                    plan.scope)
    OBVIOUS
  <2>4. proofs' \subseteq proofs \cup {[source |-> s, ledger |-> l, state |-> BalanceVerdict(s, l)]}
    BY <2>1, <2>2, <2>3 DEF ReadClosing
  <2>5. p.ledger = l /\ BalanceVerdict(s, l) = "RECONCILED"
    <3>1. PICK v : v = BalanceVerdict(s, l)
      OBVIOUS
    <3>2. p = [source |-> s, ledger |-> l, state |-> v]
      BY <1>3, <2>4, <3>1
    <3>3. QED BY <3>1, <3>2
  <2>6. /\ SideValidation(s) = "OK" /\ SideValidation(l) = "OK"
        /\ s.opening = l.opening /\ s.closing = l.closing
    BY <2>5, VerdictIsProven
  <2>7. /\ plan.scope.sourceSign \in {1, -1}
        /\ {plan.prior.balance, plan.current.balance} \subseteq Money
        /\ plan.current.rows \in Seq(OfxRow)
    BY PlansAssumption DEF FrontierOK
  <2>8. /\ StatementProves(plan.prior, plan.current)
        /\ s.opening = plan.scope.sourceSign * plan.prior.balance.minor
        /\ s.closing = plan.scope.sourceSign * plan.current.balance.minor
    BY <2>2, <2>6, <2>7, EvidenceProves
  <2>9. l.opening + l.movement = l.closing
    BY <2>6, SideIsValid
  <2>10. QED BY <1>1, <2>5, <2>6, <2>8, <2>9
<1>4. QED BY <1>2, <1>3

----------------------------------------------------------------------------
(***************************************************************************)
(* The theorems of ManualShadow.                                           *)
(***************************************************************************)
Accountable ==
  /\ ClosuresOK /\ ArtifactsOK /\ IdsStand /\ DecisionsStand /\ PoliciesOK
  /\ FrontierOK /\ HandlersFollow /\ ReturnsAreFrozen /\ CommitsAreFrozen
  /\ ReconciledIsProven
ManualIInv == SomeTyped /\ Orchestrated /\ Accountable

LEMMA ManualIInvInit == ManualInit => ManualIInv
<1> SUFFICES ASSUME ManualInit PROVE ManualIInv
  OBVIOUS
<1>1. SomeTyped /\ Orchestrated
  <2>1. Init
    BY DEF ManualInit
  <2>2. PICK X : NoOutput \in X
    OBVIOUS
  <2>3. Typed(X) /\ Orchestrated
    BY <2>1, <2>2, OrchestratedInit
  <2>4. QED BY <2>3 DEF SomeTyped
<1>2. \A w \in Workers : At(w, "idle")
  BY DEF ManualInit, Init, Idle, At
<1>3. ClosuresOK /\ IdsStand /\ HandlersFollow /\ ReturnsAreFrozen
  BY <1>2 DEF ManualInit, ClosuresOK, IdsStand, HandlersFollow, Reconciling, ReturnsAreFrozen,
    HandsOver, At
<1>4. ArtifactsOK /\ PoliciesOK
  <2>1. bundles = <<plan.bundle>> /\ policies = <<plan.policy>>
    BY DEF ManualInit
  <2>2. bundles \in Seq({plan.bundle}) /\ policies \in Seq({plan.policy})
    BY <2>1
  <2>3. 1 \in DOMAIN bundles /\ 1 \in DOMAIN policies
    BY <2>1
  <2>4. "suspended" \in DOMAIN plan.policy
    BY PlansAssumption DEF ManualInit
  <2>5. PoliciesOK
    BY <2>1, <2>4 DEF PoliciesOK
  <2>6. QED BY <2>2, <2>3, <2>5 DEF ArtifactsOK
<1>5. DecisionsStand
  BY DEF ManualInit, DecisionsStand, AuditNamesArtifacts
<1>6. FrontierOK
  <2>1. plan \in Plans /\ plan.rows \subseteq SourceRows
    BY DEF ManualInit, SourceRows
  <2>2. frontier = [stable |-> plan.rows, matches |-> {}, made |-> 0]
        /\ snapshots = [r \in Runs |-> [INPUT |-> None, OUTPUT |-> None]]
    BY DEF ManualInit
  <2>3. QED BY <2>1, <2>2 DEF FrontierOK
<1>7. CommitsAreFrozen
  BY StageOfReconciliation DEF ManualInit, Init, CommitsAreFrozen
<1>8. ReconciledIsProven
  BY DEF ManualInit, ReconciledIsProven
<1>9. QED BY <1>1, <1>3, <1>4, <1>5, <1>6, <1>7, <1>8 DEF ManualIInv, Accountable

LEMMA ManualIInvStep == ManualIInv /\ [ManualNext]_manualVars => ManualIInv'
<1> SUFFICES ASSUME ManualIInv, [ManualNext]_manualVars PROVE ManualIInv'
  OBVIOUS
<1> USE DEF ManualIInv, Accountable
<1>1. SomeTyped' /\ Orchestrated'
  BY ManualMoves
<1>2. ClosuresOK'
  BY ClosuresMove, OthersChange DEF ClosuresOK
<1>3. ArtifactsOK' /\ IdsStand' /\ DecisionsStand' /\ PoliciesOK'
  BY ArtifactsKept, IdsStandStep, DecisionsStandStep, PoliciesOKStep
<1>4. FrontierOK' /\ HandlersFollow'
  BY FrontierOKStep, HandlersFollowStep
<1>5. ReturnsAreFrozen' /\ CommitsAreFrozen'
  BY ReturnsAreFrozenStep, CommitsAreFrozenStep
<1>6. ReconciledIsProven'
  BY ReconciledIsProvenStep
<1>7. QED BY <1>1, <1>2, <1>3, <1>4, <1>5, <1>6

\* The worker keeps its invariant when its handlers are the services of a manual
\* run, whatever plan it runs and however the domain changes meanwhile.
THEOREM ManualInvariant == ManualSpec => []ManualIInv
BY ManualIInvInit, ManualIInvStep, PTL DEF ManualSpec

\* In a manual run too, the fence decides, stages work on what was committed,
\* and the closed run hides no outcome.
THEOREM ManualRunIsOrchestrated ==
  ManualSpec => [](FenceDecides /\ InputsAreCommitted /\ NothingIsMasked)
<1>1. ManualIInv => FenceDecides /\ InputsAreCommitted /\ NothingIsMasked
  BY LastDecides DEF ManualIInv, SomeTyped, Orchestrated
<1>2. QED BY <1>1, ManualInvariant, PTL

\* The snapshots a RECONCILIATION stage commits are the two its run recorded,
\* over the same source rows, through retries, replaced workers and imports
\* (record_shadow_reconciliation_snapshot_v1).
THEOREM CommitsWhatWasFrozen == ManualSpec => []FrozenFrontier
<1>1. ManualIInv => FrozenFrontier
  BY DEF ManualIInv, Accountable, CommitsAreFrozen, Committed, FrozenFrontier
<1>2. QED BY <1>1, ManualInvariant, PTL

\* The bundle and the snapshot a stored decision names by id are those it was
\* taken under, whoever published what between the two loads.
THEOREM DecisionsNameArtifacts == ManualSpec => []AuditNamesArtifacts
<1>1. ManualIInv => AuditNamesArtifacts
  BY DEF ManualIInv, Accountable, DecisionsStand
<1>2. QED BY <1>1, ManualInvariant, PTL

\* RECONCILED is said only of a statement of any length whose rows, each read once,
\* add up to its balances, and of a ledger that opens, moves and closes as it does.
THEOREM BalancesAreProven == ManualSpec => []ReconciledIsProven
<1>1. ManualIInv => ReconciledIsProven
  BY DEF ManualIInv, Accountable
<1>2. QED BY <1>1, ManualInvariant, PTL

\* ALLOW is stored only for an input that had every fact: taken for one that says
\* less about any of them, or under a suspended client, the decision would have
\* been another one, whatever the bundle, the policy and its limits.
THEOREM AllowsNothingWeaker == ManualSpec => AllowNeedsEveryFact
<1>1. ManualIInv /\ ManualIInv' /\ [ManualNext]_manualVars =>
        [\A d \in decisions' \ decisions : d.decision = "ALLOW" => NeedsEveryFact(d)]_decisions
  BY NewDecisionsNeedEveryFact DEF ManualIInv, Accountable
<1>2. QED BY <1>1, ManualInvariant, PTL DEF ManualSpec, AllowNeedsEveryFact
=============================================================================
