--------------------------- MODULE ResultsScreen ----------------------------
(***************************************************************************)
(* The screen that follows an upload (components/BatchUpload.tsx, with the *)
(* decisions of lib/batch-results.ts): it streams the readings of a batch, *)
(* lets the human fix, affirm and classify documents, and approves them by *)
(* the bulk route when nobody touched them and by the single route when    *)
(* somebody did.                                                           *)
(*                                                                         *)
(* An approval run is asynchronous: it plans from the rows as they are at  *)
(* the click, sends its requests one after the other, and patches the rows *)
(* at its end, while the fields of the screen stay editable. A request may *)
(* be answered, answered with a failure, or never answered.                *)
(***************************************************************************)
EXTENDS ApprovalRoutes

CONSTANTS
  Typed,      \* what the human may type, for each field that is touched
  MaxInputs,  \* bound on the edits, affirmations and classifications
  MaxRuns     \* bound on the approval runs and discards

ASSUME ScreenBounds ==
  /\ MaxInputs \in Nat /\ MaxRuns \in Nat
  /\ DOMAIN Typed \subseteq ReviewableFields

VARIABLES
  stage,   \* "processing", "done" or "idle" once the stream broke
  rows,    \* the row of each document
  run,     \* the approval under way
  inputs,  \* human inputs so far
  runs     \* runs and discards so far

screenVars == <<stage, rows, run, inputs, runs>>

\* A row: how its reading went, what the human set, and how its last approval ended. Armed
\* (proceedDuplicate) is set by the warning of a duplicate and by no edit cleared.
ScreenInit ==
  /\ stage = "processing"
  /\ rows = [d \in Docs |->
       [read |-> "extracting", edited |-> NoEdits, affirmed |-> {},
        settled |-> FALSE, type |-> readings[d].type, outcome |-> None, armed |-> FALSE]]
  /\ run = None
  /\ inputs = 0
  /\ runs = 0

-----------------------------------------------------------------------------
(* What a row is *)

RowConfidences(row, d) ==
  [f \in ReviewableFields |->
     EffectiveConfidence(readings[d].fields[f].confidence, readings[d].fields[f].value,
                         row.edited[f], f \in row.affirmed)]

\* Bug: once one field is fixed, the row counts as fixed.
Bug_OneFixClears(d) ==
  IF rows[d].edited # NoEdits \/ rows[d].affirmed # {} THEN "ready" ELSE BulkGate(readings[d])

RowGate(d) ==
  GateApproval(RowConfidences(rows[d], d), rows[d].type, readings[d].taxItemized,
               readings[d].typeConfidence, rows[d].settled)

HasHumanInput(d) ==
  \/ rows[d].settled
  \/ rows[d].affirmed # {}
  \/ \E f \in ReviewableFields :
       rows[d].edited[f] \notin {Untouched, readings[d].fields[f].value}

\* Ready, flagged or turned down by an earlier approval: not failed, gone or
\* approved.
Actionable(d) == rows[d].read = "success" /\ rows[d].outcome # "approved"

Approvable(d) ==
  /\ Actionable(d)
  /\ RowGate(d) = "ready"
  /\ FinalValues(readings[d], rows[d].edited)["currency"] \in Supported

\* The request of the single route: every field, as the row has it now.
DirectRequest(d) ==
  [doc |-> d, extraction |-> readings[d], edited |-> FinalValues(readings[d], rows[d].edited),
   type |-> rows[d].type, proceed |-> rows[d].armed]

-----------------------------------------------------------------------------
(* The stream *)

\* A reading lands: its row is queued and its source retained.
Arrives(d) ==
  /\ stage = "processing"
  /\ rows[d].read = "extracting"
  /\ rows' = [rows EXCEPT ![d].read = "success"]
  /\ queue' = [queue EXCEPT ![d] = "pending"]
  /\ UNCHANGED <<readings, confirmed, ledger, stage, run, inputs, runs>>

\* A reading fails, or its source cannot be retained once it is queued.
ReadFails(d) ==
  /\ stage = "processing"
  /\ rows[d].read = "extracting"
  /\ rows' = [rows EXCEPT ![d].read = "error"]
  /\ \E status \in {"absent", "unlinked"} : queue' = [queue EXCEPT ![d] = status]
  /\ UNCHANGED <<readings, confirmed, ledger, stage, run, inputs, runs>>

StreamEnds ==
  /\ stage = "processing"
  /\ \A d \in Docs : rows[d].read # "extracting"
  /\ stage' = "done"
  /\ UNCHANGED <<routeVars, rows, run, inputs, runs>>

\* The connection drops: the screen is back at the start, what was queued
\* stays queued.
StreamBreaks ==
  /\ stage = "processing"
  /\ stage' = "idle"
  /\ UNCHANGED <<routeVars, rows, run, inputs, runs>>

-----------------------------------------------------------------------------
(* The human's inputs: open on every row that was read, also during a run *)

MayInput(d) ==
  /\ stage = "done"
  /\ rows[d].read = "success"
  /\ inputs < MaxInputs
  /\ inputs' = inputs + 1

\* Typing reaches the row only when it differs from what was read: a field
\* typed back to that value keeps the edit before.
TypesIn(d, f, v) ==
  /\ MayInput(d)
  /\ v # readings[d].fields[f].value
  /\ rows' = [rows EXCEPT ![d].edited[f] = v]
  /\ UNCHANGED <<routeVars, stage, run, runs>>

Affirms(d, f) ==
  /\ MayInput(d)
  /\ rows' = [rows EXCEPT ![d].affirmed = @ \cup {f}]
  /\ UNCHANGED <<routeVars, stage, run, runs>>

\* The choice is offered while the type is in doubt.
Settles(d, type) ==
  /\ MayInput(d)
  /\ readings[d].typeConfidence < CriticalThreshold /\ ~rows[d].settled
  /\ rows' = [rows EXCEPT ![d].settled = TRUE, ![d].type = type]
  /\ UNCHANGED <<routeVars, stage, run, runs>>

-----------------------------------------------------------------------------
(* An approval run *)

Busy == run # None

\* planApproval: what the gate or the currency holds back is skipped.
Planned(S) == {d \in S : Approvable(d)}

NoPatch == [d \in Docs |-> None]

Click(S) ==
  LET plan == Planned(S)
  IN  /\ stage = "done"
      /\ ~Busy
      /\ runs < MaxRuns
      /\ runs' = runs + 1
      /\ run' = [queued |-> {d \in plan : ~HasHumanInput(d)},
                 direct |-> {DirectRequest(d) : d \in {e \in plan : HasHumanInput(e)}},
                 results |-> NoPatch, patch |-> NoPatch]
      /\ UNCHANGED <<routeVars, stage, rows, inputs>>

\* The batch goes first, one document after the other.
ServesQueued(d) ==
  /\ Busy
  /\ d \in run.queued
  /\ \E answer \in {"approved", "blocked", "error"} :
       /\ ServeBulk(d, answer)
       /\ run' = [run EXCEPT !.queued = @ \ {d},
                             !.results[d] = [outcome |-> answer, armed |-> rows[d].armed]]
  /\ UNCHANGED <<stage, rows, inputs, runs>>

\* What an answer makes of the row: a duplicate arms the next click to go
\* past the warning, and whatever is neither approved nor a duplicate is an
\* error.
PatchOf(answer) ==
  CASE answer = "approved" -> [outcome |-> "approved", armed |-> FALSE]
    [] answer = "duplicate" -> [outcome |-> "blocked", armed |-> TRUE]
    [] OTHER -> [outcome |-> "error", armed |-> FALSE]

\* Then the edited ones, each with its own request. What the server answered
\* may reach the screen as a failure.
ServesDirect(r) ==
  /\ Busy
  /\ run.queued = {}
  /\ r \in run.direct
  /\ \E answer \in {"approved", "duplicate", "blocked", "error"} :
       /\ ServeApprove(r, "results", answer)
       /\ \E seen \in {answer, "error"} :
            run' = [run EXCEPT !.direct = @ \ {r}, !.patch[r.doc] = PatchOf(seen)]
  /\ UNCHANGED <<stage, rows, inputs, runs>>

Patched(patch) ==
  [d \in Docs |->
     IF patch[d] = None THEN rows[d]
     ELSE [rows[d] EXCEPT !.outcome = patch[d].outcome, !.armed = patch[d].armed]]

\* The rows are patched at the end, all at once; an answer to the batch that
\* was a failure as a whole leaves its rows as they were.
RunEnds ==
  /\ Busy
  /\ run.queued = {} /\ run.direct = {}
  /\ \E results \in {run.results, NoPatch} :
       rows' = Patched([d \in Docs |-> IF results[d] # None THEN results[d] ELSE run.patch[d]])
  /\ run' = None
  /\ UNCHANGED <<routeVars, stage, inputs, runs>>

\* A request fails on the network: the run throws, and with it goes what it
\* had learnt from the answers before.
RunThrows ==
  /\ Busy
  /\ run.queued \cup run.direct # {} \/ run.results # NoPatch \/ run.patch # NoPatch
  /\ run' = None
  /\ UNCHANGED <<routeVars, stage, rows, inputs, runs>>

\* The document leaves the screen when its row was deleted; an answer that
\* never comes leaves it there.
Discards(d) ==
  /\ stage = "done"
  /\ ~Busy
  /\ Actionable(d)
  /\ runs < MaxRuns
  /\ runs' = runs + 1
  /\ \E answer \in {"deleted", "refused"} :
       /\ ServeDelete(d, answer)
       /\ \/ answer = "deleted" /\ rows' = [rows EXCEPT ![d].read = "discarded"]
          \/ UNCHANGED rows
  /\ UNCHANGED <<stage, run, inputs>>

ResultsNext ==
  \/ \E d \in Docs :
       \/ Arrives(d) \/ ReadFails(d) \/ Discards(d) \/ ServesQueued(d)
       \/ \E f \in DOMAIN Typed :
            Affirms(d, f) \/ \E v \in Typed[f] : TypesIn(d, f, v)
       \/ \E type \in Types : Settles(d, type)
  \/ StreamEnds \/ StreamBreaks
  \/ \E S \in SUBSET {d \in Docs : Actionable(d)} : S # {} /\ Click(S)
  \/ RunEnds \/ RunThrows
  \/ Busy /\ \E r \in run.direct : ServesDirect(r)
=============================================================================
