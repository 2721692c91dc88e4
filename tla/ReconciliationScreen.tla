------------------------- MODULE ReconciliationScreen -------------------------
(***************************************************************************)
(* The review page of a bank statement over the matches behind it:         *)
(* app/(app)/reconciliation/review/page.tsx with lib/review-optimistic.ts, *)
(* the routes it calls, and the report that an approval writes.            *)
(*                                                                         *)
(*   report   what reconciliation_reports says of each statement           *)
(*   request  what the call is for and how far its route is                *)
(*   page     what one open page holds                                     *)
(*   settled  history: the statements that were wholly approved at one     *)
(*            moment                                                       *)
(*   clicks, others  how often the page, and anybody else, has called      *)
(*                                                                         *)
(* The page changes its copy of the matches when something is clicked and  *)
(* loads them again only when a request fails, so its copy differs from    *)
(* the table.  A request is read by its route at once, and answered any    *)
(* time later.                                                             *)
(***************************************************************************)
EXTENDS MatchClaims

CONSTANTS
  PageStatement,  \* the statement the page shows
  MaxClicks,      \* bound on the requests of the page
  MaxOthers       \* bound on the requests of everybody else

ASSUME PageAssumption == PageStatement \in Statements

VARIABLES report, request, page, settled, clicks, others

screenVars == <<report, request, page, settled, clicks, others>>

LinesOf(st) == {b \in Banks : StatementOf[b] = st}
PageLines == LinesOf(PageStatement)

\* What the page knows of a line: the match it shows, whether the id of that
\* match still names a row, and whether unmatchedBank lists the line.
NoView == [b \in PageLines |-> [match |-> "none", names |-> FALSE, loose |-> TRUE]]

\* What computeAndPersistMatches returns at its end: all matches, superseded
\* ones too, and the lines without a live one.
View ==
  [b \in PageLines |->
     [match |-> IF Approved(b) THEN "approved" ELSE IF Present(b) THEN "open" ELSE "none",
      names |-> Present(b), loose |-> ~Live(b)]]

NoRequest == [kind |-> "none", stage |-> "none", page |-> FALSE, undone |-> {},
              view |-> NoView, of |-> NoStatement, report |-> "none"]
NoPage == [open |-> FALSE, view |-> NoView, actions |-> {}, shown |-> "none"]

----------------------------------------------------------------------------
(***************************************************************************)
(* What is shown.                                                          *)
(***************************************************************************)
\* board: the lines with an unapproved match and those without any.
OpenLines == {b \in PageLines : page.view[b].match = "open" \/ page.view[b].loose}

\* The panel of a line has its buttons only if the line has a match.
Decidable(b) == page.view[b].match = "open"

\* applyApprovals and applyRejection
AfterApprovals(view, ids) ==
  [b \in PageLines |-> IF b \in ids THEN [view[b] EXCEPT !.match = "approved"] ELSE view[b]]
AfterRejection(view, b) == [view EXCEPT ![b] = NoView[b]]

\* generateReport of what is stored
AllApproved(st) ==
  /\ \A b \in LinesOf(st) : Approved(b)
  /\ Qbs = {row[b].qb : b \in LinesOf(st)}

\* Bug: every live match counts as matched.
Bug_CountsLive(st) ==
  IF /\ \A b \in LinesOf(st) : Live(b)
     /\ Qbs = {row[b].qb : b \in LinesOf(st)}
  THEN "reconciled" ELSE "partly"

ReportOf(st) == IF AllApproved(st) THEN "reconciled" ELSE "partly"

ScreenInit ==
  /\ Init
  /\ report = [st \in Statements |-> "none"]
  /\ request = [c \in Calls |-> NoRequest]
  /\ page = NoPage
  /\ settled = {st \in Statements : AllApproved(st)} /\ clicks = 0 /\ others = 0

----------------------------------------------------------------------------
(***************************************************************************)
(* Requests.                                                               *)
(***************************************************************************)
Free(c) == request[c] = NoRequest /\ At(c, "idle")
Is(c, kind, stage) == request[c].kind = kind /\ request[c].stage = stage

Ask(c, kind, stage, fromPage) ==
  request' = [request EXCEPT ![c] = [NoRequest EXCEPT !.kind = kind, !.stage = stage,
                                                      !.page = fromPage]]
Becomes(c, stage) == request' = [request EXCEPT ![c].stage = stage]
Done(c) == request' = [request EXCEPT ![c] = NoRequest]

\* A route that is done: the page waits for the answer, nobody else does.
Finish(c, outcome) == IF request[c].page THEN Becomes(c, outcome) ELSE Done(c)

Clicks(c) == Free(c) /\ page.open /\ clicks < MaxClicks /\ clicks' = clicks + 1
             /\ UNCHANGED <<report, settled, others>>

Loads(c) == ReadStatement(c, PageStatement) /\ Ask(c, "load", "serving", TRUE)

OpenPage(c) ==
  /\ Free(c) /\ ~page.open /\ clicks < MaxClicks
  /\ \A d \in Calls : ~request[d].page
  /\ Loads(c)
  /\ clicks' = clicks + 1
  /\ UNCHANGED <<report, page, settled, others>>

\* boardApprove: the page hides the matches, the route approves those that are
\* still there and not superseded, and refuses when none is.
ClickApprove(c, ids) ==
  /\ Clicks(c)
  /\ ids # {} /\ \A b \in ids : Decidable(b)
  /\ page' = [page EXCEPT !.view = AfterApprovals(@, ids), !.actions = @ \cup {ids}]
  /\ LET found == {b \in ids : page.view[b].names /\ Live(b)} IN
       IF found = {} THEN Ask(c, "approve", "failed", TRUE) /\ UNCHANGED vars
       ELSE Ask(c, "approve", "serving", TRUE) /\ ReadForApproval(c, PageStatement, found)

ClickReject(c, b) ==
  /\ Clicks(c) /\ Decidable(b)
  /\ page' = [page EXCEPT !.view = AfterRejection(@, b)]
  /\ IF page.view[b].names /\ Live(b) /\ ~Approved(b)
     THEN Ask(c, "reject", "serving", TRUE) /\ ReadForRejection(c, b)
     ELSE Ask(c, "reject", "failed", TRUE) /\ UNCHANGED vars

\* unapproveMatches does nothing, without an error, when none is approved.
ClickUndo(c, ids) ==
  /\ Clicks(c)
  /\ ids \in page.actions
  /\ \A d \in Calls : ids \cap request[d].undone = {}
  /\ LET found == {b \in ids : Live(b) /\ Approved(b)}
         Undoing(stage) ==
           request' = [request EXCEPT ![c] = [NoRequest EXCEPT !.kind = "undo", !.stage = stage,
                                                               !.page = TRUE, !.undone = ids]]
     IN IF found = {} THEN Undoing("ok") /\ UNCHANGED vars
        ELSE Undoing("serving") /\ ReadForUnapproval(c, PageStatement, found)
  /\ UNCHANGED page

\* getReconciliationReport: nothing before the first approval.
Reported == report[PageStatement]

ReportAsked(c) ==
  request' = [request EXCEPT ![c] = [NoRequest EXCEPT
                !.kind = "report", !.stage = "ok", !.page = TRUE,
                !.of = PageStatement, !.report = Reported]]

\* Only offered when every line is settled on the page.
ClickReport(c) ==
  /\ Clicks(c)
  /\ OpenLines = {}
  /\ \A d \in Calls : request[d].kind # "report"
  /\ ReportAsked(c)
  /\ UNCHANGED <<vars, page>>

\* Other pages, of the same statement or another.
OthersAsk(c) ==
  /\ Free(c) /\ others < MaxOthers /\ others' = others + 1
  /\ \/ (\E st \in Statements : ReadStatement(c, st)) /\ Ask(c, "load", "serving", FALSE)
     \/ /\ \E st \in Statements, ids \in SUBSET Banks : ReadForApproval(c, st, ids)
        /\ Ask(c, "approve", "serving", FALSE)
     \/ /\ \E st \in Statements, ids \in SUBSET Banks : ReadForUnapproval(c, st, ids)
        /\ Ask(c, "undo", "serving", FALSE)
     \/ (\E b \in Banks : ReadForRejection(c, b)) /\ Ask(c, "reject", "serving", FALSE)
  /\ UNCHANGED <<report, page, settled, clicks>>

OthersMatch(b, q) ==
  /\ others < MaxOthers /\ others' = others + 1
  /\ CreateManual(b, q)
  /\ UNCHANGED <<report, request, page, settled, clicks>>

----------------------------------------------------------------------------
(***************************************************************************)
(* Routes.                                                                 *)
(***************************************************************************)
Serves == UNCHANGED <<report, page, settled, clicks, others>>

\* transactions: the matcher, then the matches as they are by then.
ServeProposal(c) ==
  /\ Propose(c) /\ UNCHANGED request /\ Serves

ServePersist(c) ==
  /\ Persist(c) /\ UNCHANGED request /\ Serves

ReadResult(c) ==
  /\ Is(c, "load", "serving") /\ At(c, "idle")
  /\ IF request[c].page
     THEN request' = [request EXCEPT ![c].stage = "ok", ![c].view = View]
     ELSE Done(c)
  /\ UNCHANGED vars /\ Serves

\* approve: the procedure, then generateReport, which reads and then stores.
ServeApproval(c) ==
  /\ Approve(c) /\ Becomes(c, "approved")
  /\ settled' = settled \cup {st \in Statements : AllApproved(st)'}
  /\ UNCHANGED <<report, page, clicks, others>>

ReadForReport(c, st) ==
  /\ Is(c, "approve", "approved")
  /\ request[c].page => st = PageStatement
  /\ request' = [request EXCEPT ![c].stage = "reported", ![c].of = st,
                                    ![c].report = ReportOf(st)]
  /\ UNCHANGED vars /\ Serves

StoreReport(c) ==
  /\ Is(c, "approve", "reported")
  /\ report' = [report EXCEPT ![request[c].of] = request[c].report]
  /\ Finish(c, "ok")
  /\ UNCHANGED vars /\ UNCHANGED <<page, settled, clicks, others>>

ServeUndo(c) ==
  /\ Unapprove(c) /\ Finish(c, "ok") /\ Serves

\* The id of a deleted match names nothing any more, wherever it is kept.
Unnamed(view, b) == IF b \in PageLines THEN [view EXCEPT ![b].names = FALSE] ELSE view

ServeRejection(c, b) ==
  /\ Delete(c, b)
  /\ page' = [page EXCEPT !.view = Unnamed(@, b), !.actions = {ids \ {b} : ids \in @}]
  /\ request' = [d \in Calls |->
       IF d = c THEN (IF request[c].page THEN [request[c] EXCEPT !.stage = "ok"] ELSE NoRequest)
       ELSE [request[d] EXCEPT !.view = Unnamed(@, b), !.undone = @ \ {b}]]
  /\ UNCHANGED <<report, settled, clicks, others>>

ServeRefusal(c, b) ==
  /\ DeleteRefused(c, b) /\ Finish(c, "failed") /\ Serves

\* Another page rejected the match first.
ServeNothing(c) ==
  /\ DeleteNothing(c) /\ Finish(c, "ok") /\ Serves

\* The approval is committed, its report cannot be computed or stored.
ReportFails(c) ==
  /\ Is(c, "approve", "approved") \/ Is(c, "approve", "reported")
  /\ Finish(c, "failed")
  /\ UNCHANGED vars /\ Serves

\* The database refuses, or the route ends before its procedure is called.
ServeFailure(c) ==
  /\ CallStops(c) /\ Finish(c, "failed") /\ Serves

----------------------------------------------------------------------------
(***************************************************************************)
(* Answers, which may also be lost on their way.                           *)
(***************************************************************************)
Answered(c, kind) ==
  /\ request[c].page /\ request[c].kind = kind
  /\ UNCHANGED <<report, settled, clicks, others>>

LoadAnswered(c) ==
  /\ Answered(c, "load") /\ request[c].stage = "ok"
  /\ page' = [page EXCEPT !.open = TRUE, !.view = request[c].view]
  /\ Done(c) /\ UNCHANGED vars

\* Nothing but the error is shown: the page is opened again.
LoadFails(c) ==
  /\ Answered(c, "load") /\ request[c].stage \in {"ok", "failed"}
  /\ page' = NoPage
  /\ request' = [d \in Calls |-> IF request[d].page /\ At(d, "idle") THEN NoRequest
                                 ELSE [request[d] EXCEPT !.page = FALSE]]
  /\ UNCHANGED vars

DecisionAnswered(c) ==
  /\ \E kind \in {"approve", "reject"} : Answered(c, kind)
  /\ request[c].stage = "ok"
  /\ Done(c) /\ UNCHANGED <<vars, page>>

\* Resync from the server rather than restoring what was shown before.
DecisionFails(c) ==
  /\ \E kind \in {"approve", "reject"} : Answered(c, kind)
  /\ request[c].stage \in {"ok", "failed"}
  /\ Loads(c) /\ UNCHANGED page

UndoAnswered(c) ==
  /\ Answered(c, "undo") /\ request[c].stage = "ok"
  /\ page' = [page EXCEPT !.actions = @ \ {request[c].undone}]
  /\ Loads(c)

UndoFails(c) ==
  /\ Answered(c, "undo") /\ request[c].stage \in {"ok", "failed"}
  /\ Done(c) /\ UNCHANGED <<vars, page>>

ReportAnswered(c) ==
  /\ Answered(c, "report")
  /\ page' = IF request[c].report = "none" THEN page
             ELSE [page EXCEPT !.shown = request[c].report]
  /\ Done(c) /\ UNCHANGED vars

----------------------------------------------------------------------------
PageAsks(c) ==
  \/ OpenPage(c)
  \/ \E ids \in SUBSET PageLines : ClickApprove(c, ids) \/ ClickUndo(c, ids)
  \/ \E b \in PageLines : ClickReject(c, b)
  \/ ClickReport(c)

RouteServes(c) ==
  \/ ServeProposal(c) \/ ServePersist(c) \/ ReadResult(c)
  \/ ServeApproval(c) \/ ServeUndo(c) \/ ServeFailure(c)
  \/ ServeNothing(c) \/ ReportFails(c) \/ StoreReport(c) \/ \E st \in Statements : ReadForReport(c, st)
  \/ \E b \in Banks : ServeRejection(c, b) \/ ServeRefusal(c, b)

PageHears(c) ==
  \/ LoadAnswered(c) \/ LoadFails(c)
  \/ DecisionAnswered(c) \/ DecisionFails(c)
  \/ UndoAnswered(c) \/ UndoFails(c)
  \/ ReportAnswered(c)

ScreenNext ==
  \/ \E c \in Calls : PageAsks(c) \/ OthersAsk(c) \/ RouteServes(c) \/ PageHears(c)
  \/ \E b \in Banks, q \in Qbs : OthersMatch(b, q)

ScreenSpec == ScreenInit /\ [][ScreenNext]_<<vars, screenVars>>

----------------------------------------------------------------------------
(***************************************************************************)
(* Properties.                                                             *)
(***************************************************************************)
\* A statement is only reported as reconciled, in the table or on the page, if
\* at one moment each of its lines and each accounting transaction of its period
\* was approved, although approvals, undoings and reports of several pages
\* overlap.
ReconciledWasApproved ==
  /\ \A st \in Statements : report[st] = "reconciled" => st \in settled
  /\ page.shown = "reconciled" => PageStatement \in settled
=============================================================================
