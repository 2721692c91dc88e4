----------------------------- MODULE ReviewPage -----------------------------
(***************************************************************************)
(* The review page (app/(app)/review/page.tsx on components/review/        *)
(* ReviewBoard.tsx) and the batch page (app/(app)/batch/page.tsx) over the *)
(* approval queue. The review page approves by the single route, one       *)
(* document after the other, from extractions it holds on the client; an   *)
(* edit there is an approval with one edited field. The batch page         *)
(* approves by the bulk route.                                             *)
(*                                                                         *)
(* No button of the review page waits for an approval under way, so        *)
(* several may run at once, each with the extractions of the render it was *)
(* clicked in. Selections, sections and keys only decide which rows an     *)
(* approval is asked for: any set of the open ones. A stored extraction    *)
(* never changes, so whether the page holds it or fetches it for a request *)
(* is not told apart: detail[d] is None for both, and what an edit made of *)
(* it otherwise.                                                           *)
(***************************************************************************)
EXTENDS ApprovalRoutes

CONSTANTS
  Calls,     \* approvals of the pages under way
  Fixes,     \* what the reviewer may type, for each field that is touched
  MaxCalls   \* bound on the approvals, edits and rejections

ASSUME PageBound == MaxCalls \in Nat

VARIABLES
  items,     \* the documents the review page loaded
  approved,  \* approvedIds
  detail,    \* the extractions it holds that are not the stored ones
  call,      \* the approvals under way
  calls      \* approvals, edits and rejections so far

pageVars == <<items, approved, detail, call, calls>>

PageInit ==
  /\ items = {}
  /\ approved = {}
  /\ detail = [d \in Docs |-> None]
  /\ call = [c \in Calls |-> None]
  /\ calls = 0

-----------------------------------------------------------------------------
(* What the board shows *)

OpenItems == items \ approved

Item(d) == QueueItem(readings[d])

Duplicates == {d \in OpenItems : \E e \in OpenItems \ {d} : LooksLike(Item(d), Item(e))}

\* The documents listed as ready to approve, unless the reviewer flagged
\* them.
ReadyItems == {d \in OpenItems : Section(Item(d), d \in Duplicates) = "ready"}

\* The rows an approval can be asked for: one, by its button, the key or its
\* panel; those of a section that can be posted, but for the ones the
\* reviewer sets aside; or those ticked. A tick outlives its row, which asks
\* for nothing that an approval begun before the row left would not.
AskedRow == {{d} : d \in OpenItems}

Postable(d) == Item(d).values["currency"] \in Supported

AskedSection == {ReadyItems} \cup SUBSET {d \in OpenItems : Postable(d)}

AskedTicks == SUBSET OpenItems

Asked == (AskedRow \cup AskedSection \cup AskedTicks) \ {{}}

-----------------------------------------------------------------------------
(* Loading *)

Loads ==
  /\ items # Pending
  /\ items' = Pending
  /\ UNCHANGED <<routeVars, approved, detail, call, calls>>

\* A panel that opens fetches the extraction again, over the one held.
OpensPanel(d) ==
  /\ d \in OpenItems
  /\ Found(d)
  /\ detail[d] # None
  /\ detail' = [detail EXCEPT ![d] = None]
  /\ UNCHANGED <<routeVars, items, approved, call, calls>>

-----------------------------------------------------------------------------
(* Approvals *)

Begins(c, work) ==
  /\ call[c] = None
  /\ calls < MaxCalls
  /\ calls' = calls + 1
  /\ call' = [call EXCEPT ![c] = work]

\* The loop keeps the extractions of the render it was started from.
Approves(c, S) ==
  /\ Begins(c, [kind |-> "approve", todo |-> S, held |-> detail, edited |-> NoEdits])
  /\ UNCHANGED <<routeVars, items, approved, detail>>

\* An input that loses focus with another value, or the confirmation of the
\* value as it is; both are open once the panel has its extraction.
Edits(c, d, f, v) ==
  /\ detail[d] # None \/ Found(d)
  /\ Begins(c, [kind |-> "edit", todo |-> {d}, held |-> detail,
                edited |-> [NoEdits EXCEPT ![f] = v]])
  /\ UNCHANGED <<routeVars, items, approved, detail>>

ApprovesBatch(c, S) ==
  /\ Begins(c, [kind |-> "batch", todo |-> S, held |-> detail, edited |-> NoEdits])
  /\ UNCHANGED <<routeVars, items, approved, detail>>

\* What the request for a document carries, of the extractions held.
RequestFor(d, held, edited) ==
  [doc |-> d, extraction |-> IF held[d] = None THEN readings[d] ELSE held[d],
   edited |-> edited, type |-> readings[d].type, proceed |-> FALSE]

\* Those of the click.
Sent(c, d) == RequestFor(d, call[c].held, call[c].edited)

\* The extraction with the edited field as if it had been read for certain.
Doctored(c, d) ==
  LET f == CHOOSE g \in ReviewableFields : call[c].edited[g] # Untouched
  IN  [Sent(c, d).extraction EXCEPT !.fields[f] = [value |-> call[c].edited[f], confidence |-> 100]]

\* Bug: an answer that is not an error is an approval.
Bug_TakesAnyAnswer(answer) == answer # "error"

TakenAsApproved(answer) == answer = "approved"

\* The next document of an approval is sent and answered, though the answer
\* may reach the page as a failure. One that is no longer found is passed
\* over, as after an error.
ServesNext(c, d) ==
  /\ call[c] # None
  /\ call[c].kind = "approve"
  /\ d \in call[c].todo
  /\ \E answer \in {"approved", "duplicate", "blocked", "error"} :
       /\ ServeApprove(Sent(c, d), "page", answer)
       /\ \E seen \in {answer, "error"} :
            approved' = IF TakenAsApproved(seen) THEN approved \cup {d} ELSE approved
  /\ call' = [call EXCEPT ![c].todo = @ \ {d}]
  /\ UNCHANGED <<items, detail, calls>>

\* An edit is sent and answered. Approved, the queue is loaded again; blocked,
\* it is kept in the extraction held, so that its field shows as certain.
ServesEdit(c, d) ==
  /\ call[c] # None
  /\ call[c].kind = "edit"
  /\ d \in call[c].todo
  /\ \E answer \in {"approved", "duplicate", "blocked", "error"} :
       /\ ServeApprove(Sent(c, d), "page", answer)
       /\ approved' = IF TakenAsApproved(answer) THEN approved \cup {d} ELSE approved
       /\ items' = IF TakenAsApproved(answer) THEN Pending' ELSE items
       /\ detail' = IF answer = "blocked" THEN [detail EXCEPT ![d] = Doctored(c, d)] ELSE detail
  /\ call' = [call EXCEPT ![c] = None]
  /\ UNCHANGED calls

ServesBatch(c, d) ==
  /\ call[c] # None
  /\ call[c].kind = "batch"
  /\ d \in call[c].todo
  /\ \E answer \in {"approved", "blocked", "error"} : ServeBulk(d, answer)
  /\ call' = [call EXCEPT ![c].todo = @ \ {d}]
  /\ UNCHANGED <<items, approved, detail, calls>>

\* Every document was tried: the queue is loaded again.
Finishes(c) ==
  /\ call[c] # None
  /\ call[c].todo = {}
  /\ call' = [call EXCEPT ![c] = None]
  /\ items' = Pending
  /\ UNCHANGED <<routeVars, approved, detail, calls>>

\* A request that fails on the network, before or after it was served, ends
\* the approval where it is.
Throws(c) ==
  /\ call[c] # None
  /\ call' = [call EXCEPT ![c] = None]
  /\ UNCHANGED <<routeVars, items, approved, detail, calls>>

\* Deleted or refused, the row is no longer taken for approved.
Rejects(d) ==
  /\ d \in OpenItems
  /\ calls < MaxCalls
  /\ calls' = calls + 1
  /\ \E answer \in {"deleted", "refused"} : ServeDelete(d, answer)
  /\ approved' = approved \ {d}
  /\ items' = Pending'
  /\ UNCHANGED <<detail, call>>

PageNext ==
  \/ Loads
  \/ \E d \in Docs : OpensPanel(d) \/ Rejects(d)
  \/ \E c \in Calls :
       \/ \E S \in Asked : Approves(c, S)
       \/ \E S \in SUBSET items \ {{}} : ApprovesBatch(c, S)
       \/ \E d \in OpenItems, f \in DOMAIN Fixes : \E v \in Fixes[f] : Edits(c, d, f, v)
       \/ \E d \in Docs : ServesNext(c, d) \/ ServesEdit(c, d) \/ ServesBatch(c, d)
       \/ Finishes(c) \/ Throws(c)
=============================================================================
