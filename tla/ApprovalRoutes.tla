--------------------------- MODULE ApprovalRoutes ---------------------------
(***************************************************************************)
(* The approval routes as the screens see them: POST /api/approve, POST    *)
(* /api/approve/bulk, GET and DELETE /api/pending, over the queue and the  *)
(* ledger of approved invoices, with a configured database. One request    *)
(* for one document is one step here; DocumentApproval takes the routes    *)
(* apart into their database calls.                                        *)
(***************************************************************************)
EXTENDS ApprovalGate, Sequences, FiniteSets

CONSTANTS
  Docs,       \* documents that are uploaded
  Samples,    \* how the documents may be read
  None        \* nothing known, nothing sent, nothing answered

\* The schema every extraction is parsed by (lib/schema.ts): confidences are
\* percentages, and what was read of an amount is a number. That nothing was
\* answered is none of the answers.
ASSUME RoutesAssumption ==
  /\ Blank \notin Int
  /\ \A x \in Samples, d \in Docs :
       /\ x[d].type \in Types /\ x[d].typeConfidence \in Int
       /\ \A f \in ReviewableFields : x[d].fields[f].confidence \in Int
       /\ \A f \in {"subtotal", "tax", "total"} : x[d].fields[f].value \in Int
  /\ None \notin {"approved", "blocked", "error"}

VARIABLES
  readings,   \* how the model reads each document
  queue,      \* pending_documents: the status of each document's row
  confirmed,  \* canonical confirmations: values, by document and key
  ledger      \* the approved invoices, in order

routeVars == <<readings, queue, confirmed, ledger>>

Routes == {"approval", "bulk-approval"}

RoutesInit ==
  /\ readings \in Samples
  /\ queue = [d \in Docs |-> "absent"]
  /\ confirmed = [d \in Docs |-> [key \in Routes |-> None]]
  /\ ledger = <<>>

\* The statuses the client routes tell apart; "unlinked" is a pending row
\* whose source could not be retained.
Statuses == {"absent", "pending", "unlinked", "resolved", "deleted"}

Pending == {d \in Docs : queue[d] \in {"pending", "unlinked"}}

InLedger(d) == \E i \in DOMAIN ledger : ledger[i].doc = d

IsDuplicate(type, values) ==
  \E i \in DOMAIN ledger : SameDocument(type, values, ledger[i])

\* What confirm_document_evidence_v1 makes of these values under this key.
Confirms(d, key, values) ==
  /\ queue[d] = "pending"
  /\ confirmed[d][key] \in {None, values}

-----------------------------------------------------------------------------
(* POST /api/approve *)

\* A request: the extraction and the edits as the client sends them, and in
\* proceed whether the client goes past a duplicate.
\* Any value the client names for a field counts as the human's word on it,
\* and every client names the type, which counts as a confirmation of it.
ServerGate(r) ==
  GateApproval(
    [f \in ReviewableFields |->
       EffectiveConfidence(r.extraction.fields[f].confidence, r.extraction.fields[f].value,
                           r.edited[f], r.edited[f] # Untouched)],
    r.type, r.extraction.taxItemized, r.extraction.typeConfidence, TRUE)

\* The checks of the route in their order.
ApproveVerdict(r) ==
  LET values == FinalValues(r.extraction, r.edited)
  IN  IF queue[r.doc] = "resolved" THEN "error"
      ELSE IF ~r.proceed /\ IsDuplicate(r.type, values) THEN "duplicate"
      ELSE IF values["currency"] \notin Supported \/ ServerGate(r) # "ready" THEN "blocked"
      ELSE IF ~Confirms(r.doc, "approval", values) THEN "error"
      ELSE "approved"

InvoiceOf(r, by) ==
  [doc |-> r.doc, type |-> r.type, values |-> FinalValues(r.extraction, r.edited),
   by |-> by]

\* The confirmation, the invoice and the outcome of the row, which is
\* resolved unless that last write fails.
SavesInvoice(r, key, by, resolves) ==
  /\ ledger' = Append(ledger, InvoiceOf(r, by))
  /\ confirmed' = [confirmed EXCEPT ![r.doc][key] = FinalValues(r.extraction, r.edited)]
  /\ queue' = [queue EXCEPT ![r.doc] = IF resolves THEN "resolved" ELSE @]
  /\ UNCHANGED readings

\* The confirmation is kept when the write of the invoice fails.
OnlyConfirms(r, key) ==
  /\ confirmed' = [confirmed EXCEPT ![r.doc][key] = FinalValues(r.extraction, r.edited)]
  /\ UNCHANGED <<readings, queue, ledger>>

\* One request and the answer it leads to. A write may fail before the
\* confirmation, before the invoice or, of what is to be learnt, after it: all
\* are the same 500. When the row cannot be resolved the approval stands.
ServeApprove(r, by, answer) ==
  LET verdict == ApproveVerdict(r)
  IN  \/ /\ verdict = "approved"
         /\ answer = "approved"
         /\ \E resolves \in BOOLEAN : SavesInvoice(r, "approval", by, resolves)
      \/ /\ verdict = "approved"
         /\ answer = "error"
         /\ SavesInvoice(r, "approval", by, FALSE) \/ OnlyConfirms(r, "approval")
      \/ /\ answer = IF verdict = "approved" THEN "error" ELSE verdict
         /\ UNCHANGED routeVars

-----------------------------------------------------------------------------
(* POST /api/approve/bulk *)

NoEdits == [f \in ReviewableFields |-> Untouched]

\* The stored extraction, approved as it was read; a batch writes a supplier
\* that was not read as unknown.
StoredRequest(d) ==
  [doc |-> d, extraction |-> readings[d],
   edited |-> [NoEdits EXCEPT !["supplierName"] =
     IF readings[d].fields["supplierName"].value = Blank THEN "(unknown)" ELSE Untouched],
   type |-> readings[d].type, proceed |-> FALSE]

BulkValues(d) == FinalValues(readings[d], StoredRequest(d).edited)

\* confidencesOf: no edits exist in a batch, so these are the raw reads.
ConfidencesOf(x) == [f \in ReviewableFields |-> x.fields[f].confidence]

BulkGate(x) ==
  GateApproval(ConfidencesOf(x), x.type, x.taxItemized, x.typeConfidence, FALSE)

\* arithmeticMismatch of lib/schema.ts: off by more than a penny.
ArithmeticMismatch(x) ==
  LET gap == x.fields["subtotal"].value + x.fields["tax"].value - x.fields["total"].value
  IN  x.taxItemized /\ (gap > 1 \/ gap < -1)

\* The checks of approveOne in their order.
BulkVerdict(d) ==
  LET x == readings[d]
  IN  IF queue[d] \notin {"pending", "unlinked"} THEN "error"
      ELSE IF x.fields["currency"].value \notin Supported THEN "error"
      ELSE IF BulkGate(x) # "ready" \/ ArithmeticMismatch(x) THEN "blocked"
      ELSE IF IsDuplicate(x.type, BulkValues(d)) THEN "blocked"
      ELSE IF ~Confirms(d, "bulk-approval", BulkValues(d)) THEN "error"
      ELSE "approved"

\* One document of a batch. When its row cannot be resolved the outcome is an
\* error, although the invoice is saved; the second try may resolve it.
ServeBulk(d, answer) ==
  LET verdict == BulkVerdict(d)
  IN  \/ /\ verdict = "approved"
         /\ answer = "approved"
         /\ SavesInvoice(StoredRequest(d), "bulk-approval", "bulk", TRUE)
      \/ /\ verdict = "approved"
         /\ answer = "error"
         /\ \/ \E resolves \in BOOLEAN :
                 SavesInvoice(StoredRequest(d), "bulk-approval", "bulk", resolves)
            \/ OnlyConfirms(StoredRequest(d), "bulk-approval")
      \/ /\ answer = IF verdict = "approved" THEN "error" ELSE verdict
         /\ UNCHANGED routeVars

-----------------------------------------------------------------------------
(* /api/pending *)

\* Only a row that is still pending is deleted.
ServeDelete(d, answer) ==
  IF d \in Pending
  THEN answer = "deleted" /\ queue' = [queue EXCEPT ![d] = "deleted"] /\ UNCHANGED <<readings, confirmed, ledger>>
  ELSE answer = "refused" /\ UNCHANGED routeVars

\* A row is found whatever its status, until it is deleted.
Found(d) == queue[d] \notin {"absent", "deleted"}
=============================================================================
