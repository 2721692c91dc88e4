---------------------------- MODULE ApprovalGate ----------------------------
(***************************************************************************)
(* The rules the screens and the routes judge a document by: the           *)
(* confidence gate (lib/validation.ts), the supported currencies           *)
(* (lib/currency.ts), the duplicate check of lib/store.ts, and what the    *)
(* review board makes of a queued document (app/api/pending/route.ts,      *)
(* lib/extraction-insights.ts): its own confidences, its own arithmetic    *)
(* and its sections. The routes' own checks are in ApprovalRoutes; only    *)
(* the gate itself and the list of currencies are code that both call.     *)
(*                                                                         *)
(* Confidences are percentages, money is in minor units, and every other   *)
(* value is abstract; Blank is the empty value of any field, Untouched the *)
(* absence of an edit.                                                     *)
(***************************************************************************)
EXTENDS Integers

CONSTANTS
  Blank,       \* an empty value; of a money field, one that is no number
  Untouched,   \* the human set no value
  Supported    \* the currencies a bill can be posted in

-----------------------------------------------------------------------------
(* The confidence gate *)

Types == {"invoice", "receipt"}

ReviewableFields ==
  {"supplierName", "invoiceNumber", "invoiceDate", "currency", "subtotal", "tax", "total"}

CriticalFields(type) ==
  {"supplierName", "invoiceDate", "total"}
    \cup (IF type = "invoice" THEN {"invoiceNumber"} ELSE {})

CriticalThreshold == 80
ImportantThreshold == 60

\* A document that states no tax has no reading of it to doubt.
ImportantFields(taxItemized) == {"currency"} \cup (IF taxItemized THEN {"tax"} ELSE {})

\* A correction to something new, or an explicit confirmation of the value as
\* it is, verifies a field; a value cleared by the human does not.
EffectiveConfidence(raw, original, edited, affirmed) ==
  IF \/ edited \notin {Untouched, original, Blank}
     \/ affirmed /\ edited \in {Untouched, original}
  THEN 100 ELSE raw

\* gateApproval: the type first, then the critical, then the important fields.
GateApproval(confidence, type, taxItemized, typeConfidence, typeConfirmed) ==
  IF \/ typeConfidence < CriticalThreshold /\ ~typeConfirmed
     \/ \E f \in CriticalFields(type) : confidence[f] < CriticalThreshold
  THEN "blocked"
  ELSE IF \E f \in ImportantFields(taxItemized) : confidence[f] < ImportantThreshold
       THEN "review"
       ELSE "ready"

-----------------------------------------------------------------------------
(* Extractions *)

\* An extraction: its type, whether it states tax, how sure the model was of it
\* as a whole, and per field the value that was read and how sure it was of that.
ValuesOf(x) == [f \in ReviewableFields |-> x.fields[f].value]

\* The values approved: the human's where there is one, else the ones read.
FinalValues(x, edited) ==
  [f \in ReviewableFields |->
     IF edited[f] # Untouched THEN edited[f] ELSE x.fields[f].value]

-----------------------------------------------------------------------------
(* Duplicates *)

\* findDuplicateDocument: a receipt by merchant, date and total, among the
\* receipts; an invoice by supplier and number, among all that was approved.
\* What is blank matches nothing.
SameDocument(type, v, invoice) ==
  IF type = "receipt"
  THEN /\ invoice.type = "receipt"
       /\ \A f \in {"supplierName", "invoiceDate", "total"} :
            v[f] # Blank /\ invoice.values[f] = v[f]
  ELSE \A f \in {"supplierName", "invoiceNumber"} :
         v[f] # Blank /\ invoice.values[f] = v[f]

-----------------------------------------------------------------------------
(* The review board *)

\* GET /api/pending: what the list is sent of a queued document.
QueueItem(x) ==
  [type |-> x.type, typeConfidence |-> x.typeConfidence, taxItemized |-> x.taxItemized,
   overall |-> x.overall, values |-> ValuesOf(x),
   perField |-> [f \in ReviewableFields |-> x.fields[f].confidence]]

\* detectQueueDuplicates: two queued documents that look like one upload.
LooksLike(a, b) ==
  LET v == a.values
      w == b.values
      numbered == a.type = "invoice" /\ Blank \notin {v["invoiceNumber"], w["invoiceNumber"]}
      key == IF numbered THEN "invoiceNumber" ELSE "invoiceDate"
  IN  /\ v["supplierName"] # Blank
      /\ \A f \in {"supplierName", "total", key} : v[f] = w[f]

\* Bug: the average stands in for every field, as before the list shipped them.
Bug_JudgesByOverall(item) == [f \in ReviewableFields |-> item.overall]

\* The confidence the list ships for a field, or else the overall one.
BoardConfidences(item) ==
  [f \in ReviewableFields |->
     IF f \in DOMAIN item.perField THEN item.perField[f] ELSE item.overall]

BoardGate(item) ==
  GateApproval(BoardConfidences(item), item.type, item.taxItemized, item.typeConfidence, FALSE)

\* checkTotals: within a penny; a number that is missing leaves nothing to check.
CheckTotals(subtotal, tax, total) ==
  IF Blank \in {subtotal, tax, total} THEN "unchecked"
  ELSE IF subtotal + tax - total \in -1..1 THEN "ok" ELSE "off"

TotalsReconcile(item) ==
  item.taxItemized =>
    CheckTotals(item.values["subtotal"], item.values["tax"], item.values["total"]) # "off"

SectionForGate(gate, duplicate) ==
  CASE duplicate -> "duplicate"
    [] ~duplicate /\ gate \in {"ready", "review"} -> gate
    [] OTHER -> "issue"

\* buildQueueRow: where the board lists a document. What cannot be posted is
\* never among the ready ones, however surely it was read.
Section(item, duplicate) ==
  LET section == SectionForGate(BoardGate(item), duplicate)
      postable == item.values["currency"] \in Supported
  IN  IF section = "ready" /\ ~(postable /\ TotalsReconcile(item)) THEN "issue" ELSE section
=============================================================================
