--------------------------- MODULE ReviewScreens ----------------------------
(***************************************************************************)
(* One person, or several of one firm, approving documents on the results  *)
(* screen of an upload, on the review page and on the batch page at once:  *)
(* the screens share nothing but the queue and the ledger behind the       *)
(* approval routes.                                                        *)
(***************************************************************************)
EXTENDS ResultsScreen, ReviewPage

vars == <<routeVars, screenVars, pageVars>>

Init == RoutesInit /\ ScreenInit /\ PageInit

Next ==
  \/ ResultsNext /\ UNCHANGED pageVars
  \/ PageNext /\ UNCHANGED screenVars

Spec == Init /\ [][Next]_vars

-----------------------------------------------------------------------------
(* Properties *)

\* Nobody's guess enters the ledger from the results screen: what its
\* invoices say of a critical field was read with confidence or verified by
\* a person, and a doubtful type was settled, through whichever of the two
\* routes the row took and however often it was tried before.
\* (batch-results.ts: a bill posted from a value nobody verified.)
ResultsAreVerified ==
  \A i \in DOMAIN ledger :
    LET invoice == ledger[i]
        x == readings[invoice.doc]
    IN  invoice.by \in {"results", "bulk"} =>
          /\ x.typeConfidence < CriticalThreshold =>
               invoice.by = "results" /\ rows[invoice.doc].settled
          /\ \A f \in CriticalFields(invoice.type) :
               \/ x.fields[f].confidence >= CriticalThreshold
               \/ invoice.by = "results" /\
                    IF invoice.values[f] = x.fields[f].value
                    THEN f \in rows[invoice.doc].affirmed
                    ELSE invoice.values[f] # Blank

\* A screen says that a document was approved only when it is in the ledger,
\* whatever other answers came back with it. (The routes answer 200 also for
\* what they block.)
ReportedIsDone ==
  /\ \A d \in Docs : rows[d].outcome = "approved" => InLedger(d)
  /\ \A d \in approved : InLedger(d)

\* What the review page lists as ready still posts, by either route, whatever
\* failed, was answered late or was tried before: by the batch of the page
\* unless an approved document has its identity, and by its own button unless
\* that, or an earlier edit of it was turned down or confirmed and then not
\* saved. The board, the batch route and the single route come to this by
\* code of their own, from the trimmed list, the stored extraction and the
\* request. (app/api/pending/route.ts: "Ready to Approve" must reflect what
\* will actually post.)
ReadyIsApprovable ==
  \A d \in ReadyItems :
    queue[d] = "pending" =>
      /\ \/ BulkVerdict(d) = "approved"
         \/ IsDuplicate(readings[d].type, BulkValues(d))
      /\ \/ ApproveVerdict(RequestFor(d, detail, NoEdits)) = "approved"
         \/ IsDuplicate(readings[d].type, ValuesOf(readings[d]))
         \/ detail[d] # None
         \/ confirmed[d]["approval"] \notin {None, ValuesOf(readings[d])}
=============================================================================
