-------------------------- MODULE DocumentApproval --------------------------
(***************************************************************************)
(* From an uploaded document to an approved invoice: the approval queue    *)
(* (lib/store.ts), the single and the bulk approval (app/api/approve,      *)
(* lib/bulk-approve.ts) and the canonical evidence they leave behind       *)
(* (migrations 021 and 022), with a configured database.                   *)
(*                                                                         *)
(* An approval is a sequence of database calls, each of its own            *)
(* transaction: it reads the queue row, looks for duplicates, confirms the *)
(* facts as canonical evidence, saves the invoice and resolves the row.    *)
(* Any number of approvals run at once, and each may stop after any call.  *)
(* Only the confirmation holds locks: BeginConfirm takes them and reads,   *)
(* CommitConfirm writes and releases them.                                 *)
(*                                                                         *)
(* Facts stand for the reviewable values of a document, as read or as      *)
(* edited. Confidences and arithmetic are abstracted to whether the gate   *)
(* lets an approval pass. The learning rows and the posting proposal that  *)
(* follow a saved invoice change nothing here; that they may fail does.    *)
(***************************************************************************)
EXTENDS Naturals, Sequences, FiniteSets

CONSTANTS
  Pendings,     \* rows of pending_documents
  Contents,     \* uploaded bytes: one import artifact each
  Facts,        \* reviewable values of a document
  Identity,     \* [Facts -> ...]: what the duplicate check compares
  NoIdentity,   \* values too blank to be matched
  Clerks,       \* approval calls in flight
  NoRow, NoFacts, NoLink,
  MaxInvoices,  \* bound on the invoices saved
  MaxCalls      \* bound on the approvals started

ASSUME IdentityAssumption == DOMAIN Identity = Facts
ASSUME BoundAssumption == MaxInvoices \in Nat /\ MaxCalls \in Nat

VARIABLES
  queue,          \* the rows of the approval queue
  documents,      \* canonical documents, by id, with their revisions
  confirmations,  \* document_evidence_confirmations
  invoices,       \* the approved invoices, by id
  call,           \* what each approval has read and where it stands
  calls           \* approvals started so far

vars == <<queue, documents, confirmations, invoices, call, calls>>

-----------------------------------------------------------------------------
(* Types *)

Kinds == {"single", "bulk"}
Statuses == {"absent", "pending", "resolved", "deleted"}
Steps == {"idle", "read", "refusing", "checked", "confirming", "confirmed", "saved"}
InvoiceIds == 1..MaxInvoices

Links == [document : Nat, revision : Nat]

Row ==
  [status : Statuses, content : Contents \cup {NoRow}, read : Facts \cup {NoFacts},
   linked : BOOLEAN, confirmed : Links \cup {NoLink}, invoice : InvoiceIds \cup {0}]

Absent ==
  [status |-> "absent", content |-> NoRow, read |-> NoFacts,
   linked |-> FALSE, confirmed |-> NoLink, invoice |-> 0]

Extractions == [content : Contents, read : Facts]
ConfirmationKeys == [pending : Pendings, kind : Kinds]

Confirmation ==
  [extraction : Extractions, key : ConfirmationKeys, facts : Facts, link : Links]

\* "since" records how many documents there were when the confirmation that
\* created this one looked for it.
Document == [content : Contents, since : Nat, revisions : Seq(Facts)]

\* "since" and "waived" record what the duplicate check of the approval saw.
Invoice ==
  [pending : Pendings, facts : Facts, since : Nat, waived : BOOLEAN]

Call ==
  [step : Steps, kind : Kinds, pending : Pendings, facts : Facts,
   evidence : BOOLEAN, waived : BOOLEAN, since : Nat, document : Nat, seen : Nat]

Idle == [step |-> "idle"]

TypeOK ==
  /\ queue \in [Pendings -> Row]
  /\ documents \in Seq(Document)
  /\ \A x \in confirmations : x \in Confirmation
  /\ invoices \in Seq(Invoice)
  /\ call \in [Clerks -> Call \cup {Idle}]
  /\ calls \in 0..MaxCalls

Init ==
  /\ queue = [p \in Pendings |-> Absent]
  /\ documents = <<>>
  /\ confirmations = {}
  /\ invoices = <<>>
  /\ call = [k \in Clerks |-> Idle]
  /\ calls = 0

-----------------------------------------------------------------------------
(* Helpers *)

At(k, step) == call[k].step = step
Goto(k, step) == call' = [call EXCEPT ![k].step = step]
Ends(k) == call' = [call EXCEPT ![k] = Idle]

ExtractionOf(p) == [content |-> queue[p].content, read |-> queue[p].read]

\* The row is locked by a confirmation that has not committed.
RowLocked(p) == \E k \in Clerks : At(k, "confirming") /\ call[k].pending = p

DocumentLocked(i) == \E k \in Clerks : At(k, "confirming") /\ call[k].document = i

\* Bug: only an identical reading counts as a duplicate.
Bug_SameFacts(facts) == \E i \in DOMAIN invoices : invoices[i].facts = facts

\* findDuplicateDocument: an approved invoice with the same identity.
IsDuplicate(facts) ==
  /\ Identity[facts] # NoIdentity
  /\ \E i \in DOMAIN invoices : Identity[invoices[i].facts] = Identity[facts]

-----------------------------------------------------------------------------
(* The queue *)

\* The pipeline parks the extraction it has read; the AI may read the same
\* bytes differently at each upload.
Upload(p, content, facts) ==
  /\ queue[p].status = "absent"
  /\ queue' = [queue EXCEPT ![p] =
       [Absent EXCEPT !.status = "pending", !.content = content, !.read = facts]]
  /\ UNCHANGED <<documents, confirmations, invoices, call, calls>>

\* The bytes are retained and the row linked to its extraction, in one
\* transaction; a pipeline that fails before leaves the row unlinked.
RetainExtraction(p) ==
  /\ queue[p].status = "pending"
  /\ ~queue[p].linked
  /\ ~RowLocked(p)
  /\ queue' = [queue EXCEPT ![p].linked = TRUE]
  /\ UNCHANGED <<documents, confirmations, invoices, call, calls>>

\* The delete is scoped to a row that is still pending.
DeletePending(p) ==
  /\ queue[p].status = "pending"
  /\ ~RowLocked(p)
  /\ queue' = [queue EXCEPT ![p].status = "deleted"]
  /\ UNCHANGED <<documents, confirmations, invoices, call, calls>>

\* resolvePendingDocument: whether the row leaves the queue depends on the
\* invoice alone, and the update asks for no status.
SetOutcome(p, invoice) ==
  queue' = [queue EXCEPT ![p] =
    IF @.status \in {"pending", "resolved"}
    THEN [@ EXCEPT !.status = IF invoice # 0 THEN "resolved" ELSE "pending",
                   !.invoice = invoice]
    ELSE @]

-----------------------------------------------------------------------------
(* One approval *)

Start(k, kind, p, facts, waived) ==
  /\ calls < MaxCalls
  /\ calls' = calls + 1
  /\ call' = [call EXCEPT ![k] =
       [step |-> "read", kind |-> kind, pending |-> p, facts |-> facts,
        evidence |-> queue[p].linked, waived |-> waived, since |-> 0, document |-> 0, seen |-> 0]]

\* A row that is resolved, absent or without evidence is turned away; the
\* human may edit the facts, and may proceed past a duplicate.
ReadSingle(k, p, facts, waived) ==
  /\ At(k, "idle")
  /\ queue[p].status = "pending"
  /\ queue[p].linked
  /\ Start(k, "single", p, facts, waived)
  /\ UNCHANGED <<queue, documents, confirmations, invoices>>

\* The batch approves what the document was read as.
ReadBulk(k, p) ==
  /\ At(k, "idle")
  /\ queue[p].status = "pending"
  /\ Start(k, "bulk", p, queue[p].read, FALSE)
  /\ UNCHANGED <<queue, documents, confirmations, invoices>>

\* What a refused approval does: a batch records the outcome on the row.
Refused(k) == IF call[k].kind = "bulk" THEN Goto(k, "refusing") ELSE Ends(k)

\* The currency, the confidences or the arithmetic do not pass.
GateRefuses(k) ==
  /\ At(k, "read")
  /\ Refused(k)
  /\ UNCHANGED <<queue, documents, confirmations, invoices, calls>>

FindDuplicate(k) ==
  /\ At(k, "read")
  /\ ~call[k].waived
  /\ IsDuplicate(call[k].facts)
  /\ Refused(k)
  /\ UNCHANGED <<queue, documents, confirmations, invoices, calls>>

FindNoDuplicate(k) ==
  /\ At(k, "read")
  /\ call[k].waived \/ ~IsDuplicate(call[k].facts)
  /\ call' = [call EXCEPT ![k].step = "checked", ![k].since = Len(invoices)]
  /\ UNCHANGED <<queue, documents, confirmations, invoices, calls>>

RecordRefusal(k) ==
  /\ At(k, "refusing")
  /\ ~RowLocked(call[k].pending)
  /\ SetOutcome(call[k].pending, 0)
  /\ Ends(k)
  /\ UNCHANGED <<documents, confirmations, invoices, calls>>

KeyOf(k) == [pending |-> call[k].pending, kind |-> call[k].kind]

\* Bug: the key alone decides what is resumed.
Bug_ResumeByKey(k) ==
  LET known == {x \in confirmations : x.extraction = ExtractionOf(call[k].pending)}
      keyed == {x \in known : x.key = KeyOf(k)}
  IN  IF keyed # {} THEN keyed ELSE {x \in known : x.facts = call[k].facts}

\* A confirmation under this key, or of these facts, is resumed.
Resumable(k) ==
  LET known == {x \in confirmations : x.extraction = ExtractionOf(call[k].pending)}
      keyed == {x \in known : x.key = KeyOf(k)}
  IN  IF keyed # {}
      THEN {x \in keyed : x.facts = call[k].facts}
      ELSE {x \in known : x.facts = call[k].facts}

KeyConflicts(k) ==
  \E x \in confirmations :
    /\ x.extraction = ExtractionOf(call[k].pending)
    /\ x.key = KeyOf(k)
    /\ x.facts # call[k].facts

\* The row lock is granted, the row still pending and the approval has
\* seen its evidence.
MayConfirm(k) ==
  /\ At(k, "checked")
  /\ call[k].evidence
  /\ queue[call[k].pending].status = "pending"
  /\ ~RowLocked(call[k].pending)

ResumeConfirmation(k) ==
  /\ MayConfirm(k)
  /\ \E x \in Resumable(k) :
       /\ queue' = [queue EXCEPT ![call[k].pending].confirmed = x.link]
       /\ call' = [call EXCEPT ![k].step = "confirmed"]
  /\ UNCHANGED <<documents, confirmations, invoices, calls>>

\* Bug: the document is not looked up by the artifact.
Bug_AnyDocument(content) == DOMAIN documents

\* Bug: the lookup takes the latest document and then compares the artifact.
Bug_LatestDocument(content) == {i \in {Len(documents)} \ {0} : documents[i].content = content}

DocumentsOf(content) == {i \in DOMAIN documents : documents[i].content = content}

\* The canonical document of the artifact is read and locked, if there is
\* one: nothing locks the absence of one, so what was "seen" may grow.
BeginConfirm(k) ==
  LET known == DocumentsOf(queue[call[k].pending].content)
  IN  /\ MayConfirm(k)
      /\ Resumable(k) = {}
      /\ ~KeyConflicts(k)
      /\ \/ /\ known = {}
            /\ call' = [call EXCEPT ![k].step = "confirming", ![k].document = 0,
                                   ![k].seen = Len(documents)]
         \/ \E i \in known :
              /\ ~DocumentLocked(i)
              /\ call' = [call EXCEPT ![k].step = "confirming", ![k].document = i]
      /\ UNCHANGED <<queue, documents, confirmations, invoices, calls>>

\* The confirmed fingerprint of an extraction is unique.
FingerprintTaken(k) ==
  \E x \in confirmations :
    /\ x.extraction = ExtractionOf(call[k].pending)
    /\ x.facts = call[k].facts

\* Where the revision goes: a new document, or the next of the locked one.
NewLink(k) ==
  IF call[k].document = 0
  THEN [document |-> Len(documents) + 1, revision |-> 1]
  ELSE [document |-> call[k].document,
        revision |-> Len(documents[call[k].document].revisions) + 1]

CommitConfirm(k) ==
  LET p == call[k].pending
  IN  /\ At(k, "confirming")
      /\ ~FingerprintTaken(k)
      /\ documents' =
           IF call[k].document = 0
           THEN Append(documents, [content |-> queue[p].content, since |-> call[k].seen,
                                   revisions |-> <<call[k].facts>>])
           ELSE [documents EXCEPT ![call[k].document].revisions = Append(@, call[k].facts)]
      /\ confirmations' = confirmations \cup
           {[extraction |-> ExtractionOf(p), key |-> KeyOf(k), facts |-> call[k].facts, link |-> NewLink(k)]}
      /\ queue' = [queue EXCEPT ![p].confirmed = NewLink(k)]
      /\ call' = [call EXCEPT ![k].step = "confirmed", ![k].document = 0, ![k].seen = 0]
      /\ UNCHANGED <<invoices, calls>>

SaveInvoice(k) ==
  /\ At(k, "confirmed")
  /\ Len(invoices) < MaxInvoices
  /\ invoices' = Append(invoices,
       [pending |-> call[k].pending, facts |-> call[k].facts,
        since |-> call[k].since, waived |-> call[k].waived])
  /\ call' = [call EXCEPT ![k].step = "saved", ![k].document = Len(invoices) + 1]
  /\ UNCHANGED <<queue, documents, confirmations, calls>>

\* Approved, or approved and not posted: either way the invoice is saved.
ResolvePending(k) ==
  /\ At(k, "saved")
  /\ ~RowLocked(call[k].pending)
  /\ SetOutcome(call[k].pending, call[k].document)
  /\ Ends(k)
  /\ UNCHANGED <<documents, confirmations, invoices, calls>>

\* An error, a refused confirmation, a posting that names another document
\* or a crash ends the call; what it had not committed is rolled back.
CallStops(k) ==
  /\ ~At(k, "idle")
  /\ Ends(k)
  /\ UNCHANGED <<queue, documents, confirmations, invoices, calls>>

-----------------------------------------------------------------------------
(* Specification *)

QueueStep(p) ==
  \/ \E content \in Contents, facts \in Facts : Upload(p, content, facts)
  \/ RetainExtraction(p)
  \/ DeletePending(p)

ApprovalStep(k) ==
  \/ \E p \in Pendings :
       \/ \E facts \in Facts, waived \in BOOLEAN : ReadSingle(k, p, facts, waived)
       \/ ReadBulk(k, p)
  \/ GateRefuses(k)
  \/ FindDuplicate(k)
  \/ FindNoDuplicate(k)
  \/ RecordRefusal(k)
  \/ ResumeConfirmation(k)
  \/ BeginConfirm(k)
  \/ CommitConfirm(k)
  \/ SaveInvoice(k)
  \/ ResolvePending(k)
  \/ CallStops(k)

Next == (\E p \in Pendings : QueueStep(p)) \/ (\E k \in Clerks : ApprovalStep(k))

Spec == Init /\ [][Next]_vars
-----------------------------------------------------------------------------
(* Properties *)

\* Every confirmation points at the revision that states its facts, in a
\* document of the bytes they were read from, and every queue row at a
\* confirmation of its own extraction: the evidence of confirm_document_
\* evidence_v1 stays traceable however many uploads share an artifact.
EvidenceStands ==
  /\ \A x \in confirmations :
       /\ x.link.document \in DOMAIN documents
       /\ documents[x.link.document].content = x.extraction.content
       /\ x.link.revision \in DOMAIN documents[x.link.document].revisions
       /\ documents[x.link.document].revisions[x.link.revision] = x.facts
  /\ \A p \in Pendings :
       queue[p].confirmed # NoLink =>
         \E x \in confirmations :
           x.extraction = ExtractionOf(p) /\ x.link = queue[p].confirmed

\* No invoice enters the ledger with facts that nobody confirmed against
\* the document it came from: the confirmation that an approval resumes
\* after a failure is of the facts it then saves.  And the same facts of the
\* same extraction are confirmed once, whichever approvals of whichever uploads
\* race to confirm them.
InvoiceIsConfirmed ==
  /\ \A i \in DOMAIN invoices :
       \E x \in confirmations :
         /\ x.extraction = ExtractionOf(invoices[i].pending)
         /\ x.facts = invoices[i].facts
  /\ \A x, y \in confirmations :
       x.extraction = y.extraction /\ x.facts = y.facts => x = y

\* An artifact gets a second canonical document, a posting source of its own,
\* only from confirmations that overlapped: the one that created it had looked
\* before the earlier document was committed.  However often approvals of one
\* artifact are repeated, by one upload or by several, they share the document
\* that confirm_document_evidence_v1 finds by the artifact.
SecondDocumentOverlaps ==
  \A i, j \in DOMAIN documents :
    i < j /\ documents[i].content = documents[j].content => documents[j].since < i

\* An invoice with the identity of an earlier one was saved past a warning,
\* or by an approval that looked for duplicates before the earlier invoice
\* was saved: two approvals that do not overlap never duplicate silently.
DuplicatesOverlap ==
  \A i, j \in DOMAIN invoices :
    /\ i < j
    /\ Identity[invoices[i].facts] = Identity[invoices[j].facts]
    /\ Identity[invoices[j].facts] # NoIdentity
    => invoices[j].waived \/ invoices[j].since < i

\* A document that reached the ledger stays out of the queue, with its
\* link: what the comment of resolvePendingDocument says decides it.
ResolvedStays ==
  [][\A p \in Pendings :
       queue[p].status = "resolved" => queue'[p].status = "resolved"]_vars
=============================================================================
