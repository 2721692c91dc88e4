----------------------- MODULE DocumentApproval_proofs -----------------------
(***************************************************************************)
(* The safety of DocumentApproval for every set of uploads, readings,      *)
(* documents and concurrent approvals.  Nothing a running approval relies  *)
(* on is ever taken back: rows keep what they were read as, documents,     *)
(* confirmations and invoices only grow.  So what holds of a call when it  *)
(* reads still holds when it writes, except that more invoices may have    *)
(* been saved since it looked for duplicates, and more documents created   *)
(* since it looked for one, which is what "since" and "seen" say.          *)
(***************************************************************************)
EXTENDS DocumentApproval, SequenceTheorems, TLAPS

\* A row that was uploaded has bytes and a reading; one that was not is blank.
RowsAreRead ==
  /\ \A p \in Pendings : queue[p].status # "absent" =>
       queue[p].content \in Contents /\ queue[p].read \in Facts
  /\ \A i \in DOMAIN invoices : queue[invoices[i].pending].status # "absent"
  /\ \A k \in Clerks : ~At(k, "idle") => queue[call[k].pending].status # "absent"

\* A confirmation that has begun writes to a document of the row's own bytes.
DocumentIsHeld ==
  \A k \in Clerks : At(k, "confirming") =>
    \/ call[k].document = 0
    \/ /\ call[k].document \in DOMAIN documents
       /\ documents[call[k].document].content = queue[call[k].pending].content

\* A call that is past its confirmation has one of its own facts; a call that
\* has saved names its invoice.
CallIsConfirmed ==
  /\ \A k \in Clerks : At(k, "confirmed") =>
       \E x \in confirmations :
         x.extraction = ExtractionOf(call[k].pending) /\ x.facts = call[k].facts
  /\ \A k \in Clerks : At(k, "saved") =>
       /\ call[k].document \in DOMAIN invoices
       /\ invoices[call[k].document].pending = call[k].pending

\* What a call that was not waived through looked at holds no duplicate.
Searched == {"checked", "confirming", "confirmed"}
SearchedHoldNoDuplicate ==
  \A k \in Clerks : call[k].step \in Searched =>
    /\ call[k].since <= Len(invoices)
    /\ \/ call[k].waived
       \/ Identity[call[k].facts] = NoIdentity
       \/ \A i \in DOMAIN invoices : i <= call[k].since =>
            Identity[invoices[i].facts] # Identity[call[k].facts]

\* The documents that a confirmation saw and found not to be of its artifact
\* are still there and still of another.
LookedForDocument ==
  \A k \in Clerks : At(k, "confirming") /\ call[k].document = 0 =>
    /\ call[k].seen <= Len(documents)
    /\ \A i \in DOMAIN documents : i <= call[k].seen =>
         documents[i].content # queue[call[k].pending].content

IInv ==
  /\ TypeOK
  /\ Len(invoices) <= MaxInvoices
  /\ RowsAreRead
  /\ DocumentIsHeld
  /\ CallIsConfirmed
  /\ SearchedHoldNoDuplicate
  /\ LookedForDocument
  /\ EvidenceStands
  /\ InvoiceIsConfirmed
  /\ SecondDocumentOverlaps
  /\ DuplicatesOverlap

----------------------------------------------------------------------------
(***************************************************************************)
(* The variables in their types.                                           *)
(***************************************************************************)
\* A running call is a record with all its fields.
LEMMA CallIsTyped ==
  ASSUME TypeOK, NEW k \in Clerks, ~At(k, "idle")
  PROVE  call[k] \in Call
  BY DEF TypeOK, At, Idle

\* The elements of the two sequences, and their positions.
LEMMA SequencesAreTyped ==
  ASSUME TypeOK
  PROVE  /\ Len(documents) \in Nat /\ DOMAIN documents = 1..Len(documents)
         /\ \A i \in DOMAIN documents :
              /\ documents[i].content \in Contents /\ documents[i].since \in Nat
              /\ documents[i].revisions \in Seq(Facts)
              /\ Len(documents[i].revisions) \in Nat
              /\ DOMAIN documents[i].revisions = 1..Len(documents[i].revisions)
         /\ Len(invoices) \in Nat /\ DOMAIN invoices = 1..Len(invoices)
         /\ \A i \in DOMAIN invoices : invoices[i] \in Invoice
<1>1. /\ documents \in Seq(Document) /\ invoices \in Seq(Invoice)
  BY DEF TypeOK
<1>2. /\ Len(documents) \in Nat /\ DOMAIN documents = 1..Len(documents)
      /\ Len(invoices) \in Nat /\ DOMAIN invoices = 1..Len(invoices)
  BY <1>1, LenProperties
<1>3. ASSUME NEW i \in DOMAIN invoices PROVE invoices[i] \in Invoice
  BY <1>1, <1>2, ElementOfSeq
<1>4. ASSUME NEW i \in DOMAIN documents
      PROVE  /\ documents[i].content \in Contents /\ documents[i].since \in Nat
             /\ documents[i].revisions \in Seq(Facts)
             /\ Len(documents[i].revisions) \in Nat
             /\ DOMAIN documents[i].revisions = 1..Len(documents[i].revisions)
  <2>1. documents[i] \in Document
    BY <1>1, <1>2, ElementOfSeq
  <2>2. /\ documents[i].content \in Contents /\ documents[i].since \in Nat
        /\ documents[i].revisions \in Seq(Facts)
    BY <2>1 DEF Document
  <2>3. QED BY <2>2, LenProperties
<1>5. QED BY <1>2, <1>3, <1>4

\* An invoice is saved after all that exist.
LEMMA SaveEffect ==
  ASSUME TypeOK, NEW k \in Clerks, SaveInvoice(k)
  PROVE  /\ invoices' \in Seq(Invoice)
         /\ Len(invoices') = Len(invoices) + 1
         /\ DOMAIN invoices' = 1..(Len(invoices) + 1)
         /\ \A i \in DOMAIN invoices : i \in DOMAIN invoices' /\ invoices'[i] = invoices[i]
         /\ invoices'[Len(invoices) + 1].pending = call[k].pending
         /\ invoices'[Len(invoices) + 1].facts = call[k].facts
         /\ invoices'[Len(invoices) + 1].since = call[k].since
         /\ invoices'[Len(invoices) + 1].waived = call[k].waived
<1> DEFINE e == [pending |-> call[k].pending, facts |-> call[k].facts,
                 since |-> call[k].since, waived |-> call[k].waived]
<1>1. call[k] \in Call
  BY CallIsTyped DEF SaveInvoice, At
<1>2. /\ e \in Invoice /\ e.pending = call[k].pending /\ e.facts = call[k].facts
      /\ e.since = call[k].since /\ e.waived = call[k].waived
  BY <1>1 DEF Call, Invoice
<1>3. invoices \in Seq(Invoice) /\ invoices' = Append(invoices, e)
  BY DEF TypeOK, SaveInvoice
<1>. HIDE DEF e
<1>4. /\ invoices' \in Seq(Invoice)
      /\ Len(invoices') = Len(invoices) + 1
      /\ \A i \in 1..Len(invoices) : invoices'[i] = invoices[i]
      /\ invoices'[Len(invoices) + 1] = e
  BY <1>2, <1>3, AppendProperties
<1>5. /\ DOMAIN invoices = 1..Len(invoices) /\ Len(invoices) \in Nat
      /\ DOMAIN invoices' = 1..Len(invoices')
  BY <1>3, <1>4, LenProperties
<1>6. QED BY <1>2, <1>4, <1>5

\* A confirmation adds a revision that states its facts, to a document of the
\* bytes of its row, and leaves every earlier revision where it is.
LEMMA CommitEffect ==
  ASSUME TypeOK, RowsAreRead, DocumentIsHeld, NEW k \in Clerks, CommitConfirm(k)
  PROVE  /\ documents' \in Seq(Document)
         /\ NewLink(k) \in Links
         /\ \A i \in DOMAIN documents :
              /\ i \in DOMAIN documents'
              /\ documents'[i].content = documents[i].content
              /\ documents'[i].since = documents[i].since
              /\ \A n \in DOMAIN documents[i].revisions :
                   /\ n \in DOMAIN documents'[i].revisions
                   /\ documents'[i].revisions[n] = documents[i].revisions[n]
         /\ IF call[k].document = 0
            THEN /\ DOMAIN documents' = 1..(Len(documents) + 1)
                 /\ documents'[Len(documents) + 1].content = queue[call[k].pending].content
                 /\ documents'[Len(documents) + 1].since = call[k].seen
            ELSE DOMAIN documents' = DOMAIN documents
         /\ NewLink(k).document \in DOMAIN documents'
         /\ documents'[NewLink(k).document].content = queue[call[k].pending].content
         /\ NewLink(k).revision \in DOMAIN documents'[NewLink(k).document].revisions
         /\ documents'[NewLink(k).document].revisions[NewLink(k).revision] = call[k].facts
<1> DEFINE d == call[k].document
           f == call[k].facts
           c == queue[call[k].pending].content
<1>1. call[k] \in Call
  BY CallIsTyped DEF CommitConfirm, At
<1>2. f \in Facts /\ d \in Nat /\ call[k].seen \in Nat
  BY <1>1 DEF Call
<1>3. c \in Contents
  BY <1>1 DEF RowsAreRead, CommitConfirm, At, Call
<1>4. documents \in Seq(Document)
  BY DEF TypeOK
<1>5. CASE d = 0
  <2> DEFINE e == [content |-> c, since |-> call[k].seen, revisions |-> <<f>>]
  <2>1. documents' = Append(documents, e)
    BY <1>5 DEF CommitConfirm
  <2>2. <<f>> \in Seq(Facts) /\ Len(<<f>>) = 1 /\ <<f>>[1] = f /\ DOMAIN <<f>> = 1..1
    BY <1>2
  <2>3. e \in Document /\ e.content = c /\ e.since = call[k].seen /\ e.revisions = <<f>>
    BY <1>2, <1>3, <2>2 DEF Document
  <2>4. NewLink(k) = [document |-> Len(documents) + 1, revision |-> 1]
    BY <1>5 DEF NewLink
  <2>. HIDE DEF e
  <2>5. /\ documents' \in Seq(Document)
        /\ Len(documents') = Len(documents) + 1
        /\ \A i \in 1..Len(documents) : documents'[i] = documents[i]
        /\ documents'[Len(documents) + 1] = e
    BY <1>4, <2>1, <2>3, AppendProperties
  <2>6. /\ DOMAIN documents = 1..Len(documents) /\ Len(documents) \in Nat
        /\ DOMAIN documents' = 1..Len(documents')
    BY <1>4, <2>5, LenProperties
  <2>7. NewLink(k) \in Links
    BY <2>4, <2>6 DEF Links
  <2>8. /\ NewLink(k).document = Len(documents) + 1 /\ NewLink(k).revision = 1
    BY <2>4
  <2>9. \A i \in DOMAIN documents : i \in DOMAIN documents' /\ documents'[i] = documents[i]
    BY <2>5, <2>6
  <2>10. QED BY <1>5, <2>2, <2>3, <2>5, <2>6, <2>7, <2>8, <2>9
<1>6. CASE d # 0
  <2> DEFINE old == documents[d].revisions
             new == Append(old, f)
             e == [documents[d] EXCEPT !.revisions = new]
  <2>1. d \in DOMAIN documents /\ documents[d].content = c
    BY <1>6 DEF DocumentIsHeld, CommitConfirm
  <2>2. /\ Len(documents) \in Nat /\ DOMAIN documents = 1..Len(documents)
        /\ old \in Seq(Facts) /\ Len(old) \in Nat /\ DOMAIN old = 1..Len(old)
        /\ documents[d] \in Document
    BY <1>4, <2>1, SequencesAreTyped, LenProperties, ElementOfSeq
  <2>3. documents' = [documents EXCEPT ![d].revisions = Append(@, f)]
    BY <1>6 DEF CommitConfirm
  <2>4. /\ new \in Seq(Facts) /\ Len(new) = Len(old) + 1
        /\ \A n \in 1..Len(old) : new[n] = old[n]
        /\ new[Len(old) + 1] = f
    <3>1. f \in Facts /\ old \in Seq(Facts)
      BY <1>2, <2>2
    <3>. HIDE DEF old, f
    <3>2. QED BY <3>1, AppendProperties
  <2>5. DOMAIN new = 1..Len(new)
    BY <2>4, LenProperties
  <2>6. documents' = [documents EXCEPT ![d] = e]
    BY <2>3
  <2>7. NewLink(k) = [document |-> d, revision |-> Len(old) + 1]
    BY <1>6 DEF NewLink
  <2>. HIDE DEF new
  <2>8. e \in Document /\ e.content = c /\ e.since = documents[d].since /\ e.revisions = new
    BY <2>1, <2>2, <2>4 DEF Document
  <2>. HIDE DEF e, old
  <2>9. /\ documents' \in Seq(Document) /\ DOMAIN documents' = DOMAIN documents
        /\ documents'[d] = e
        /\ \A i \in DOMAIN documents : i # d => documents'[i] = documents[i]
    <3>1. d \in 1..Len(documents)
      BY <2>1, <2>2
    <3>2. /\ documents' \in Seq(Document) /\ Len(documents') = Len(documents)
          /\ \A j \in 1..Len(documents) : documents'[j] = IF j = d THEN e ELSE documents[j]
      BY <1>4, <2>6, <2>8, <3>1, ExceptSeq
    <3>3. DOMAIN documents' = 1..Len(documents')
      BY <3>2, LenProperties
    <3>4. QED BY <2>1, <2>2, <3>2, <3>3
  <2>10. NewLink(k) \in Links
    BY <1>2, <2>2, <2>7 DEF Links
  <2>11. NewLink(k).document = d /\ NewLink(k).revision = Len(old) + 1
    BY <2>7
  <2>12. Len(old) + 1 \in DOMAIN new
    BY <2>2, <2>4, <2>5
  <2>13. \A n \in DOMAIN documents[d].revisions : n \in DOMAIN new /\ new[n] = documents[d].revisions[n]
    BY <2>2, <2>4, <2>5 DEF old
  <2>14. QED BY <1>6, <2>1, <2>4, <2>8, <2>9, <2>10, <2>11, <2>12, <2>13
<1>7. QED BY <1>5, <1>6

----------------------------------------------------------------------------
(***************************************************************************)
(* The rows of the queue.                                                  *)
(***************************************************************************)
\* An outcome is recorded on a row that is still, or again, in the queue's hands.
LEMMA OutcomeEffect ==
  ASSUME TypeOK, NEW q \in Pendings, NEW i \in InvoiceIds \cup {0}, SetOutcome(q, i)
  PROVE  /\ queue' \in [Pendings -> Row]
         /\ \A p \in Pendings :
              \/ queue'[p] = queue[p]
              \/ /\ p = q /\ queue[p].status \in {"pending", "resolved"}
                 /\ queue'[p].content = queue[p].content /\ queue'[p].read = queue[p].read
                 /\ queue'[p].confirmed = queue[p].confirmed
                 /\ queue'[p].invoice = i
                 /\ queue'[p].status = IF i # 0 THEN "resolved" ELSE "pending"
<1> DEFINE s == IF i # 0 THEN "resolved" ELSE "pending"
           r == [queue[q] EXCEPT !.status = s, !.invoice = i]
<1>1. queue \in [Pendings -> Row] /\ queue[q] \in Row /\ s \in Statuses
  BY DEF TypeOK, Statuses
<1>2. r \in Row
  <2>. HIDE DEF s
  <2>1. QED BY <1>1 DEF Row
<1>3. /\ r.content = queue[q].content /\ r.read = queue[q].read
      /\ r.confirmed = queue[q].confirmed /\ r.invoice = i /\ r.status = s
  BY <1>1 DEF Row
<1>4. queue' = [queue EXCEPT ![q] =
                  IF queue[q].status \in {"pending", "resolved"} THEN r ELSE queue[q]]
  BY DEF SetOutcome
<1>. HIDE DEF r
<1>5. QED BY <1>1, <1>2, <1>3, <1>4

\* Every step leaves a row alone, uploads it, or keeps what it was read as and
\* records a confirmation of its own extraction, or an outcome.
Recorded(p) ==
  \/ queue'[p].confirmed = queue[p].confirmed
  \/ /\ queue'[p].confirmed \in Links
     /\ \E x \in confirmations' :
          x.extraction = ExtractionOf(p) /\ x.link = queue'[p].confirmed
RowMoves(p) ==
  \/ queue'[p] = queue[p]
  \/ /\ queue[p].status = "absent" /\ queue'[p].status = "pending"
     /\ queue'[p].content \in Contents /\ queue'[p].read \in Facts
     /\ queue'[p].confirmed = NoLink /\ queue'[p].invoice = 0
  \/ /\ queue[p].status # "absent" /\ queue'[p].status # "absent"
     /\ queue'[p].content = queue[p].content /\ queue'[p].read = queue[p].read
     /\ Recorded(p)

LEMMA QueueMoves ==
  ASSUME TypeOK, Len(invoices) <= MaxInvoices, RowsAreRead, DocumentIsHeld, CallIsConfirmed,
         [Next]_vars
  PROVE  queue' \in [Pendings -> Row] /\ \A p \in Pendings : RowMoves(p)
<1>. USE DEF RowMoves, Recorded
<1>0. queue \in [Pendings -> Row]
  BY DEF TypeOK
<1>1. CASE UNCHANGED queue
  BY <1>0, <1>1
<1>2. ASSUME NEW q \in Pendings, NEW c \in Contents, NEW f \in Facts, Upload(q, c, f)
      PROVE  queue' \in [Pendings -> Row] /\ \A p \in Pendings : RowMoves(p)
  <2>1. Absent \in Row /\ Absent.confirmed = NoLink /\ Absent.invoice = 0
    BY DEF Absent, Row, Statuses
  <2>2. PICK r : r = [Absent EXCEPT !.status = "pending", !.content = c, !.read = f]
    OBVIOUS
  <2>3. /\ r \in Row /\ r.status = "pending" /\ r.content = c /\ r.read = f
        /\ r.confirmed = NoLink /\ r.invoice = 0
        /\ queue' = [queue EXCEPT ![q] = r]
    <3>1. queue' = [queue EXCEPT ![q] = r]
      BY <1>2, <2>2 DEF Upload
    <3>2. /\ r \in Row /\ r.status = "pending" /\ r.content = c /\ r.read = f
          /\ r.confirmed = Absent.confirmed /\ r.invoice = Absent.invoice
      BY <2>1, <2>2 DEF Row, Statuses
    <3>3. QED BY <2>1, <3>1, <3>2
  <2>4. queue[q].status = "absent"
    BY <1>2 DEF Upload
  <2>5. QED BY <1>0, <2>3, <2>4
<1>3. ASSUME NEW q \in Pendings, RetainExtraction(q) \/ DeletePending(q)
      PROVE  queue' \in [Pendings -> Row] /\ \A p \in Pendings : RowMoves(p)
  <2>1. queue[q] \in Row /\ queue[q].status = "pending"
    BY <1>0, <1>3 DEF RetainExtraction, DeletePending
  <2>2. PICK r \in Row :
          /\ queue' = [queue EXCEPT ![q] = r]
          /\ r.content = queue[q].content /\ r.read = queue[q].read
          /\ r.confirmed = queue[q].confirmed /\ r.invoice = queue[q].invoice
          /\ r.status \in {"pending", "deleted"}
    <3>1. CASE RetainExtraction(q)
      <4>1. queue' = [queue EXCEPT ![q] = [queue[q] EXCEPT !.linked = TRUE]]
        BY <3>1 DEF RetainExtraction
      <4>2. [queue[q] EXCEPT !.linked = TRUE] \in Row
        BY <2>1 DEF Row
      <4>3. QED BY <2>1, <4>1, <4>2 DEF Row
    <3>2. CASE DeletePending(q)
      <4>1. queue' = [queue EXCEPT ![q] = [queue[q] EXCEPT !.status = "deleted"]]
        BY <3>2 DEF DeletePending
      <4>2. [queue[q] EXCEPT !.status = "deleted"] \in Row
        BY <2>1 DEF Row, Statuses
      <4>3. QED BY <2>1, <4>1, <4>2 DEF Row
    <3>3. QED BY <1>3, <3>1, <3>2
  <2>3. QED BY <1>0, <2>1, <2>2
<1>4. ASSUME NEW k \in Clerks, RecordRefusal(k) \/ ResolvePending(k)
      PROVE  queue' \in [Pendings -> Row] /\ \A p \in Pendings : RowMoves(p)
  <2>1. call[k].pending \in Pendings
    BY <1>4, CallIsTyped DEF RecordRefusal, ResolvePending, At, Call
  <2>2. CASE RecordRefusal(k)
    <3>1. SetOutcome(call[k].pending, 0)
      BY <2>2 DEF RecordRefusal
    <3>2. QED BY <2>1, <3>1, OutcomeEffect
  <2>3. CASE ResolvePending(k)
    <3>1. SetOutcome(call[k].pending, call[k].document)
      BY <2>3 DEF ResolvePending
    <3>2. call[k].document \in InvoiceIds /\ call[k].document # 0
      BY <2>3, SequencesAreTyped, BoundAssumption
         DEF CallIsConfirmed, ResolvePending, InvoiceIds
    <3>3. QED BY <2>1, <2>3, <3>1, <3>2, OutcomeEffect
  <2>4. QED BY <1>4, <2>2, <2>3
<1>5. ASSUME NEW k \in Clerks, ResumeConfirmation(k) \/ CommitConfirm(k)
      PROVE  queue' \in [Pendings -> Row] /\ \A p \in Pendings : RowMoves(p)
  <2> DEFINE q == call[k].pending
  <2>1. q \in Pendings /\ queue[q] \in Row /\ queue[q].status # "absent"
    BY <1>0, <1>5, CallIsTyped DEF ResumeConfirmation, MayConfirm, CommitConfirm, At, Call, RowsAreRead
  <2>2. PICK l \in Links :
          /\ queue' = [queue EXCEPT ![q].confirmed = l]
          /\ \E x \in confirmations' : x.extraction = ExtractionOf(q) /\ x.link = l
    <3>1. CASE ResumeConfirmation(k)
      <4>1. PICK x \in Resumable(k) : queue' = [queue EXCEPT ![q].confirmed = x.link]
        BY <3>1 DEF ResumeConfirmation
      <4>2. x \in confirmations /\ x.extraction = ExtractionOf(q)
        BY <4>1 DEF Resumable
      <4>3. x.link \in Links
        BY <4>2 DEF TypeOK, Confirmation
      <4>4. QED BY <3>1, <4>1, <4>2, <4>3 DEF ResumeConfirmation
    <3>2. CASE CommitConfirm(k)
      <4>1. /\ queue' = [queue EXCEPT ![q].confirmed = NewLink(k)]
            /\ [extraction |-> ExtractionOf(q), key |-> KeyOf(k), facts |-> call[k].facts,
                link |-> NewLink(k)] \in confirmations'
        BY <3>2 DEF CommitConfirm
      <4>2. NewLink(k) \in Links
        BY <3>2, CommitEffect
      <4>3. QED BY <4>1, <4>2
    <3>3. QED BY <1>5, <3>1, <3>2
  <2>. HIDE DEF q
  <2>3. PICK r \in Row :
          /\ queue' = [queue EXCEPT ![q] = r]
          /\ r.content = queue[q].content /\ r.read = queue[q].read
          /\ r.confirmed = l /\ r.invoice = queue[q].invoice
          /\ r.status = queue[q].status
    <3>1. queue' = [queue EXCEPT ![q] = [queue[q] EXCEPT !.confirmed = l]]
      BY <2>2
    <3>2. [queue[q] EXCEPT !.confirmed = l] \in Row
      BY <2>1, <2>2 DEF Row
    <3>3. QED BY <2>1, <3>1, <3>2 DEF Row
  <2>4. QED BY <1>0, <2>1, <2>2, <2>3
<1>6. UNCHANGED queue
      \/ (\E q \in Pendings : \/ \E c \in Contents, f \in Facts : Upload(q, c, f)
                             \/ RetainExtraction(q) \/ DeletePending(q))
      \/ (\E k \in Clerks : \/ RecordRefusal(k) \/ ResolvePending(k)
                            \/ ResumeConfirmation(k) \/ CommitConfirm(k))
  BY DEF Next, QueueStep, ApprovalStep, vars, ReadSingle, ReadBulk, GateRefuses,
    FindDuplicate, FindNoDuplicate, BeginConfirm, SaveInvoice, CallStops
<1>7. QED BY <1>1, <1>2, <1>3, <1>4, <1>5, <1>6

----------------------------------------------------------------------------
(***************************************************************************)
(* The calls.                                                              *)
(***************************************************************************)
\* What a call keeps from its start to its end.
Keeps(k) ==
  /\ ~At(k, "idle") /\ call'[k] \in Call
  /\ call'[k].pending = call[k].pending /\ call'[k].facts = call[k].facts
  /\ call'[k].waived = call[k].waived

\* The steps of a call, each with what it relies on.
Advances(k) ==
  \/ call'[k].step = "refusing"
  \/ /\ call'[k].step = "checked" /\ call'[k].since = Len(invoices)
     /\ call[k].waived \/ ~IsDuplicate(call[k].facts)
  \/ /\ call'[k].since = call[k].since
     /\ \/ /\ call[k].step = "checked" /\ call'[k].step = "confirming"
           /\ \/ /\ call'[k].document = 0 /\ call'[k].seen = Len(documents)
                 /\ \A i \in DOMAIN documents :
                      documents[i].content # queue[call[k].pending].content
              \/ /\ call'[k].document # 0
                 /\ call'[k].document \in DOMAIN documents
                 /\ documents[call'[k].document].content = queue[call[k].pending].content
        \/ /\ call[k].step = "checked" /\ call'[k].step = "confirmed"
           /\ ResumeConfirmation(k)
        \/ /\ call[k].step = "confirming" /\ call'[k].step = "confirmed"
           /\ CommitConfirm(k)
  \/ /\ call'[k].step = "saved" /\ call'[k].document = Len(invoices) + 1
     /\ SaveInvoice(k)

CallMovesTo(k) ==
  \/ call'[k] = call[k] \/ call'[k] = Idle
  \/ /\ call'[k] \in Call /\ call'[k].step = "read"
     /\ queue[call'[k].pending].status = "pending"
  \/ Keeps(k) /\ Advances(k)

\* A call starts from a row that is in the queue.
LEMMA CallStarts ==
  ASSUME TypeOK, NEW k \in Clerks, NEW p \in Pendings, NEW kind \in Kinds, NEW f \in Facts,
         NEW w \in BOOLEAN, queue[p].status = "pending", Start(k, kind, p, f, w)
  PROVE  /\ call' \in [Clerks -> Call \cup {Idle}] /\ calls' \in 0..MaxCalls
         /\ \A j \in Clerks : CallMovesTo(j)
<1>1. PICK c : /\ c = [step |-> "read", kind |-> kind, pending |-> p, facts |-> f,
                       evidence |-> queue[p].linked, waived |-> w, since |-> 0, document |-> 0,
                       seen |-> 0]
               /\ call' = [call EXCEPT ![k] = c]
  BY DEF Start
<1>2. queue[p].linked \in BOOLEAN
  BY DEF TypeOK, Row
<1>3. c \in Call /\ c.step = "read" /\ c.pending = p
  BY <1>1, <1>2 DEF Call, Steps
<1>4. calls' \in 0..MaxCalls
  BY BoundAssumption DEF TypeOK, Start
<1>5. QED BY <1>1, <1>3, <1>4 DEF TypeOK, CallMovesTo

LEMMA CallMoves ==
  ASSUME TypeOK, RowsAreRead, DocumentIsHeld, [Next]_vars
  PROVE  /\ call' \in [Clerks -> Call \cup {Idle}] /\ calls' \in 0..MaxCalls
         /\ \A k \in Clerks : CallMovesTo(k)
<1>0. call \in [Clerks -> Call \cup {Idle}] /\ calls \in 0..MaxCalls
  BY DEF TypeOK
<1>1. CASE UNCHANGED <<call, calls>>
  BY <1>0, <1>1 DEF CallMovesTo
<1>2. ASSUME NEW k \in Clerks, NEW p \in Pendings, NEW f \in Facts, NEW w \in BOOLEAN,
             ReadSingle(k, p, f, w)
      PROVE  /\ call' \in [Clerks -> Call \cup {Idle}] /\ calls' \in 0..MaxCalls
             /\ \A j \in Clerks : CallMovesTo(j)
  BY <1>2, CallStarts DEF ReadSingle, Kinds
<1>3. ASSUME NEW k \in Clerks, NEW p \in Pendings, ReadBulk(k, p)
      PROVE  /\ call' \in [Clerks -> Call \cup {Idle}] /\ calls' \in 0..MaxCalls
             /\ \A j \in Clerks : CallMovesTo(j)
  <2>1. queue[p].status = "pending" /\ queue[p].read \in Facts
        /\ Start(k, "bulk", p, queue[p].read, FALSE)
    BY <1>3 DEF ReadBulk, RowsAreRead
  <2>2. "bulk" \in Kinds
    BY DEF Kinds
  <2>3. QED BY <2>1, <2>2, CallStarts
<1>4. ASSUME NEW k \in Clerks, Ends(k), calls' = calls
      PROVE  /\ call' \in [Clerks -> Call \cup {Idle}] /\ calls' \in 0..MaxCalls
             /\ \A j \in Clerks : CallMovesTo(j)
  BY <1>0, <1>4 DEF Ends, CallMovesTo
<1>5. ASSUME NEW k \in Clerks, NEW c \in Call, call' = [call EXCEPT ![k] = c],
             Keeps(k) /\ Advances(k), calls' = calls
      PROVE  /\ call' \in [Clerks -> Call \cup {Idle}] /\ calls' \in 0..MaxCalls
             /\ \A j \in Clerks : CallMovesTo(j)
  BY <1>0, <1>5 DEF CallMovesTo
<1>6. ASSUME NEW k \in Clerks, ~At(k, "idle"), calls' = calls,
             \/ Goto(k, "refusing") /\ At(k, "read")
             \/ FindNoDuplicate(k) \/ ResumeConfirmation(k) \/ BeginConfirm(k)
             \/ CommitConfirm(k) \/ SaveInvoice(k)
      PROVE  \E c \in Call : call' = [call EXCEPT ![k] = c] /\ Keeps(k) /\ Advances(k)
  <2>1. call[k] \in Call
    BY <1>6, CallIsTyped
  <2>2. Len(invoices) \in Nat
    BY SequencesAreTyped
  <2>3. CASE Goto(k, "refusing")
    <3>1. PICK c : c = [call[k] EXCEPT !.step = "refusing"] /\ call' = [call EXCEPT ![k] = c]
      BY <2>3 DEF Goto
    <3>2. /\ c \in Call /\ c.step = "refusing" /\ c.pending = call[k].pending
          /\ c.facts = call[k].facts /\ c.waived = call[k].waived
      BY <2>1, <3>1 DEF Call, Steps
    <3>3. QED BY <1>0, <1>6, <3>1, <3>2 DEF Keeps, Advances
  <2>4. CASE FindNoDuplicate(k)
    <3>1. PICK c : /\ c = [call[k] EXCEPT !.step = "checked", !.since = Len(invoices)]
                   /\ call' = [call EXCEPT ![k] = c]
      BY <2>4 DEF FindNoDuplicate
    <3>2. /\ c \in Call /\ c.step = "checked" /\ c.since = Len(invoices)
          /\ c.pending = call[k].pending
          /\ c.facts = call[k].facts /\ c.waived = call[k].waived
      BY <2>1, <2>2, <3>1 DEF Call, Steps
    <3>3. QED BY <1>0, <1>6, <2>4, <3>1, <3>2 DEF Keeps, Advances, FindNoDuplicate
  <2>5. CASE ResumeConfirmation(k)
    <3>1. PICK c : c = [call[k] EXCEPT !.step = "confirmed"] /\ call' = [call EXCEPT ![k] = c]
      BY <2>5 DEF ResumeConfirmation
    <3>2. /\ c \in Call /\ c.step = "confirmed" /\ c.pending = call[k].pending
          /\ c.facts = call[k].facts /\ c.waived = call[k].waived /\ c.since = call[k].since
      BY <2>1, <3>1 DEF Call, Steps
    <3>3. call[k].step = "checked"
      BY <2>5 DEF ResumeConfirmation, MayConfirm, At
    <3>4. QED BY <1>0, <1>6, <2>5, <3>1, <3>2, <3>3 DEF Keeps, Advances
  <2>6. CASE BeginConfirm(k)
    <3>0. Len(documents) \in Nat /\ DOMAIN documents = 1..Len(documents)
      BY SequencesAreTyped
    <3>1. PICK d \in Nat, n \in Nat :
            /\ call' = [call EXCEPT ![k] =
                          [call[k] EXCEPT !.step = "confirming", !.document = d, !.seen = n]]
            /\ \/ /\ d = 0 /\ n = Len(documents)
                  /\ \A i \in DOMAIN documents :
                       documents[i].content # queue[call[k].pending].content
               \/ /\ d # 0 /\ d \in DOMAIN documents
                  /\ documents[d].content = queue[call[k].pending].content
      <4>1. call[k].seen \in Nat
        BY <2>1 DEF Call
      <4>2. CASE DocumentsOf(queue[call[k].pending].content) = {}
        <5>1. \A i \in DOMAIN documents :
                documents[i].content # queue[call[k].pending].content
          BY <4>2 DEF DocumentsOf
        <5>2. call' = [call EXCEPT ![k] = [call[k] EXCEPT !.step = "confirming",
                                            !.document = 0, !.seen = Len(documents)]]
          BY <2>6, <4>2 DEF BeginConfirm
        <5>3. QED BY <3>0, <5>1, <5>2
      <4>3. CASE DocumentsOf(queue[call[k].pending].content) # {}
        <5>1. PICK d \in DocumentsOf(queue[call[k].pending].content) :
                call' = [call EXCEPT ![k] = [call[k] EXCEPT !.step = "confirming", !.document = d]]
          BY <2>6, <4>3 DEF BeginConfirm
        <5>2. /\ d \in DOMAIN documents /\ d \in Nat /\ d # 0
              /\ documents[d].content = queue[call[k].pending].content
          BY <3>0, <5>1 DEF DocumentsOf
        <5>3. [call[k] EXCEPT !.step = "confirming", !.document = d] =
              [call[k] EXCEPT !.step = "confirming", !.document = d, !.seen = call[k].seen]
          BY <2>1 DEF Call
        <5>4. QED BY <4>1, <5>1, <5>2, <5>3
      <4>4. QED BY <4>2, <4>3
    <3>2. PICK c : /\ c = [call[k] EXCEPT !.step = "confirming", !.document = d, !.seen = n]
                   /\ call' = [call EXCEPT ![k] = c]
      BY <3>1
    <3>3. /\ c \in Call /\ c.step = "confirming" /\ c.document = d /\ c.seen = n
          /\ c.pending = call[k].pending /\ c.since = call[k].since
          /\ c.facts = call[k].facts /\ c.waived = call[k].waived
      BY <2>1, <3>2 DEF Call, Steps
    <3>4. call[k].step = "checked"
      BY <2>6 DEF BeginConfirm, MayConfirm, At
    <3>5. QED BY <1>0, <1>6, <3>1, <3>2, <3>3, <3>4 DEF Keeps, Advances
  <2>7. CASE CommitConfirm(k)
    <3>1. PICK c : /\ c = [call[k] EXCEPT !.step = "confirmed", !.document = 0, !.seen = 0]
                   /\ call' = [call EXCEPT ![k] = c]
      BY <2>7 DEF CommitConfirm
    <3>2. /\ c \in Call /\ c.step = "confirmed"
          /\ c.pending = call[k].pending /\ c.since = call[k].since
          /\ c.facts = call[k].facts /\ c.waived = call[k].waived
      BY <2>1, <3>1 DEF Call, Steps
    <3>3. call[k].step = "confirming"
      BY <2>7 DEF CommitConfirm, At
    <3>4. QED BY <1>0, <1>6, <2>7, <3>1, <3>2, <3>3 DEF Keeps, Advances
  <2>8. CASE SaveInvoice(k)
    <3>1. PICK d \in Nat : d = Len(invoices) + 1
      BY <2>2
    <3>2. PICK c : /\ c = [call[k] EXCEPT !.step = "saved", !.document = d]
                   /\ call' = [call EXCEPT ![k] = c]
      BY <2>8, <3>1 DEF SaveInvoice
    <3>3. /\ c \in Call /\ c.step = "saved" /\ c.document = d
          /\ c.pending = call[k].pending
          /\ c.facts = call[k].facts /\ c.waived = call[k].waived
      BY <2>1, <3>2 DEF Call, Steps
    <3>4. QED BY <1>0, <1>6, <2>8, <3>1, <3>2, <3>3 DEF Keeps, Advances
  <2>9. QED BY <1>6, <2>3, <2>4, <2>5, <2>6, <2>7, <2>8
<1>7. ASSUME NEW k \in Clerks,
             \/ GateRefuses(k) \/ FindDuplicate(k) \/ FindNoDuplicate(k) \/ RecordRefusal(k)
             \/ ResumeConfirmation(k) \/ BeginConfirm(k) \/ CommitConfirm(k)
             \/ SaveInvoice(k) \/ ResolvePending(k) \/ CallStops(k)
      PROVE  /\ call' \in [Clerks -> Call \cup {Idle}] /\ calls' \in 0..MaxCalls
             /\ \A j \in Clerks : CallMovesTo(j)
  <2>1. /\ ~At(k, "idle") /\ calls' = calls
        /\ \/ Ends(k)
           \/ Goto(k, "refusing") /\ At(k, "read")
           \/ FindNoDuplicate(k) \/ ResumeConfirmation(k) \/ BeginConfirm(k)
           \/ CommitConfirm(k) \/ SaveInvoice(k)
    BY <1>7 DEF GateRefuses, FindDuplicate, FindNoDuplicate, RecordRefusal, Refused,
      ResumeConfirmation, BeginConfirm, MayConfirm, CommitConfirm, SaveInvoice,
      ResolvePending, CallStops, At
  <2>2. CASE Ends(k)
    BY <1>4, <2>1, <2>2
  <2>3. CASE ~Ends(k)
    <3>1. PICK c \in Call : call' = [call EXCEPT ![k] = c] /\ Keeps(k) /\ Advances(k)
      BY <1>6, <2>1, <2>3
    <3>2. QED BY <1>5, <2>1, <3>1
  <2>4. QED BY <2>2, <2>3
<1>8. QED
  BY <1>1, <1>2, <1>3, <1>7 DEF Next, QueueStep, ApprovalStep, vars, Upload,
    RetainExtraction, DeletePending

----------------------------------------------------------------------------
(***************************************************************************)
(* Documents, confirmations and invoices only grow.                        *)
(***************************************************************************)
LEMMA WhoChanges ==
  ASSUME [Next]_vars
  PROVE  /\ UNCHANGED <<documents, confirmations>> \/ \E k \in Clerks : CommitConfirm(k)
         /\ UNCHANGED invoices \/ \E k \in Clerks : SaveInvoice(k)
  BY DEF Next, QueueStep, ApprovalStep, vars, Upload, RetainExtraction, DeletePending,
    ReadSingle, ReadBulk, GateRefuses, FindDuplicate, FindNoDuplicate, RecordRefusal,
    ResumeConfirmation, BeginConfirm, CommitConfirm, SaveInvoice, ResolvePending, CallStops

\* Whatever a step finds, it leaves: a row's extraction, a document's content and
\* revisions, a confirmation, an invoice.
Kept ==
  /\ \A p \in Pendings : queue[p].status # "absent" =>
       queue'[p].status # "absent" /\ ExtractionOf(p)' = ExtractionOf(p)
  /\ \A i \in DOMAIN documents :
       /\ i \in DOMAIN documents'
       /\ documents'[i].content = documents[i].content
       /\ documents'[i].since = documents[i].since
       /\ \A n \in DOMAIN documents[i].revisions :
            /\ n \in DOMAIN documents'[i].revisions
            /\ documents'[i].revisions[n] = documents[i].revisions[n]
  /\ confirmations \subseteq confirmations'
  /\ \A i \in DOMAIN invoices : i \in DOMAIN invoices' /\ invoices'[i] = invoices[i]
  /\ Len(invoices) <= Len(invoices')

LEMMA NothingIsTakenBack ==
  ASSUME TypeOK, Len(invoices) <= MaxInvoices, RowsAreRead, DocumentIsHeld, CallIsConfirmed,
         [Next]_vars
  PROVE  Kept
<1>1. \A p \in Pendings : queue[p].status # "absent" =>
        queue'[p].status # "absent" /\ ExtractionOf(p)' = ExtractionOf(p)
  BY QueueMoves DEF RowMoves, ExtractionOf
<1>2. \A i \in DOMAIN documents :
        /\ i \in DOMAIN documents'
        /\ documents'[i].content = documents[i].content
        /\ documents'[i].since = documents[i].since
        /\ \A n \in DOMAIN documents[i].revisions :
             /\ n \in DOMAIN documents'[i].revisions
             /\ documents'[i].revisions[n] = documents[i].revisions[n]
  <2>1. CASE UNCHANGED documents
    BY <2>1
  <2>2. CASE \E k \in Clerks : CommitConfirm(k)
    BY <2>2, CommitEffect
  <2>3. QED BY <2>1, <2>2, WhoChanges
<1>3. confirmations \subseteq confirmations'
  BY WhoChanges DEF CommitConfirm
<1>4. /\ \A i \in DOMAIN invoices : i \in DOMAIN invoices' /\ invoices'[i] = invoices[i]
      /\ Len(invoices) <= Len(invoices')
  <2>1. CASE UNCHANGED invoices
    BY <2>1, SequencesAreTyped
  <2>2. ASSUME NEW k \in Clerks, SaveInvoice(k)
        PROVE  /\ \A i \in DOMAIN invoices : i \in DOMAIN invoices' /\ invoices'[i] = invoices[i]
               /\ Len(invoices) <= Len(invoices')
    <3>1. /\ \A i \in DOMAIN invoices : i \in DOMAIN invoices' /\ invoices'[i] = invoices[i]
          /\ Len(invoices') = Len(invoices) + 1
      BY <2>2, SaveEffect
    <3>2. Len(invoices) \in Nat
      BY SequencesAreTyped
    <3>3. QED BY <3>1, <3>2
  <2>3. QED BY <2>1, <2>2, WhoChanges
<1>5. QED BY <1>1, <1>2, <1>3, <1>4 DEF Kept

----------------------------------------------------------------------------
(***************************************************************************)
(* The parts of the invariant.                                             *)
(***************************************************************************)
LEMMA TypeOKStep ==
  ASSUME IInv, [Next]_vars
  PROVE  TypeOK' /\ (Len(invoices) <= MaxInvoices)'
<1>. USE DEF IInv
<1>1. queue' \in [Pendings -> Row]
  BY QueueMoves
<1>2. call' \in [Clerks -> Call \cup {Idle}] /\ calls' \in 0..MaxCalls
  BY CallMoves
<1>3. documents' \in Seq(Document)
  <2>1. CASE \E k \in Clerks : CommitConfirm(k)
    BY <2>1, CommitEffect
  <2>2. CASE UNCHANGED documents
    BY <2>2 DEF TypeOK
  <2>3. QED BY <2>1, <2>2, WhoChanges
<1>4. \A x \in confirmations' : x \in Confirmation
  <2>1. ASSUME NEW k \in Clerks, CommitConfirm(k)
        PROVE  \A x \in confirmations' : x \in Confirmation
    <3>1. call[k] \in Call
      BY <2>1, CallIsTyped DEF CommitConfirm, At
    <3>2. ExtractionOf(call[k].pending) \in Extractions
      BY <2>1, <3>1 DEF ExtractionOf, Extractions, RowsAreRead, CommitConfirm, At, Call
    <3>3. KeyOf(k) \in ConfirmationKeys /\ call[k].facts \in Facts
      BY <3>1 DEF KeyOf, ConfirmationKeys, Call
    <3>4. NewLink(k) \in Links
      BY <2>1, CommitEffect
    <3>5. [extraction |-> ExtractionOf(call[k].pending), key |-> KeyOf(k),
           facts |-> call[k].facts, link |-> NewLink(k)] \in Confirmation
      BY <3>2, <3>3, <3>4 DEF Confirmation
    <3>6. confirmations' = confirmations \cup
            {[extraction |-> ExtractionOf(call[k].pending), key |-> KeyOf(k),
              facts |-> call[k].facts, link |-> NewLink(k)]}
      BY <2>1 DEF CommitConfirm
    <3>7. QED BY <3>5, <3>6 DEF TypeOK
  <2>2. CASE UNCHANGED confirmations
    BY <2>2 DEF TypeOK
  <2>3. QED BY <2>1, <2>2, WhoChanges
<1>5. invoices' \in Seq(Invoice) /\ Len(invoices') <= MaxInvoices
  <2>1. ASSUME NEW k \in Clerks, SaveInvoice(k)
        PROVE  invoices' \in Seq(Invoice) /\ Len(invoices') <= MaxInvoices
    <3>1. invoices' \in Seq(Invoice) /\ Len(invoices') = Len(invoices) + 1
      BY <2>1, SaveEffect
    <3>2. Len(invoices) \in Nat /\ Len(invoices) < MaxInvoices
      BY <2>1, SequencesAreTyped DEF SaveInvoice
    <3>3. QED BY <3>1, <3>2, BoundAssumption
  <2>2. CASE UNCHANGED invoices
    BY <2>2 DEF TypeOK
  <2>3. QED BY <2>1, <2>2, WhoChanges
<1>6. QED BY <1>1, <1>2, <1>3, <1>4, <1>5 DEF TypeOK

LEMMA RowsStep == ASSUME IInv, [Next]_vars PROVE RowsAreRead'
<1>. USE DEF IInv, RowsAreRead
<1>0. Kept
  BY NothingIsTakenBack
<1>1. ASSUME NEW p \in Pendings, queue'[p].status # "absent"
      PROVE  queue'[p].content \in Contents /\ queue'[p].read \in Facts
  BY <1>1, QueueMoves DEF RowMoves
<1>2. ASSUME NEW i \in DOMAIN invoices'
      PROVE  queue'[invoices'[i].pending].status # "absent"
  <2>1. CASE i \in DOMAIN invoices
    <3>1. invoices[i].pending \in Pendings /\ queue[invoices[i].pending].status # "absent"
      BY <2>1, SequencesAreTyped DEF Invoice
    <3>2. QED BY <1>0, <2>1, <3>1 DEF Kept
  <2>2. CASE i \notin DOMAIN invoices
    <3>1. PICK k \in Clerks : SaveInvoice(k)
      BY <1>2, <2>2, WhoChanges
    <3>2. i = Len(invoices) + 1 /\ invoices'[i].pending = call[k].pending
      <4>1. /\ DOMAIN invoices' = 1..(Len(invoices) + 1)
            /\ invoices'[Len(invoices) + 1].pending = call[k].pending
        BY <3>1, SaveEffect
      <4>2. DOMAIN invoices = 1..Len(invoices) /\ Len(invoices) \in Nat
        BY SequencesAreTyped
      <4>3. QED BY <1>2, <2>2, <4>1, <4>2
    <3>3. call[k].pending \in Pendings /\ queue[call[k].pending].status # "absent"
      BY <3>1, CallIsTyped DEF SaveInvoice, At, Call
    <3>4. QED BY <1>0, <3>2, <3>3 DEF Kept
  <2>3. QED BY <2>1, <2>2
<1>3. ASSUME NEW k \in Clerks, call'[k].step # "idle"
      PROVE  queue'[call'[k].pending].status # "absent"
  <2>1. /\ call'[k] \in Call /\ queue[call'[k].pending].status # "absent"
    BY <1>3, CallMoves, CallIsTyped DEF CallMovesTo, Idle, At, Keeps
  <2>2. call'[k].pending \in Pendings
    BY <2>1 DEF Call
  <2>3. QED BY <1>0, <2>1, <2>2 DEF Kept
<1>4. QED BY <1>1, <1>2, <1>3 DEF At

LEMMA DocumentStep == ASSUME IInv, [Next]_vars PROVE DocumentIsHeld'
<1>. USE DEF IInv
<1>0. Kept
  BY NothingIsTakenBack
<1>. SUFFICES ASSUME NEW k \in Clerks, call'[k].step = "confirming", call'[k].document # 0
     PROVE  /\ call'[k].document \in DOMAIN documents'
            /\ documents'[call'[k].document].content = queue'[call'[k].pending].content
  BY DEF DocumentIsHeld, At
<1>1. /\ call'[k].document \in DOMAIN documents
      /\ documents[call'[k].document].content = queue[call'[k].pending].content
      /\ ~At(k, "idle") /\ call'[k].pending = call[k].pending
  BY CallMoves DEF CallMovesTo, Keeps, Advances, Idle, At, DocumentIsHeld
<1>2. call[k].pending \in Pendings /\ queue[call[k].pending].status # "absent"
  BY <1>1, CallIsTyped DEF RowsAreRead, Call
<1>3. queue'[call[k].pending].content = queue[call[k].pending].content
  BY <1>0, <1>2 DEF Kept, ExtractionOf
<1>4. QED BY <1>0, <1>1, <1>3 DEF Kept

\* A call that is past its confirmation made it, or found it, in its own step.
LEMMA ConfirmedStep == ASSUME IInv, [Next]_vars PROVE CallIsConfirmed'
<1>. USE DEF IInv
<1>0. Kept
  BY NothingIsTakenBack
<1>1. ASSUME NEW k \in Clerks, call'[k].step = "confirmed"
      PROVE  \E x \in confirmations' :
               x.extraction = ExtractionOf(call[k].pending)' /\ x.facts = call'[k].facts
  <2>1. /\ ~At(k, "idle")
        /\ call'[k].pending = call[k].pending /\ call'[k].facts = call[k].facts
        /\ At(k, "confirmed") \/ ResumeConfirmation(k) \/ CommitConfirm(k)
    BY <1>1, CallMoves DEF CallMovesTo, Keeps, Advances, Idle, At
  <2>2. call[k].pending \in Pendings /\ queue[call[k].pending].status # "absent"
    BY <2>1, CallIsTyped DEF RowsAreRead, Call
  <2>3. PICK x \in confirmations' :
          x.extraction = ExtractionOf(call[k].pending) /\ x.facts = call[k].facts
    <3>1. CASE At(k, "confirmed")
      BY <1>0, <3>1 DEF Kept, CallIsConfirmed
    <3>2. CASE ResumeConfirmation(k)
      BY <3>2 DEF ResumeConfirmation, Resumable
    <3>3. CASE CommitConfirm(k)
      <4>1. [extraction |-> ExtractionOf(call[k].pending), key |-> KeyOf(k),
             facts |-> call[k].facts, link |-> NewLink(k)] \in confirmations'
        BY <3>3 DEF CommitConfirm
      <4>2. QED BY <4>1
    <3>4. QED BY <2>1, <3>1, <3>2, <3>3
  <2>4. /\ queue'[call[k].pending].content = queue[call[k].pending].content
        /\ queue'[call[k].pending].read = queue[call[k].pending].read
    BY <1>0, <2>2 DEF Kept, ExtractionOf
  <2>5. QED BY <2>1, <2>3, <2>4 DEF ExtractionOf
<1>2. ASSUME NEW k \in Clerks, call'[k].step = "saved"
      PROVE  /\ call'[k].document \in DOMAIN invoices'
             /\ invoices'[call'[k].document].pending = call'[k].pending
  <2>1. CASE call'[k] = call[k]
    BY <1>0, <1>2, <2>1 DEF Kept, CallIsConfirmed, At
  <2>2. CASE call'[k] # call[k]
    <3>1. /\ SaveInvoice(k) /\ call'[k].document = Len(invoices) + 1
          /\ call'[k].pending = call[k].pending
      BY <1>2, <2>2, CallMoves DEF CallMovesTo, Keeps, Advances, Idle
    <3>2. /\ DOMAIN invoices' = 1..(Len(invoices) + 1)
          /\ invoices'[Len(invoices) + 1].pending = call[k].pending
      BY <3>1, SaveEffect
    <3>3. Len(invoices) \in Nat
      BY SequencesAreTyped
    <3>4. QED BY <3>1, <3>2, <3>3
  <2>3. QED BY <2>1, <2>2
<1>3. QED BY <1>1, <1>2 DEF CallIsConfirmed, At, ExtractionOf

\* The duplicate check holds for the invoices it saw, however many follow.
LEMMA SearchedStep == ASSUME IInv, [Next]_vars PROVE SearchedHoldNoDuplicate'
<1>. USE DEF IInv
<1>0. Kept
  BY NothingIsTakenBack
<1>1. /\ Len(invoices) \in Nat /\ DOMAIN invoices = 1..Len(invoices)
  BY SequencesAreTyped
<1>2. Len(invoices') \in Nat /\ DOMAIN invoices' = 1..Len(invoices')
  BY TypeOKStep, LenProperties DEF TypeOK
<1>. SUFFICES ASSUME NEW k \in Clerks, call'[k].step \in Searched
     PROVE  /\ call'[k].since <= Len(invoices')
            /\ \/ call'[k].waived
               \/ Identity[call'[k].facts] = NoIdentity
               \/ \A i \in DOMAIN invoices' : i <= call'[k].since =>
                    Identity[invoices'[i].facts] # Identity[call'[k].facts]
  BY DEF SearchedHoldNoDuplicate
<1>3. /\ call'[k].since \in Nat /\ call'[k].since <= Len(invoices)
      /\ \/ call'[k].waived
         \/ Identity[call'[k].facts] = NoIdentity
         \/ \A i \in DOMAIN invoices : i <= call'[k].since =>
              Identity[invoices[i].facts] # Identity[call'[k].facts]
  <2>1. call'[k] \in Call
    BY CallMoves DEF Searched, Idle
  <2>2. call'[k].since \in Nat
    BY <2>1 DEF Call
  <2>3. CASE call'[k] = call[k]
    BY <2>2, <2>3 DEF SearchedHoldNoDuplicate
  <2>4. CASE call'[k] # call[k]
    <3>1. /\ call'[k].facts = call[k].facts /\ call'[k].waived = call[k].waived
          /\ \/ call'[k].since = Len(invoices) /\ (call[k].waived \/ ~IsDuplicate(call[k].facts))
             \/ call'[k].since = call[k].since /\ call[k].step \in Searched
      BY <2>4, CallMoves DEF CallMovesTo, Keeps, Advances, Idle, Searched
    <3>2. CASE call'[k].since = Len(invoices) /\ (call[k].waived \/ ~IsDuplicate(call[k].facts))
      BY <1>1, <3>1, <3>2 DEF IsDuplicate
    <3>3. CASE call'[k].since = call[k].since /\ call[k].step \in Searched
      BY <2>2, <3>1, <3>3 DEF SearchedHoldNoDuplicate
    <3>4. QED BY <3>1, <3>2, <3>3
  <2>5. QED BY <2>3, <2>4
<1>4. call'[k].since <= Len(invoices')
  BY <1>0, <1>1, <1>2, <1>3 DEF Kept
<1>5. \A i \in DOMAIN invoices' : i <= call'[k].since =>
        i \in DOMAIN invoices /\ invoices'[i] = invoices[i]
  BY <1>0, <1>1, <1>2, <1>3 DEF Kept
<1>6. QED BY <1>3, <1>4, <1>5

\* The new confirmation is the only one of its facts, and points at what the same
\* step wrote; a row follows a confirmation of its own extraction.
LEMMA EvidenceStep == ASSUME IInv, [Next]_vars PROVE EvidenceStands'
<1>. USE DEF IInv
<1>0. Kept
  BY NothingIsTakenBack
<1>1. ASSUME NEW x \in confirmations'
      PROVE  /\ x.link.document \in DOMAIN documents'
             /\ documents'[x.link.document].content = x.extraction.content
             /\ x.link.revision \in DOMAIN documents'[x.link.document].revisions
             /\ documents'[x.link.document].revisions[x.link.revision] = x.facts
  <2>1. CASE x \in confirmations
    BY <1>0, <2>1 DEF Kept, EvidenceStands
  <2>2. CASE x \notin confirmations
    <3>1. PICK k \in Clerks : CommitConfirm(k)
      BY <2>2, WhoChanges
    <3>2. x = [extraction |-> ExtractionOf(call[k].pending), key |-> KeyOf(k),
               facts |-> call[k].facts, link |-> NewLink(k)]
      BY <2>2, <3>1 DEF CommitConfirm
    <3>3. /\ x.extraction.content = queue[call[k].pending].content
          /\ x.facts = call[k].facts /\ x.link = NewLink(k)
      BY <3>2 DEF ExtractionOf
    <3>4. /\ NewLink(k).document \in DOMAIN documents'
          /\ documents'[NewLink(k).document].content = queue[call[k].pending].content
          /\ NewLink(k).revision \in DOMAIN documents'[NewLink(k).document].revisions
          /\ documents'[NewLink(k).document].revisions[NewLink(k).revision] = call[k].facts
      BY <3>1, CommitEffect
    <3>5. QED BY <3>3, <3>4
  <2>3. QED BY <2>1, <2>2
<1>2. ASSUME NEW p \in Pendings, queue'[p].confirmed # NoLink
      PROVE  \E x \in confirmations' :
               x.extraction = ExtractionOf(p)' /\ x.link = queue'[p].confirmed
  <2>1. CASE queue'[p] = queue[p]
    <3>1. PICK x \in confirmations :
            x.extraction = ExtractionOf(p) /\ x.link = queue[p].confirmed
      BY <1>2, <2>1 DEF EvidenceStands
    <3>2. ExtractionOf(p)' = ExtractionOf(p)
      BY <2>1 DEF ExtractionOf
    <3>3. QED BY <1>0, <2>1, <3>1, <3>2 DEF Kept
  <2>2. CASE queue'[p] # queue[p]
    <3>1. queue[p].status # "absent" /\ Recorded(p)
      BY <1>2, <2>2, QueueMoves DEF RowMoves
    <3>2. ExtractionOf(p)' = ExtractionOf(p)
      BY <1>0, <3>1 DEF Kept
    <3>3. QED BY <1>0, <1>2, <3>1, <3>2 DEF Recorded, Kept, EvidenceStands
  <2>3. QED BY <2>1, <2>2
<1>3. QED BY <1>1, <1>2 DEF EvidenceStands

LEMMA InvoiceStep == ASSUME IInv, [Next]_vars PROVE InvoiceIsConfirmed'
<1>. USE DEF IInv
<1>0. Kept
  BY NothingIsTakenBack
<1>1. ASSUME NEW i \in DOMAIN invoices'
      PROVE  \E x \in confirmations' :
               /\ x.extraction = ExtractionOf(invoices[i].pending)'
               /\ x.facts = invoices'[i].facts
  <2>1. PICK p \in Pendings : /\ p = invoices'[i].pending /\ queue[p].status # "absent"
                              /\ \E x \in confirmations :
                                    x.extraction = ExtractionOf(p) /\ x.facts = invoices'[i].facts
    <3>1. CASE i \in DOMAIN invoices
      <4>1. invoices'[i] = invoices[i] /\ invoices[i].pending \in Pendings
        BY <1>0, <3>1, SequencesAreTyped DEF Kept, Invoice
      <4>2. QED BY <3>1, <4>1 DEF RowsAreRead, InvoiceIsConfirmed
    <3>2. CASE i \notin DOMAIN invoices
      <4>1. PICK k \in Clerks : SaveInvoice(k)
        BY <1>1, <3>2, WhoChanges
      <4>2. invoices'[i].pending = call[k].pending /\ invoices'[i].facts = call[k].facts
        <5>1. /\ DOMAIN invoices' = 1..(Len(invoices) + 1)
              /\ invoices'[Len(invoices) + 1].pending = call[k].pending
              /\ invoices'[Len(invoices) + 1].facts = call[k].facts
          BY <4>1, SaveEffect
        <5>2. DOMAIN invoices = 1..Len(invoices) /\ Len(invoices) \in Nat
          BY SequencesAreTyped
        <5>3. QED BY <1>1, <3>2, <5>1, <5>2
      <4>3. At(k, "confirmed") /\ call[k].pending \in Pendings
        BY <4>1, CallIsTyped DEF SaveInvoice, At, Call
      <4>4. QED BY <4>2, <4>3 DEF CallIsConfirmed, RowsAreRead, At
    <3>3. QED BY <3>1, <3>2
  <2>2. ExtractionOf(p)' = ExtractionOf(p)
    BY <1>0, <2>1 DEF Kept
  <2>3. QED BY <1>0, <2>1, <2>2 DEF Kept, ExtractionOf
<1>2. ASSUME NEW x \in confirmations', NEW y \in confirmations',
             x.extraction = y.extraction, x.facts = y.facts
      PROVE  x = y
  <2>1. CASE UNCHANGED confirmations
    BY <1>2, <2>1 DEF InvoiceIsConfirmed
  <2>2. ASSUME NEW k \in Clerks, CommitConfirm(k) PROVE x = y
    <3>1. PICK e : /\ confirmations' = confirmations \cup {e}
                   /\ e.extraction = ExtractionOf(call[k].pending) /\ e.facts = call[k].facts
      <4>1. PICK e : /\ e = [extraction |-> ExtractionOf(call[k].pending), key |-> KeyOf(k),
                             facts |-> call[k].facts, link |-> NewLink(k)]
                     /\ confirmations' = confirmations \cup {e}
        BY <2>2 DEF CommitConfirm
      <4>2. e.extraction = ExtractionOf(call[k].pending) /\ e.facts = call[k].facts
        BY <4>1
      <4>3. QED BY <4>1, <4>2
    <3>2. ~FingerprintTaken(k)
      BY <2>2 DEF CommitConfirm
    <3>3. QED BY <1>2, <3>1, <3>2 DEF FingerprintTaken, InvoiceIsConfirmed
  <2>3. QED BY <2>1, <2>2, WhoChanges
<1>3. QED BY <1>1, <1>2 DEF InvoiceIsConfirmed, ExtractionOf

\* What a confirmation saw stays as it was; later documents are not among it.
LEMMA LookedStep == ASSUME IInv, [Next]_vars PROVE LookedForDocument'
<1>. USE DEF IInv
<1>0. Kept
  BY NothingIsTakenBack
<1>1. Len(documents) \in Nat /\ DOMAIN documents = 1..Len(documents)
  BY SequencesAreTyped
<1>2. Len(documents') \in Nat /\ DOMAIN documents' = 1..Len(documents')
  BY TypeOKStep, LenProperties DEF TypeOK
<1>3. Len(documents) <= Len(documents')
  <2>1. CASE Len(documents) = 0
    BY <1>1, <1>2, <2>1
  <2>2. CASE Len(documents) # 0
    BY <1>0, <1>1, <1>2, <2>2 DEF Kept
  <2>3. QED BY <2>1, <2>2
<1>. SUFFICES ASSUME NEW k \in Clerks, call'[k].step = "confirming", call'[k].document = 0
     PROVE  /\ call'[k].seen <= Len(documents')
            /\ \A i \in DOMAIN documents' : i <= call'[k].seen =>
                 documents'[i].content # queue'[call'[k].pending].content
  BY DEF LookedForDocument, At
<1>4. /\ call'[k].seen <= Len(documents) /\ ~At(k, "idle")
      /\ call'[k].pending = call[k].pending
      /\ \A i \in DOMAIN documents : i <= call'[k].seen =>
           documents[i].content # queue[call[k].pending].content
  BY <1>1, CallMoves DEF CallMovesTo, Keeps, Advances, Idle, At, LookedForDocument
<1>5. call'[k].seen \in Nat
  BY CallMoves DEF Idle, Call
<1>6. call[k].pending \in Pendings /\ queue[call[k].pending].status # "absent"
  BY <1>4, CallIsTyped DEF RowsAreRead, Call
<1>7. queue'[call[k].pending].content = queue[call[k].pending].content
  BY <1>0, <1>6 DEF Kept, ExtractionOf
<1>8. call'[k].seen <= Len(documents')
  BY <1>1, <1>2, <1>3, <1>4, <1>5
<1>9. ASSUME NEW i \in DOMAIN documents', i <= call'[k].seen
      PROVE  documents'[i].content # queue'[call'[k].pending].content
  <2>1. i \in DOMAIN documents
    BY <1>1, <1>2, <1>4, <1>5, <1>9
  <2>2. QED BY <1>0, <1>4, <1>7, <1>9, <2>1 DEF Kept
<1>10. QED BY <1>8, <1>9

LEMMA SecondStep == ASSUME IInv, [Next]_vars PROVE SecondDocumentOverlaps'
<1>. USE DEF IInv
<1>0. Kept
  BY NothingIsTakenBack
<1>1. Len(documents) \in Nat /\ DOMAIN documents = 1..Len(documents)
  BY SequencesAreTyped
<1>. SUFFICES ASSUME NEW i \in DOMAIN documents', NEW j \in DOMAIN documents', i < j,
                     documents'[i].content = documents'[j].content
     PROVE  documents'[j].since < i
  BY DEF SecondDocumentOverlaps
<1>2. CASE i \in DOMAIN documents /\ j \in DOMAIN documents
  BY <1>0, <1>2 DEF Kept, SecondDocumentOverlaps
<1>3. CASE UNCHANGED documents
  BY <1>3 DEF SecondDocumentOverlaps
<1>4. ASSUME NEW k \in Clerks, CommitConfirm(k), ~(i \in DOMAIN documents /\ j \in DOMAIN documents)
      PROVE  documents'[j].since < i
  <2>1. /\ call[k].document = 0
        /\ DOMAIN documents' = 1..(Len(documents) + 1)
        /\ documents'[Len(documents) + 1].content = queue[call[k].pending].content
        /\ documents'[Len(documents) + 1].since = call[k].seen
    BY <1>4, CommitEffect
  <2>2. j = Len(documents) + 1 /\ i \in DOMAIN documents
    BY <1>1, <1>4, <2>1
  <2>3. At(k, "confirming") /\ call[k] \in Call
    BY <1>4, CallIsTyped DEF CommitConfirm, At
  <2>4. call[k].seen \in Nat
    BY <2>3 DEF Call
  <2>5. documents[i].content = queue[call[k].pending].content
    BY <1>0, <2>1, <2>2 DEF Kept
  <2>6. ~(i <= call[k].seen)
    BY <2>1, <2>2, <2>3, <2>5 DEF LookedForDocument
  <2>7. QED BY <1>1, <2>1, <2>2, <2>4, <2>6
<1>5. QED BY <1>2, <1>3, <1>4, WhoChanges

LEMMA DuplicatesStep == ASSUME IInv, [Next]_vars PROVE DuplicatesOverlap'
<1>. USE DEF IInv
<1>0. Kept
  BY NothingIsTakenBack
<1>1. Len(invoices) \in Nat /\ DOMAIN invoices = 1..Len(invoices)
  BY SequencesAreTyped
<1>. SUFFICES ASSUME NEW i \in DOMAIN invoices', NEW j \in DOMAIN invoices', i < j,
                     Identity[invoices'[i].facts] = Identity[invoices'[j].facts],
                     Identity[invoices'[j].facts] # NoIdentity
     PROVE  invoices'[j].waived \/ invoices'[j].since < i
  BY DEF DuplicatesOverlap
<1>2. CASE UNCHANGED invoices
  BY <1>2 DEF DuplicatesOverlap
<1>3. ASSUME NEW k \in Clerks, SaveInvoice(k)
      PROVE  invoices'[j].waived \/ invoices'[j].since < i
  <2>1. /\ DOMAIN invoices' = 1..(Len(invoices) + 1)
        /\ invoices'[Len(invoices) + 1].facts = call[k].facts
        /\ invoices'[Len(invoices) + 1].since = call[k].since
        /\ invoices'[Len(invoices) + 1].waived = call[k].waived
    BY <1>3, SaveEffect
  <2>2. i \in DOMAIN invoices /\ invoices'[i] = invoices[i]
    BY <1>0, <1>1, <2>1 DEF Kept
  <2>3. CASE j \in DOMAIN invoices
    <3>1. invoices'[j] = invoices[j]
      BY <1>0, <2>3 DEF Kept
    <3>2. QED BY <2>2, <2>3, <3>1 DEF DuplicatesOverlap
  <2>4. CASE j = Len(invoices) + 1
    <3>1. call[k].step \in Searched /\ call[k] \in Call
      BY <1>3, CallIsTyped DEF SaveInvoice, At, Searched
    <3>2. call[k].since \in Nat
      BY <3>1 DEF Call
    <3>3. call[k].waived \/ ~(i <= call[k].since)
      BY <2>1, <2>2, <2>4, <3>1 DEF SearchedHoldNoDuplicate
    <3>4. i \in Nat
      BY <1>1, <2>2
    <3>5. QED BY <2>1, <2>4, <3>2, <3>3, <3>4
  <2>5. QED BY <1>1, <2>1, <2>3, <2>4
<1>4. QED BY <1>2, <1>3, WhoChanges

----------------------------------------------------------------------------
(***************************************************************************)
(* The invariant.                                                          *)
(***************************************************************************)
LEMMA IInvInit == Init => IInv
<1>. SUFFICES ASSUME Init PROVE IInv
  OBVIOUS
<1>1. /\ documents \in Seq(Document) /\ invoices \in Seq(Invoice)
      /\ Len(invoices) = 0 /\ DOMAIN invoices = {}
  BY EmptySeq, LenProperties DEF Init
<1>2. TypeOK
  BY <1>1, BoundAssumption DEF Init, TypeOK, Row, Absent, Statuses
<1>3. RowsAreRead /\ DocumentIsHeld /\ CallIsConfirmed /\ SearchedHoldNoDuplicate
      /\ LookedForDocument
  BY <1>1 DEF Init, RowsAreRead, DocumentIsHeld, CallIsConfirmed, SearchedHoldNoDuplicate,
    LookedForDocument, Absent, Idle, At, Searched
<1>4. EvidenceStands /\ InvoiceIsConfirmed /\ SecondDocumentOverlaps /\ DuplicatesOverlap
  BY <1>1 DEF Init, EvidenceStands, InvoiceIsConfirmed, SecondDocumentOverlaps,
    DuplicatesOverlap, Absent
<1>5. Len(invoices) <= MaxInvoices
  BY <1>1, BoundAssumption
<1>6. QED BY <1>2, <1>3, <1>4, <1>5 DEF IInv

LEMMA IInvStep == IInv /\ [Next]_vars => IInv'
<1>. SUFFICES ASSUME IInv, [Next]_vars PROVE IInv'
  OBVIOUS
<1>1. QED
  BY TypeOKStep, RowsStep, DocumentStep, ConfirmedStep, SearchedStep, LookedStep,
    EvidenceStep, InvoiceStep, SecondStep, DuplicatesStep DEF IInv

\* Every reachable state satisfies the inductive invariant: what a call read of a
\* row still describes its document, what it confirmed stays confirmed, and the
\* rows, evidence and invoices agree.
THEOREM Invariant == Spec => []IInv
BY IInvInit, IInvStep, PTL DEF Spec

\* Every variable keeps its type.
THEOREM TypeCorrect == Spec => []TypeOK
<1>1. IInv => TypeOK
  BY DEF IInv
<1>2. QED BY <1>1, Invariant, PTL

\* Any number of uploads, readings and approvals: every confirmation points at the
\* revision of its document that states its facts, and every row at one of its own.
THEOREM EvidenceIsTraceable == Spec => []EvidenceStands
<1>1. IInv => EvidenceStands
  BY DEF IInv
<1>2. QED BY <1>1, Invariant, PTL

\* Any number of approvals, interrupted anywhere and repeated: what is saved was
\* confirmed, and confirmed once.
THEOREM SavedIsConfirmed == Spec => []InvoiceIsConfirmed
<1>1. IInv => InvoiceIsConfirmed
  BY DEF IInv
<1>2. QED BY <1>1, Invariant, PTL

\* Any number of uploads of one artifact, confirmed any number of times: a second
\* canonical document comes only from confirmations that overlapped.
THEOREM OneDocumentUnlessOverlap == Spec => []SecondDocumentOverlaps
<1>1. IInv => SecondDocumentOverlaps
  BY DEF IInv
<1>2. QED BY <1>1, Invariant, PTL

\* Two approvals that do not overlap never duplicate silently.
THEOREM SilentDuplicatesOverlap == Spec => []DuplicatesOverlap
<1>1. IInv => DuplicatesOverlap
  BY DEF IInv
<1>2. QED BY <1>1, Invariant, PTL
=============================================================================
