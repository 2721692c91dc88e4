-------------------------- MODULE ReviewScreens_proofs -------------------------
(***************************************************************************)
(* The safety of ReviewScreens for every set of documents, however they    *)
(* are read, and any number of inputs, runs and calls.  A run of the       *)
(* results screen acts on what its rows said at the click; the argument is *)
(* that what makes a row approvable is never taken back afterwards: a      *)
(* settled type stays settled, an affirmed field affirmed, and the ledger  *)
(* only grows. What the board lists as ready posts because a batch only    *)
(* ever confirms what was stored.                                          *)
(***************************************************************************)
EXTENDS ReviewScreens, SequenceTheorems, TLAPS

Edit == {Untouched} \cup UNION {Typed[f] : f \in DOMAIN Typed}
Value == Edit \cup {x[d].fields[f].value : x \in Samples, d \in Docs, f \in ReviewableFields}
Outcome == {None, "approved", "blocked", "error"}
Row == [read : {"extracting", "success", "error", "discarded"},
        edited : [ReviewableFields -> Edit], affirmed : SUBSET ReviewableFields,
        settled : BOOLEAN, type : Types, outcome : Outcome, armed : BOOLEAN]
Request == [doc : Docs, extraction : {x[d] : x \in Samples, d \in Docs},
            edited : [ReviewableFields -> Value], type : Types, proceed : BOOLEAN]
Patch == {None} \cup [outcome : Outcome, armed : BOOLEAN]
Run == [queued : SUBSET Docs, direct : SUBSET Request,
        results : [Docs -> Patch], patch : [Docs -> Patch]]

\* A sequence of whatever is in it.
IsSeq(s) == \E S : s \in Seq(S)

TypeOK ==
  /\ readings \in Samples
  /\ IsSeq(ledger)
  /\ rows \in [Docs -> Row]
  /\ run \in {None} \cup Run

\* A person vouched for field f of document d having value v, or it was read
\* for certain.
Vouched(d, f, v) ==
  \/ readings[d].fields[f].confidence >= CriticalThreshold
  \/ IF v = readings[d].fields[f].value THEN f \in rows[d].affirmed ELSE v # Blank

\* What a run is about to send was approvable, and still is.
RequestsStand ==
  run # None => \A r \in run.direct :
    /\ r.extraction = readings[r.doc]
    /\ readings[r.doc].typeConfidence < CriticalThreshold => rows[r.doc].settled
    /\ \A f \in CriticalFields(r.type) :
         Vouched(r.doc, f, FinalValues(r.extraction, r.edited)[f])

\* A run holds an approval only of what is in the ledger.
AnswersAreTrue ==
  run # None => \A d \in Docs :
    /\ run.results[d] # None /\ run.results[d].outcome = "approved" => InLedger(d)
    /\ run.patch[d] # None /\ run.patch[d].outcome = "approved" => InLedger(d)

\* An invoice of the results screen is of a document of the upload.
LedgerDocs ==
  \A i \in DOMAIN ledger : ledger[i].by \in {"results", "bulk"} => ledger[i].doc \in Docs

\* The board lists documents, and what a batch confirmed is what it would
\* confirm again.
ConfirmedStored ==
  /\ items \subseteq Docs
  /\ DOMAIN confirmed = Docs
  /\ \A d \in Docs : /\ DOMAIN confirmed[d] = Routes
                     /\ confirmed[d]["bulk-approval"] \in {None, BulkValues(d)}

IInv ==
  /\ TypeOK
  /\ ConfirmedStored
  /\ RequestsStand
  /\ AnswersAreTrue
  /\ LedgerDocs
  /\ ResultsAreVerified
  /\ ReportedIsDone

----------------------------------------------------------------------------
(***************************************************************************)
(* The ledger.                                                             *)
(***************************************************************************)
LEMMA AppendGrows ==
  ASSUME NEW s, IsSeq(s), NEW e
  PROVE  /\ IsSeq(Append(s, e))
         /\ DOMAIN Append(s, e) = DOMAIN s \cup {Len(s) + 1}
         /\ \A i \in DOMAIN s : Append(s, e)[i] = s[i]
         /\ Append(s, e)[Len(s) + 1] = e
<1>1. PICK R : s \in Seq(R)
  BY DEF IsSeq
<1>2. s \in Seq(R \cup {e}) /\ e \in R \cup {e}
  BY <1>1, SeqMonotonic
<1>3. /\ Append(s, e) \in Seq(R \cup {e}) /\ Len(Append(s, e)) = Len(s) + 1
      /\ \A i \in 1..Len(s) : Append(s, e)[i] = s[i]
      /\ Append(s, e)[Len(s) + 1] = e
  BY <1>2, AppendProperties
<1>4. /\ DOMAIN s = 1..Len(s) /\ DOMAIN Append(s, e) = 1..(Len(s) + 1) /\ Len(s) \in Nat
  BY <1>2, <1>3, LenProperties
<1>5. QED BY <1>3, <1>4 DEF IsSeq

\* The ledger stays, or gets one invoice more.
Gets(invoice) == IsSeq(ledger) /\ ledger' = Append(ledger, invoice)

LEMMA LedgerGrows ==
  ASSUME NEW invoice, Gets(invoice)
  PROVE  /\ IsSeq(ledger')
         /\ \A d : InLedger(d) => InLedger(d)'
         /\ \E i \in DOMAIN ledger' : ledger'[i].doc = invoice.doc
         /\ \A i \in DOMAIN ledger' :
              \/ ledger'[i] = invoice
              \/ i \in DOMAIN ledger /\ ledger'[i] = ledger[i]
<1>1. /\ IsSeq(ledger')
      /\ DOMAIN ledger' = DOMAIN ledger \cup {Len(ledger) + 1}
      /\ \A i \in DOMAIN ledger : ledger'[i] = ledger[i]
      /\ ledger'[Len(ledger) + 1] = invoice
  BY AppendGrows DEF Gets
<1>2. \A d : InLedger(d) => InLedger(d)'
  BY <1>1 DEF InLedger
<1>3. \E i \in DOMAIN ledger' : ledger'[i].doc = invoice.doc
  BY <1>1
<1>4. QED BY <1>1, <1>2, <1>3

\* What a request for an invoice may do to the ledger: nothing, unless it is
\* approved; only then is it answered so.
LEMMA ApproveMoves ==
  ASSUME IsSeq(ledger), NEW r, NEW by, NEW answer, ServeApprove(r, by, answer)
  PROVE  /\ readings' = readings
         /\ answer = "approved" => Gets(InvoiceOf(r, by))
         /\ ledger' = ledger \/ (ApproveVerdict(r) = "approved" /\ Gets(InvoiceOf(r, by)))
<1>1. /\ readings' = readings
      /\ ledger' = ledger \/ ledger' = Append(ledger, InvoiceOf(r, by))
  BY DEF ServeApprove, SavesInvoice, OnlyConfirms, routeVars
<1>2. CASE ApproveVerdict(r) = "approved"
  <2>1. answer = "approved" => ledger' = Append(ledger, InvoiceOf(r, by))
    BY <1>2 DEF ServeApprove, SavesInvoice
  <2>2. QED BY <1>1, <1>2, <2>1 DEF Gets
<1>3. CASE ApproveVerdict(r) # "approved"
  <2>1. answer # "approved" /\ ledger' = ledger
    BY <1>3 DEF ServeApprove, routeVars
  <2>2. QED BY <1>1, <2>1
<1>4. QED BY <1>2, <1>3

LEMMA BulkMoves ==
  ASSUME IsSeq(ledger), NEW d \in Docs, NEW answer, ServeBulk(d, answer)
  PROVE  /\ readings' = readings
         /\ answer = "approved" => Gets(InvoiceOf(StoredRequest(d), "bulk"))
         /\ \/ ledger' = ledger
            \/ BulkVerdict(d) = "approved" /\ Gets(InvoiceOf(StoredRequest(d), "bulk"))
<1>1. /\ readings' = readings
      /\ ledger' = ledger \/ ledger' = Append(ledger, InvoiceOf(StoredRequest(d), "bulk"))
  BY DEF ServeBulk, SavesInvoice, OnlyConfirms, routeVars
<1>2. CASE BulkVerdict(d) = "approved"
  <2>1. answer = "approved" => ledger' = Append(ledger, InvoiceOf(StoredRequest(d), "bulk"))
    BY <1>2 DEF ServeBulk, SavesInvoice
  <2>2. QED BY <1>1, <1>2, <2>1 DEF Gets
<1>3. CASE BulkVerdict(d) # "approved"
  <2>1. answer # "approved" /\ ledger' = ledger
    BY <1>3 DEF ServeBulk, routeVars
  <2>2. QED BY <1>1, <2>1
<1>4. QED BY <1>2, <1>3
----------------------------------------------------------------------------
(***************************************************************************)
(* The rows and the run.                                                   *)
(***************************************************************************)
\* One row changes, and what its person vouched for stays vouched for.
RowKeeps(d, row) ==
  /\ row \in Row /\ row.outcome = rows[d].outcome
  /\ rows[d].settled => row.settled
  /\ rows[d].affirmed \subseteq row.affirmed

\* Which actions touch the rows, and which the run.
LEMMA WhoChanges ==
  ASSUME [Next]_vars
  PROVE  /\ \/ UNCHANGED rows
            \/ RunEnds
            \/ \E d \in Docs : \/ Arrives(d) \/ ReadFails(d) \/ Discards(d)
                               \/ \E f \in DOMAIN Typed : Affirms(d, f)
                               \/ \E f \in DOMAIN Typed : \E v \in Typed[f] : TypesIn(d, f, v)
                               \/ \E type \in Types : Settles(d, type)
         /\ \/ UNCHANGED run
            \/ run' = None
            \/ \E S \in SUBSET {d \in Docs : Actionable(d)} : Click(S)
            \/ \E d \in Docs : ServesQueued(d)
            \/ Busy /\ \E r \in run.direct : ServesDirect(r)
         /\ \/ UNCHANGED <<readings, confirmed, ledger>>
            \/ \E d \in Docs : ServesQueued(d)
            \/ Busy /\ \E r \in run.direct : ServesDirect(r)
            \/ \E c \in Calls, d \in Docs :
                 ServesNext(c, d) \/ ServesEdit(c, d) \/ ServesBatch(c, d)
         /\ \/ approved' \subseteq approved
            \/ \E c \in Calls, d \in Docs : ServesNext(c, d) \/ ServesEdit(c, d)
         /\ items' = items \/ items' = Pending \/ items' = Pending'
<1>1. CASE UNCHANGED vars
  BY <1>1 DEF vars, routeVars, screenVars, pageVars
<1>2. CASE ResultsNext /\ UNCHANGED pageVars
  BY <1>2 DEF ResultsNext, routeVars, pageVars, Arrives, ReadFails, StreamEnds, StreamBreaks,
    TypesIn, Affirms, Settles, Click, ServesQueued, ServesDirect, RunEnds, RunThrows, Discards,
    ServeDelete
<1>3. CASE PageNext /\ UNCHANGED screenVars
  <2>1. UNCHANGED <<rows, run>>
    BY <1>3 DEF screenVars
  <2>2. \/ UNCHANGED <<readings, confirmed, ledger>>
        \/ \E c \in Calls, d \in Docs :
             ServesNext(c, d) \/ ServesEdit(c, d) \/ ServesBatch(c, d)
    BY <1>3 DEF PageNext, routeVars, Loads, OpensPanel, Rejects, Approves, ApprovesBatch, Edits,
      Finishes, Throws, ServeDelete
  <2>3. \/ approved' \subseteq approved
        \/ \E c \in Calls, d \in Docs : ServesNext(c, d) \/ ServesEdit(c, d)
    BY <1>3 DEF PageNext, Loads, OpensPanel, Rejects, Approves, ApprovesBatch, Edits,
      Finishes, Throws, ServesBatch
  <2>4. items' = items \/ items' = Pending \/ items' = Pending'
    BY <1>3 DEF PageNext, Loads, OpensPanel, Rejects, Approves, ApprovesBatch, Edits,
      Finishes, Throws, ServesNext, ServesEdit, ServesBatch
  <2>5. QED BY <2>1, <2>2, <2>3, <2>4
<1>4. QED BY <1>1, <1>2, <1>3 DEF Next

LEMMA RowMoves ==
  ASSUME TypeOK, [Next]_vars
  PROVE  /\ rows' \in [Docs -> Row]
         /\ \A d \in Docs :
              /\ rows[d].settled => rows'[d].settled
              /\ rows[d].affirmed \subseteq rows'[d].affirmed
              /\ \/ rows'[d].outcome = rows[d].outcome
                 \/ /\ run # None
                    /\ \/ run.results[d] # None /\ rows'[d].outcome = run.results[d].outcome
                       \/ run.patch[d] # None /\ rows'[d].outcome = run.patch[d].outcome
<1>0. rows \in [Docs -> Row]
  BY DEF TypeOK
<1>1. CASE UNCHANGED rows
  BY <1>0, <1>1
<1>2. ASSUME NEW d \in Docs, NEW row, RowKeeps(d, row), rows' = [rows EXCEPT ![d] = row]
      PROVE  /\ rows' \in [Docs -> Row]
             /\ \A e \in Docs : /\ rows[e].settled => rows'[e].settled
                                /\ rows[e].affirmed \subseteq rows'[e].affirmed
                                /\ rows'[e].outcome = rows[e].outcome
  BY <1>0, <1>2 DEF RowKeeps
<1>3. ASSUME NEW d \in Docs, Arrives(d) \/ ReadFails(d) \/ Discards(d), rows' # rows
      PROVE  \E row : RowKeeps(d, row) /\ rows' = [rows EXCEPT ![d] = row]
  <2>1. PICK how \in {"success", "error", "discarded"} : rows' = [rows EXCEPT ![d].read = how]
    BY <1>3 DEF Arrives, ReadFails, Discards
  <2>2. PICK row : row = [rows[d] EXCEPT !.read = how] /\ rows' = [rows EXCEPT ![d] = row]
    BY <1>0, <2>1
  <2>3. RowKeeps(d, row)
    BY <1>0, <2>2 DEF RowKeeps, Row
  <2>4. QED BY <2>2, <2>3
<1>4. ASSUME NEW d \in Docs, NEW f \in DOMAIN Typed, NEW v \in Typed[f], TypesIn(d, f, v)
      PROVE  \E row : RowKeeps(d, row) /\ rows' = [rows EXCEPT ![d] = row]
  <2>1. PICK edited : /\ edited = [rows[d].edited EXCEPT ![f] = v]
                      /\ rows' = [rows EXCEPT ![d].edited = edited]
    BY <1>0, <1>4 DEF TypesIn
  <2>2. v \in Edit
    BY DEF Edit
  <2>3. edited \in [ReviewableFields -> Edit]
    BY <1>0, <2>1, <2>2 DEF Row
  <2>4. PICK row : row = [rows[d] EXCEPT !.edited = edited] /\ rows' = [rows EXCEPT ![d] = row]
    BY <1>0, <2>1
  <2>5. RowKeeps(d, row)
    BY <1>0, <2>3, <2>4 DEF RowKeeps, Row
  <2>6. QED BY <2>4, <2>5
<1>5. ASSUME NEW d \in Docs, NEW f \in DOMAIN Typed, Affirms(d, f)
      PROVE  \E row : RowKeeps(d, row) /\ rows' = [rows EXCEPT ![d] = row]
  <2>1. PICK affirmed : /\ affirmed = rows[d].affirmed \cup {f}
                        /\ rows' = [rows EXCEPT ![d].affirmed = affirmed]
    BY <1>0, <1>5 DEF Affirms
  <2>2. affirmed \in SUBSET ReviewableFields
    BY <1>0, <2>1, ScreenBounds DEF Row
  <2>3. PICK row : row = [rows[d] EXCEPT !.affirmed = affirmed] /\ rows' = [rows EXCEPT ![d] = row]
    BY <1>0, <2>1
  <2>4. /\ row \in Row /\ row.affirmed = affirmed
        /\ row.outcome = rows[d].outcome /\ row.settled = rows[d].settled
    BY <1>0, <2>2, <2>3 DEF Row
  <2>5. rows[d].affirmed \subseteq affirmed
    BY <2>1
  <2>6. QED BY <2>3, <2>4, <2>5 DEF RowKeeps
<1>6. ASSUME NEW d \in Docs, NEW type \in Types, Settles(d, type)
      PROVE  \E row : RowKeeps(d, row) /\ rows' = [rows EXCEPT ![d] = row]
  <2>1. PICK row : /\ row = [rows[d] EXCEPT !.settled = TRUE, !.type = type]
                   /\ rows' = [rows EXCEPT ![d] = row]
    BY <1>0, <1>6 DEF Settles
  <2>2. RowKeeps(d, row)
    BY <1>0, <2>1 DEF RowKeeps, Row
  <2>3. QED BY <2>1, <2>2
<1>7. CASE RunEnds
  <2>1. PICK results \in {run.results, NoPatch} :
          rows' = Patched([d \in Docs |-> IF results[d] # None THEN results[d] ELSE run.patch[d]])
    BY <1>7 DEF RunEnds
  <2>2. run \in Run /\ run # None
    BY <1>7 DEF RunEnds, Busy, TypeOK
  <2>3. /\ run.results \in [Docs -> Patch] /\ run.patch \in [Docs -> Patch]
        /\ \A d \in Docs : NoPatch[d] = None
    BY <2>2 DEF Run, NoPatch
  <2>4. PICK patch : /\ patch = [d \in Docs |-> IF results[d] # None THEN results[d]
                                                ELSE run.patch[d]]
                     /\ rows' = Patched(patch)
    BY <2>1
  <2>5. ASSUME NEW d \in Docs
        PROVE  /\ rows'[d] \in Row
               /\ rows[d].settled => rows'[d].settled
               /\ rows[d].affirmed \subseteq rows'[d].affirmed
               /\ \/ rows'[d].outcome = rows[d].outcome
                  \/ run.results[d] # None /\ rows'[d].outcome = run.results[d].outcome
                  \/ run.patch[d] # None /\ rows'[d].outcome = run.patch[d].outcome
    <3>1. rows[d] \in Row
      BY <1>0
    <3>2. patch[d] \in Patch /\ (patch[d] # None =>
            \/ run.results[d] # None /\ patch[d] = run.results[d]
            \/ patch[d] = run.patch[d])
      BY <2>1, <2>3, <2>4
    <3>3. rows'[d] = IF patch[d] = None THEN rows[d]
                     ELSE [rows[d] EXCEPT !.outcome = patch[d].outcome, !.armed = patch[d].armed]
      BY <2>4 DEF Patched
    <3>4. CASE patch[d] = None
      BY <3>1, <3>3, <3>4
    <3>5. CASE patch[d] # None
      <4>1. patch[d].outcome \in Outcome /\ patch[d].armed \in BOOLEAN
        BY <3>2, <3>5 DEF Patch
      <4>2. /\ rows'[d] \in Row /\ rows'[d].outcome = patch[d].outcome
            /\ rows'[d].settled = rows[d].settled /\ rows'[d].affirmed = rows[d].affirmed
        <5>1. PICK outcome \in Outcome, armed \in BOOLEAN :
                outcome = patch[d].outcome /\ armed = patch[d].armed
          BY <4>1
        <5>2. rows'[d] = [rows[d] EXCEPT !.outcome = outcome, !.armed = armed]
          BY <3>3, <3>5, <5>1
        <5>3. QED BY <3>1, <5>1, <5>2 DEF Row
      <4>3. QED BY <3>2, <3>5, <4>2
    <3>6. QED BY <3>4, <3>5
  <2>6. rows' = [d \in Docs |-> rows'[d]]
    BY <2>4 DEF Patched
  <2>7. rows' \in [Docs -> Row]
    BY <2>5, <2>6
  <2>8. QED BY <2>2, <2>5, <2>7
<1>8. QED BY <1>1, <1>2, <1>3, <1>4, <1>5, <1>6, <1>7, WhoChanges
\* The values approved are of the fields that are reviewed.
LEMMA FinalValuesTyped ==
  ASSUME TypeOK, NEW d \in Docs, NEW edited \in [ReviewableFields -> Edit]
  PROVE  FinalValues(readings[d], edited) \in [ReviewableFields -> Value]
<1>1. \A f \in ReviewableFields : readings[d].fields[f].value \in Value /\ edited[f] \in Value
  BY DEF TypeOK, Value
<1>2. QED BY <1>1 DEF FinalValues

\* Where what a run holds comes from: the click, or an answer.
Carries(patch, patches) ==
  \A d \in Docs : \/ patches[d] = None
                  \/ run # None /\ patches[d] = patch[d]
                  \/ patches[d].outcome = "approved" => InLedger(d)'

LEMMA RunMoves ==
  ASSUME TypeOK, [Next]_vars
  PROVE  /\ run' \in {None} \cup Run
         /\ run' # None =>
              /\ \A r \in run'.direct : \/ run # None /\ r \in run.direct
                                        \/ \E d \in Docs : Approvable(d) /\ r = DirectRequest(d)
              /\ Carries(run.results, run'.results)
              /\ Carries(run.patch, run'.patch)
<1>0. run \in {None} \cup Run
  BY DEF TypeOK
<1>1. CASE UNCHANGED run \/ run' = None
  BY <1>0, <1>1 DEF Carries
<1>2. ASSUME NEW S \in SUBSET {d \in Docs : Actionable(d)}, Click(S)
      PROVE  /\ run' \in Run
             /\ \A r \in run'.direct : \E d \in Docs : Approvable(d) /\ r = DirectRequest(d)
             /\ Carries(run.results, run'.results)
             /\ Carries(run.patch, run'.patch)
  <2>1. PICK queued, direct :
          /\ queued \in SUBSET Docs
          /\ direct = {DirectRequest(d) : d \in {e \in Planned(S) : HasHumanInput(e)}}
          /\ run' = [queued |-> queued, direct |-> direct, results |-> NoPatch, patch |-> NoPatch]
    BY <1>2 DEF Click, Planned
  <2>2. \A r \in direct : \E d \in Docs : Approvable(d) /\ r = DirectRequest(d)
    BY <2>1 DEF Planned
  <2>3. ASSUME NEW d \in Docs
        PROVE  DirectRequest(d) \in Request
    <3>1. /\ rows[d].edited \in [ReviewableFields -> Edit]
          /\ rows[d].type \in Types /\ rows[d].armed \in BOOLEAN
      BY DEF TypeOK, Row
    <3>2. readings[d] \in {x[e] : x \in Samples, e \in Docs}
      BY DEF TypeOK
    <3>3. FinalValues(readings[d], rows[d].edited) \in [ReviewableFields -> Value]
      BY <3>1, FinalValuesTyped
    <3>4. QED BY <3>1, <3>2, <3>3 DEF DirectRequest, Request
  <2>4. direct \in SUBSET Request
    BY <2>2, <2>3
  <2>5. NoPatch \in [Docs -> Patch] /\ \A d \in Docs : NoPatch[d] = None
    BY DEF NoPatch, Patch
  <2>6. QED BY <2>1, <2>2, <2>4, <2>5 DEF Run, Carries
<1>3. ASSUME NEW d \in Docs, ServesQueued(d)
      PROVE  /\ run' \in Run /\ run # None
             /\ run'.direct = run.direct
             /\ Carries(run.results, run'.results)
             /\ Carries(run.patch, run'.patch)
  <2>0. run \in Run /\ run # None
    BY <1>0, <1>3 DEF ServesQueued, Busy
  <2>1. PICK answer \in {"approved", "blocked", "error"} :
          /\ ServeBulk(d, answer)
          /\ run' = [run EXCEPT !.queued = run.queued \ {d},
                       !.results[d] = [outcome |-> answer, armed |-> rows[d].armed]]
    BY <1>3 DEF ServesQueued
  <2>2. PICK patch \in Patch : /\ patch = [outcome |-> answer, armed |-> rows[d].armed]
                               /\ patch.outcome = answer
    <3>1. PICK armed \in BOOLEAN : armed = rows[d].armed
      BY DEF TypeOK, Row
    <3>2. PICK patch : patch = [outcome |-> answer, armed |-> armed]
      OBVIOUS
    <3>3. patch \in Patch /\ patch.outcome = answer
      BY <3>2 DEF Patch, Outcome
    <3>4. QED BY <3>1, <3>2, <3>3
  <2>3. PICK queued \in SUBSET Docs, results \in [Docs -> Patch] :
          /\ results = [run.results EXCEPT ![d] = patch]
          /\ run' = [run EXCEPT !.queued = queued, !.results = results]
    <3>1. /\ run.queued \ {d} \in SUBSET Docs
          /\ [run.results EXCEPT ![d] = patch] \in [Docs -> Patch]
      BY <2>0 DEF Run
    <3>2. run' = [run EXCEPT !.queued = run.queued \ {d},
                             !.results = [run.results EXCEPT ![d] = patch]]
      BY <2>0, <2>1, <2>2 DEF Run
    <3>3. QED BY <3>1, <3>2
  <2>4. /\ run' \in Run /\ run'.direct = run.direct /\ run'.patch = run.patch
        /\ run'.results = results
    BY <2>0, <2>3 DEF Run
  <2>5. answer = "approved" => InLedger(d)'
    <3>1. InvoiceOf(StoredRequest(d), "bulk").doc = d
      BY DEF InvoiceOf, StoredRequest
    <3>2. IsSeq(ledger)
      BY DEF TypeOK
    <3>3. answer = "approved" => Gets(InvoiceOf(StoredRequest(d), "bulk"))
      BY <2>1, <3>2, BulkMoves
    <3>4. answer = "approved" => \E i \in DOMAIN ledger' : ledger'[i].doc = d
      BY <3>1, <3>3, LedgerGrows
    <3>5. QED BY <3>4 DEF InLedger
  <2>6. \A e \in Docs : results[e] = IF e = d THEN patch ELSE run.results[e]
    BY <2>0, <2>3 DEF Run
  <2>7. QED BY <2>0, <2>2, <2>4, <2>5, <2>6 DEF Carries
<1>4. ASSUME NEW r \in run.direct, ServesDirect(r), Busy
      PROVE  /\ run' \in Run /\ run # None
             /\ run'.direct \subseteq run.direct
             /\ Carries(run.results, run'.results)
             /\ Carries(run.patch, run'.patch)
  <2>0. run \in Run /\ run # None /\ r \in Request /\ r.doc \in Docs
    BY <1>0, <1>4 DEF Busy, Run, Request
  <2>1. PICK answer, seen \in {"approved", "duplicate", "blocked", "error"} :
          /\ seen \in {answer, "error"}
          /\ ServeApprove(r, "results", answer)
          /\ run' = [run EXCEPT !.direct = run.direct \ {r}, !.patch[r.doc] = PatchOf(seen)]
    BY <1>4 DEF ServesDirect
  <2>2. PICK patch \in Patch : /\ patch = PatchOf(seen)
                               /\ patch.outcome = "approved" => seen = "approved"
    <3>1. PICK patch : patch = PatchOf(seen)
      OBVIOUS
    <3>2. patch \in Patch /\ (patch.outcome = "approved" => seen = "approved")
      BY <2>1, <3>1 DEF PatchOf, Patch, Outcome
    <3>3. QED BY <3>1, <3>2
  <2>3. PICK direct \in SUBSET run.direct, patches \in [Docs -> Patch] :
          /\ patches = [run.patch EXCEPT ![r.doc] = patch]
          /\ run' = [run EXCEPT !.direct = direct, !.patch = patches]
    <3>1. /\ run.direct \ {r} \in SUBSET run.direct
          /\ [run.patch EXCEPT ![r.doc] = patch] \in [Docs -> Patch]
      BY <2>0 DEF Run
    <3>2. run' = [run EXCEPT !.direct = run.direct \ {r},
                             !.patch = [run.patch EXCEPT ![r.doc] = patch]]
      BY <2>0, <2>1, <2>2 DEF Run
    <3>3. QED BY <3>1, <3>2
  <2>4. /\ run' \in Run /\ run'.direct = direct /\ run'.patch = patches
        /\ run'.results = run.results
    BY <2>0, <2>3 DEF Run
  <2>5. seen = "approved" => \E i \in DOMAIN ledger' : ledger'[i].doc = r.doc
    <3>1. InvoiceOf(r, "results").doc = r.doc
      BY DEF InvoiceOf
    <3>2. IsSeq(ledger)
      BY DEF TypeOK
    <3>3. answer = "approved" => Gets(InvoiceOf(r, "results"))
      BY <2>1, <3>2, ApproveMoves
    <3>4. answer = "approved" => \E i \in DOMAIN ledger' : ledger'[i].doc = r.doc
      BY <3>1, <3>3, LedgerGrows
    <3>5. QED BY <2>1, <3>4
  <2>6. \A e \in Docs : patches[e] = IF e = r.doc THEN patch ELSE run.patch[e]
    BY <2>0, <2>3 DEF Run
  <2>7. QED BY <2>0, <2>2, <2>3, <2>4, <2>5, <2>6 DEF Carries, InLedger
<1>5. QED BY <1>1, <1>2, <1>3, <1>4, WhoChanges
----------------------------------------------------------------------------
(***************************************************************************)
(* What the gate lets through.                                             *)
(***************************************************************************)
\* A document the gate calls ready has a settled type and no doubtful critical
\* field.
LEMMA GateIsReady ==
  ASSUME NEW confidence, NEW type, NEW taxItemized, NEW typeConfidence, NEW typeConfirmed,
         GateApproval(confidence, type, taxItemized, typeConfidence, typeConfirmed) = "ready"
  PROVE  /\ typeConfidence < CriticalThreshold => typeConfirmed
         /\ \A f \in CriticalFields(type) : ~(confidence[f] < CriticalThreshold)
  BY DEF GateApproval

LEMMA CriticalIsReviewable ==
  ASSUME NEW type
  PROVE  CriticalFields(type) \subseteq ReviewableFields
  BY DEF CriticalFields, ReviewableFields

LEMMA ReadingsTyped ==
  ASSUME TypeOK, NEW d \in Docs
  PROVE  /\ readings[d].type \in Types /\ readings[d].typeConfidence \in Int
         /\ \A f \in ReviewableFields : readings[d].fields[f].confidence \in Int
  BY RoutesAssumption DEF TypeOK

\* What the screen sends by the single route was vouched for at the click.
LEMMA ApprovableStands ==
  ASSUME TypeOK, NEW d \in Docs, Approvable(d), NEW r, r = DirectRequest(d)
  PROVE  /\ r.doc = d /\ r.extraction = readings[d]
         /\ readings[d].typeConfidence < CriticalThreshold => rows[d].settled
         /\ \A f \in CriticalFields(r.type) :
              Vouched(d, f, FinalValues(r.extraction, r.edited)[f])
<1>1. /\ r.doc = d /\ r.extraction = readings[d] /\ r.type = rows[d].type
      /\ r.edited = FinalValues(readings[d], rows[d].edited)
  BY DEF DirectRequest
<1>2. /\ readings[d].typeConfidence < CriticalThreshold => rows[d].settled
      /\ \A f \in CriticalFields(r.type) : ~(RowConfidences(rows[d], d)[f] < CriticalThreshold)
  BY <1>1, GateIsReady DEF Approvable, RowGate
<1>3. ASSUME NEW f \in CriticalFields(r.type)
      PROVE  Vouched(d, f, FinalValues(r.extraction, r.edited)[f])
  <2> DEFINE raw == readings[d].fields[f].confidence
             original == readings[d].fields[f].value
             edited == rows[d].edited[f]
  <2>1. f \in ReviewableFields /\ raw \in Int
    BY CriticalIsReviewable, ReadingsTyped
  <2>2. RowConfidences(rows[d], d)[f] =
          EffectiveConfidence(raw, original, edited, f \in rows[d].affirmed)
    BY <2>1 DEF RowConfidences
  <2>3. FinalValues(r.extraction, r.edited)[f] = IF edited # Untouched THEN edited ELSE original
    BY <1>1, <2>1 DEF FinalValues
  <2>4. CASE edited \notin {Untouched, original, Blank}
    BY <2>3, <2>4 DEF Vouched
  <2>5. CASE f \in rows[d].affirmed /\ edited \in {Untouched, original}
    BY <2>3, <2>5 DEF Vouched
  <2>6. CASE /\ edited \in {Untouched, original, Blank}
             /\ ~(f \in rows[d].affirmed /\ edited \in {Untouched, original})
    <3>1. RowConfidences(rows[d], d)[f] = raw
      BY <2>2, <2>6 DEF EffectiveConfidence
    <3>2. raw >= CriticalThreshold
      BY <1>2, <2>1, <3>1 DEF CriticalThreshold
    <3>3. QED BY <3>2 DEF Vouched
  <2>7. QED BY <2>4, <2>5, <2>6
<1>4. QED BY <1>1, <1>2, <1>3

\* What the batch route approves was read for certain.
LEMMA BulkIsSure ==
  ASSUME TypeOK, NEW d \in Docs, BulkVerdict(d) = "approved"
  PROVE  /\ ~(readings[d].typeConfidence < CriticalThreshold)
         /\ \A f \in CriticalFields(readings[d].type) :
              readings[d].fields[f].confidence >= CriticalThreshold
<1>1. BulkGate(readings[d]) = "ready"
  BY DEF BulkVerdict
<1>2. /\ readings[d].typeConfidence < CriticalThreshold => FALSE
      /\ \A f \in CriticalFields(readings[d].type) :
           ~(ConfidencesOf(readings[d])[f] < CriticalThreshold)
  BY <1>1, GateIsReady DEF BulkGate
<1>3. \A f \in CriticalFields(readings[d].type) :
        /\ ConfidencesOf(readings[d])[f] = readings[d].fields[f].confidence
        /\ readings[d].fields[f].confidence \in Int
  BY CriticalIsReviewable, ReadingsTyped DEF ConfidencesOf
<1>4. QED BY <1>2, <1>3 DEF CriticalThreshold

----------------------------------------------------------------------------
(***************************************************************************)
(* Every step preserves the invariant.                                     *)
(***************************************************************************)
\* An invoice of the results screen is one somebody or the model vouched for.
Verified(invoice) ==
  LET x == readings[invoice.doc] IN
  invoice.by \in {"results", "bulk"} =>
    /\ invoice.doc \in Docs
    /\ x.typeConfidence < CriticalThreshold => invoice.by = "results" /\ rows[invoice.doc].settled
    /\ \A f \in CriticalFields(invoice.type) :
         \/ x.fields[f].confidence >= CriticalThreshold
         \/ invoice.by = "results" /\ IF invoice.values[f] = x.fields[f].value
                                      THEN f \in rows[invoice.doc].affirmed
                                      ELSE invoice.values[f] # Blank

LEMMA LedgerMoves ==
  ASSUME TypeOK, RequestsStand, [Next]_vars
  PROVE  /\ readings' = readings
         /\ \/ ledger' = ledger
            \/ \E invoice : Gets(invoice) /\ Verified(invoice)
<1>0. IsSeq(ledger)
  BY DEF TypeOK
<1>1. CASE UNCHANGED <<readings, confirmed, ledger>>
  BY <1>1
<1>2. ASSUME NEW d \in Docs, BulkVerdict(d) = "approved"
      PROVE  Verified(InvoiceOf(StoredRequest(d), "bulk"))
  <2>1. PICK invoice : invoice = InvoiceOf(StoredRequest(d), "bulk")
    OBVIOUS
  <2>2. invoice.doc = d /\ invoice.type = readings[d].type
    BY <2>1 DEF InvoiceOf, StoredRequest
  <2>3. Verified(invoice)
    BY <1>2, <2>2, BulkIsSure DEF Verified
  <2>4. QED BY <2>1, <2>3
<1>3. ASSUME NEW d \in Docs, NEW answer, ServeBulk(d, answer)
      PROVE  /\ readings' = readings
             /\ \/ ledger' = ledger
                \/ \E invoice : Gets(invoice) /\ Verified(invoice)
  BY <1>0, <1>2, <1>3, BulkMoves
<1>4. ASSUME NEW r \in run.direct, Busy, ServesDirect(r)
      PROVE  /\ readings' = readings
             /\ \/ ledger' = ledger
                \/ \E invoice : Gets(invoice) /\ Verified(invoice)
  <2>1. r.doc \in Docs
    BY <1>4 DEF TypeOK, Busy, Run, Request
  <2>2. PICK invoice : invoice = InvoiceOf(r, "results")
    OBVIOUS
  <2>3. /\ invoice.doc = r.doc /\ invoice.type = r.type /\ invoice.by = "results"
        /\ invoice.values = FinalValues(r.extraction, r.edited)
    BY <2>2 DEF InvoiceOf
  <2>4. Verified(invoice)
    BY <1>4, <2>1, <2>3 DEF RequestsStand, Busy, Verified, Vouched
  <2>5. QED BY <1>0, <1>4, <2>2, <2>4, ApproveMoves DEF ServesDirect
<1>5. ASSUME NEW c \in Calls, NEW d \in Docs, ServesNext(c, d) \/ ServesEdit(c, d)
      PROVE  /\ readings' = readings
             /\ \/ ledger' = ledger
                \/ \E invoice : Gets(invoice) /\ Verified(invoice)
  <2>1. PICK invoice : invoice = InvoiceOf(Sent(c, d), "page")
    OBVIOUS
  <2>2. Verified(invoice)
    BY <2>1 DEF Verified, InvoiceOf
  <2>3. QED BY <1>0, <1>5, <2>1, <2>2, ApproveMoves DEF ServesNext, ServesEdit
<1>6. QED BY <1>1, <1>3, <1>4, <1>5, WhoChanges DEF ServesQueued, ServesBatch

LEMMA TypeOKStep ==
  ASSUME TypeOK, RequestsStand, [Next]_vars
  PROVE  TypeOK'
<1>1. rows' \in [Docs -> Row] /\ run' \in {None} \cup Run
  BY RowMoves, RunMoves
<1>2. readings' \in Samples
  BY LedgerMoves DEF TypeOK
<1>3. IsSeq(ledger')
  BY LedgerMoves, LedgerGrows DEF TypeOK
<1>4. QED BY <1>1, <1>2, <1>3 DEF TypeOK

LEMMA RequestsStandStep ==
  ASSUME TypeOK, RequestsStand, [Next]_vars
  PROVE  RequestsStand'
<1>1. SUFFICES ASSUME run' # None, NEW r \in run'.direct
      PROVE  /\ r.extraction = readings[r.doc]
             /\ readings[r.doc].typeConfidence < CriticalThreshold => rows'[r.doc].settled
             /\ \A f \in CriticalFields(r.type) :
                  LET v == FinalValues(r.extraction, r.edited)[f] IN
                  \/ readings[r.doc].fields[f].confidence >= CriticalThreshold
                  \/ IF v = readings[r.doc].fields[f].value THEN f \in rows'[r.doc].affirmed
                     ELSE v # Blank
  BY LedgerMoves DEF RequestsStand, Vouched
<1>2. /\ r.doc \in Docs /\ r.extraction = readings[r.doc]
      /\ readings[r.doc].typeConfidence < CriticalThreshold => rows[r.doc].settled
      /\ \A f \in CriticalFields(r.type) :
           Vouched(r.doc, f, FinalValues(r.extraction, r.edited)[f])
  <2>1. CASE run # None /\ r \in run.direct
    <3>1. r.doc \in Docs
      BY <2>1 DEF TypeOK, Run, Request
    <3>2. QED BY <2>1, <3>1 DEF RequestsStand
  <2>2. ASSUME NEW d \in Docs, Approvable(d), r = DirectRequest(d)
        PROVE  /\ r.doc \in Docs /\ r.extraction = readings[r.doc]
               /\ readings[r.doc].typeConfidence < CriticalThreshold => rows[r.doc].settled
               /\ \A f \in CriticalFields(r.type) :
                    Vouched(r.doc, f, FinalValues(r.extraction, r.edited)[f])
    <3>1. /\ r.doc = d /\ r.extraction = readings[d]
          /\ readings[d].typeConfidence < CriticalThreshold => rows[d].settled
          /\ \A f \in CriticalFields(r.type) :
               Vouched(d, f, FinalValues(r.extraction, r.edited)[f])
      BY <2>2, ApprovableStands
    <3>2. QED BY <3>1
  <2>3. QED BY <1>1, <2>1, <2>2, RunMoves
<1>3. QED BY <1>2, RowMoves DEF Vouched

LEMMA ReportsStep ==
  ASSUME TypeOK, RequestsStand, AnswersAreTrue, ReportedIsDone, [Next]_vars
  PROVE  AnswersAreTrue' /\ ReportedIsDone'
<1>1. \A d : InLedger(d) => InLedger(d)'
  <2>1. CASE ledger' = ledger
    BY <2>1 DEF InLedger
  <2>2. QED BY <2>1, LedgerMoves, LedgerGrows
<1>2. AnswersAreTrue'
  BY <1>1, RunMoves DEF AnswersAreTrue, Carries
<1>3. \A d \in Docs : rows'[d].outcome = "approved" => InLedger(d)'
  BY <1>1, RowMoves DEF AnswersAreTrue, ReportedIsDone
<1>4. \A d \in approved' : InLedger(d)'
  <2>1. CASE approved' \subseteq approved
    BY <1>1, <2>1 DEF ReportedIsDone
  <2>2. ASSUME NEW c \in Calls, NEW d \in Docs, ServesNext(c, d) \/ ServesEdit(c, d),
               ~(approved' \subseteq approved)
        PROVE  approved' = approved \cup {d} /\ InLedger(d)'
    <3>1. PICK answer : ServeApprove(Sent(c, d), "page", answer) /\ answer = "approved"
                        /\ approved' = approved \cup {d}
      BY <2>2 DEF ServesNext, ServesEdit, TakenAsApproved
    <3>2. PICK invoice : invoice = InvoiceOf(Sent(c, d), "page")
      OBVIOUS
    <3>3. invoice.doc = d
      BY <3>2 DEF InvoiceOf, Sent, RequestFor
    <3>4. Gets(invoice)
      BY <3>1, <3>2, ApproveMoves DEF TypeOK
    <3>5. \E i \in DOMAIN ledger' : ledger'[i].doc = d
      BY <3>3, <3>4, LedgerGrows
    <3>6. QED BY <3>1, <3>5 DEF InLedger
  <2>3. QED BY <1>1, <2>1, <2>2, WhoChanges DEF ReportedIsDone
<1>5. QED BY <1>2, <1>3, <1>4 DEF ReportedIsDone
LEMMA ResultsAreVerifiedStep ==
  ASSUME TypeOK, RequestsStand, LedgerDocs, ResultsAreVerified, [Next]_vars
  PROVE  LedgerDocs' /\ ResultsAreVerified'
<1>1. \A i \in DOMAIN ledger : Verified(ledger[i])
  BY DEF LedgerDocs, ResultsAreVerified, Verified
<1>2. readings' = readings /\ \A i \in DOMAIN ledger' : Verified(ledger'[i])
  <2>1. CASE ledger' = ledger
    BY <1>1, <2>1, LedgerMoves
  <2>2. ASSUME NEW invoice, Gets(invoice), Verified(invoice)
        PROVE  \A i \in DOMAIN ledger' : Verified(ledger'[i])
    BY <1>1, <2>2, LedgerGrows
  <2>3. QED BY <2>1, <2>2, LedgerMoves
<1>3. \A d \in Docs : /\ rows[d].settled => rows'[d].settled
                      /\ rows[d].affirmed \subseteq rows'[d].affirmed
  BY RowMoves
<1>4. ASSUME NEW i \in DOMAIN ledger', ledger'[i].by \in {"results", "bulk"}
      PROVE  LET invoice == ledger'[i]
                 x == readings[invoice.doc] IN
             /\ invoice.doc \in Docs
             /\ x.typeConfidence < CriticalThreshold =>
                  invoice.by = "results" /\ rows'[invoice.doc].settled
             /\ \A f \in CriticalFields(invoice.type) :
                  \/ x.fields[f].confidence >= CriticalThreshold
                  \/ invoice.by = "results" /\
                       IF invoice.values[f] = x.fields[f].value
                       THEN f \in rows'[invoice.doc].affirmed ELSE invoice.values[f] # Blank
  <2>1. Verified(ledger'[i])
    BY <1>2
  <2>2. QED BY <1>3, <1>4, <2>1 DEF Verified
<1>5. QED BY <1>2, <1>4 DEF LedgerDocs, ResultsAreVerified

\* What a request confirms, under which key.
LEMMA ConfirmedStoredStep ==
  ASSUME TypeOK, RequestsStand, ConfirmedStored, [Next]_vars
  PROVE  ConfirmedStored'
<1>1. items' \subseteq Docs
  BY WhoChanges DEF ConfirmedStored, Pending
<1>2. \A d \in Docs : BulkValues(d)' = BulkValues(d)
  BY LedgerMoves DEF BulkValues, StoredRequest
<1>3. ASSUME NEW d \in Docs, NEW key \in Routes, NEW values,
             confirmed' = confirmed \/ confirmed' = [confirmed EXCEPT ![d][key] = values],
             key = "bulk-approval" => values = BulkValues(d)
      PROVE  ConfirmedStored'
  <2>1. CASE confirmed' = confirmed
    BY <1>1, <1>2, <2>1 DEF ConfirmedStored
  <2>2. CASE confirmed' = [confirmed EXCEPT ![d][key] = values]
    <3>1. DOMAIN confirmed = Docs /\ \A e \in Docs : DOMAIN confirmed[e] = Routes
      BY DEF ConfirmedStored
    <3>2. PICK row : /\ row = [confirmed[d] EXCEPT ![key] = values]
                     /\ confirmed' = [confirmed EXCEPT ![d] = row]
      BY <2>2
    <3>3. DOMAIN row = Routes /\ "bulk-approval" \in Routes
      BY <3>1, <3>2 DEF Routes
    <3>4. row["bulk-approval"] = IF key = "bulk-approval" THEN values
                                 ELSE confirmed[d]["bulk-approval"]
      BY <3>1, <3>2, <3>3
    <3>5. DOMAIN confirmed' = Docs /\ \A e \in Docs : confirmed'[e] = IF e = d THEN row ELSE confirmed[e]
      BY <3>1, <3>2
    <3>6. \A e \in Docs : confirmed'[e]["bulk-approval"] \in {None, BulkValues(e)}
      BY <1>3, <3>4, <3>5 DEF ConfirmedStored
    <3>7. QED BY <1>1, <1>2, <3>1, <3>3, <3>5, <3>6 DEF ConfirmedStored
  <2>3. QED BY <1>3, <2>1, <2>2
<1>4. ASSUME NEW d \in Docs, NEW answer, ServeBulk(d, answer)
      PROVE  ConfirmedStored'
  <2>1. StoredRequest(d).doc = d /\ StoredRequest(d).extraction = readings[d]
    BY DEF StoredRequest
  <2>2. \/ confirmed' = confirmed
        \/ confirmed' = [confirmed EXCEPT ![d]["bulk-approval"] = BulkValues(d)]
    BY <1>4, <2>1 DEF ServeBulk, SavesInvoice, OnlyConfirms, routeVars, BulkValues
  <2>3. QED BY <1>3, <2>2 DEF Routes
<1>5. ASSUME NEW r, r.doc \in Docs, NEW by, NEW answer, ServeApprove(r, by, answer)
      PROVE  ConfirmedStored'
  <2>1. \/ confirmed' = confirmed
        \/ confirmed' = [confirmed EXCEPT ![r.doc]["approval"] = FinalValues(r.extraction, r.edited)]
    BY <1>5 DEF ServeApprove, SavesInvoice, OnlyConfirms, routeVars
  <2>2. QED BY <1>3, <1>5, <2>1 DEF Routes
<1>6. ASSUME Busy, NEW r \in run.direct, ServesDirect(r)
      PROVE  ConfirmedStored'
  <2>1. r.doc \in Docs
    BY <1>6 DEF TypeOK, Busy, Run, Request
  <2>2. QED BY <1>5, <1>6, <2>1 DEF ServesDirect
<1>7. ASSUME NEW c \in Calls, NEW d \in Docs, ServesNext(c, d) \/ ServesEdit(c, d)
      PROVE  ConfirmedStored'
  <2>1. Sent(c, d).doc = d
    BY DEF Sent, RequestFor
  <2>2. QED BY <1>5, <1>7, <2>1 DEF ServesNext, ServesEdit
<1>8. CASE UNCHANGED <<readings, confirmed, ledger>>
  BY <1>1, <1>2, <1>8 DEF ConfirmedStored
<1>9. QED BY <1>4, <1>6, <1>7, <1>8, WhoChanges DEF ServesQueued, ServesBatch

----------------------------------------------------------------------------
(***************************************************************************)
(* What the board calls ready, the routes call ready.                      *)
(***************************************************************************)
LEMMA BoardIsRight ==
  ASSUME TypeOK, NEW d \in Docs, Section(Item(d), d \in Duplicates) = "ready"
  PROVE  /\ BulkGate(readings[d]) = "ready"
         /\ readings[d].fields["currency"].value \in Supported
         /\ ~ArithmeticMismatch(readings[d])
<1> DEFINE x == readings[d]
           item == Item(d)
<1>1. /\ item.type = x.type /\ item.typeConfidence = x.typeConfidence
      /\ item.taxItemized = x.taxItemized
      /\ item.perField = [f \in ReviewableFields |-> x.fields[f].confidence]
      /\ \A f \in ReviewableFields : item.values[f] = x.fields[f].value
  BY DEF Item, QueueItem, ValuesOf
<1>2. {"currency", "subtotal", "tax", "total"} \subseteq ReviewableFields
  BY DEF ReviewableFields
<1>3. /\ BoardGate(item) = "ready"
      /\ item.values["currency"] \in Supported /\ TotalsReconcile(item)
  BY DEF Section, SectionForGate
<1>4. BulkGate(x) = "ready"
  <2>1. BoardConfidences(item) = ConfidencesOf(x)
    BY <1>1 DEF BoardConfidences, ConfidencesOf
  <2>2. QED BY <1>1, <1>3, <2>1 DEF BoardGate, BulkGate
<1>5. ~ArithmeticMismatch(x)
  <2> DEFINE subtotal == x.fields["subtotal"].value
             tax == x.fields["tax"].value
             total == x.fields["total"].value
  <2>1. subtotal \in Int /\ tax \in Int /\ total \in Int /\ Blank \notin Int
    BY RoutesAssumption DEF TypeOK
  <2>2. x.taxItemized => CheckTotals(subtotal, tax, total) # "off"
    BY <1>1, <1>2, <1>3 DEF TotalsReconcile
  <2>3. x.taxItemized => subtotal + tax - total \in -1..1
    BY <2>1, <2>2 DEF CheckTotals
  <2>4. QED BY <2>1, <2>3 DEF ArithmeticMismatch
<1>6. QED BY <1>1, <1>2, <1>3, <1>4, <1>5

\* A client that edited nothing is judged by what was read.
LEMMA NothingEdited ==
  ASSUME NEW d, NEW held, held[d] = None, BulkGate(readings[d]) = "ready"
  PROVE  /\ ServerGate(RequestFor(d, held, NoEdits)) = "ready"
         /\ FinalValues(readings[d], NoEdits) = ValuesOf(readings[d])
<1> DEFINE x == readings[d]
           r == RequestFor(d, held, NoEdits)
<1>1. r.extraction = x /\ r.edited = NoEdits /\ r.type = x.type
  BY DEF RequestFor
<1>2. \A f \in ReviewableFields : NoEdits[f] = Untouched
  BY DEF NoEdits
<1>3. [f \in ReviewableFields |->
         EffectiveConfidence(r.extraction.fields[f].confidence, r.extraction.fields[f].value,
                             r.edited[f], r.edited[f] # Untouched)] = ConfidencesOf(x)
  BY <1>1, <1>2 DEF EffectiveConfidence, ConfidencesOf
<1>4. GateApproval(ConfidencesOf(x), x.type, x.taxItemized, x.typeConfidence, TRUE) = "ready"
  BY DEF BulkGate, GateApproval
<1>5. ServerGate(r) = "ready"
  BY <1>1, <1>3, <1>4 DEF ServerGate
<1>6. FinalValues(x, NoEdits) = ValuesOf(x)
  BY <1>2 DEF FinalValues, ValuesOf
<1>7. QED BY <1>5, <1>6

----------------------------------------------------------------------------
(***************************************************************************)
(* The theorems.                                                           *)
(***************************************************************************)
LEMMA IInvInit ==
  ASSUME Init
  PROVE  IInv
<1>1. ledger = <<>> /\ run = None /\ approved = {}
  BY DEF Init, RoutesInit, ScreenInit, PageInit
<1>2. readings \in Samples
  BY DEF Init, RoutesInit
<1>3. IsSeq(ledger)
  <2>1. <<>> \in Seq({})
    BY EmptySeq
  <2>2. QED BY <1>1, <2>1 DEF IsSeq
<1>4. NoEdits \in [ReviewableFields -> Edit]
  BY DEF NoEdits, Edit
<1>5. \A d \in Docs : readings[d].type \in Types
  BY <1>2, RoutesAssumption
<1>6. rows = [d \in Docs |->
        [read |-> "extracting", edited |-> NoEdits, affirmed |-> {},
         settled |-> FALSE, type |-> readings[d].type, outcome |-> None, armed |-> FALSE]]
  BY DEF Init, ScreenInit
<1>7. ASSUME NEW d \in Docs, NEW type \in Types
      PROVE  [read |-> "extracting", edited |-> NoEdits, affirmed |-> {},
              settled |-> FALSE, type |-> type, outcome |-> None, armed |-> FALSE] \in Row
  BY <1>4 DEF Row, Outcome
<1>8. rows \in [Docs -> Row]
  BY <1>5, <1>6, <1>7
<1>9. \A d \in Docs : rows[d].outcome # "approved"
  BY <1>6, RoutesAssumption
<1>10. DOMAIN ledger = {}
  BY <1>1
<1>11. TypeOK
  BY <1>1, <1>2, <1>3, <1>8 DEF TypeOK
<1>12. RequestsStand /\ AnswersAreTrue
  BY <1>1 DEF RequestsStand, AnswersAreTrue
<1>13. LedgerDocs /\ ResultsAreVerified
  BY <1>10 DEF LedgerDocs, ResultsAreVerified
<1>14. ReportedIsDone
  BY <1>1, <1>9 DEF ReportedIsDone
<1>15. ConfirmedStored
  <2>1. items = {} /\ confirmed = [d \in Docs |-> [key \in Routes |-> None]]
    BY DEF Init, RoutesInit, PageInit
  <2>2. QED BY <2>1 DEF ConfirmedStored, Routes
<1>16. QED BY <1>11, <1>12, <1>13, <1>14, <1>15 DEF IInv

LEMMA IInvStep ==
  ASSUME IInv, [Next]_vars
  PROVE  IInv'
BY TypeOKStep, ConfirmedStoredStep, RequestsStandStep, ReportsStep, ResultsAreVerifiedStep
  DEF IInv

\* The inductive invariant of the screens: what a run is about to send was
\* approvable at the click and still is (RequestsStand), the approvals it
\* holds are in the ledger (AnswersAreTrue), and a batch has confirmed nothing
\* but what is stored (ConfirmedStored). (lib/batch-results.ts,
\* components/BatchUpload.tsx, app/(app)/review/page.tsx.)
THEOREM Invariant == Spec => []IInv
BY IInvInit, IInvStep, PTL DEF Spec

\* The rows, the run and the ledger keep their types.
THEOREM TypeCorrect == Spec => []TypeOK
<1>1. IInv => TypeOK
  BY DEF IInv
<1>2. QED BY <1>1, Invariant, PTL

\* Nobody's guess enters the ledger from the results screen, for any number
\* of documents, inputs, runs and approvals of other pages at once: what was
\* vouched for at the click is not taken back by an input during the run.
THEOREM NothingIsGuessed == Spec => []ResultsAreVerified
<1>1. IInv => ResultsAreVerified
  BY DEF IInv
<1>2. QED BY <1>1, Invariant, PTL

\* No screen calls a document approved that is not in the ledger, whatever
\* answers were lost, came late or were of another document.
THEOREM ReportsAreTrue == Spec => []ReportedIsDone
<1>1. IInv => ReportedIsDone
  BY DEF IInv
<1>2. QED BY <1>1, Invariant, PTL

\* What the board lists as ready posts by the batch of the page, unless an
\* approved document has its identity, and by its own button, unless that or
\* an earlier edit stands in the way, for any extraction, after any failed,
\* late or repeated approvals: the gate and the arithmetic of the board, made
\* from the trimmed list, agree with those of the two routes, and what a failed
\* batch confirmed is what the next one confirms. (lib/extraction-insights.ts
\* buildQueueRow, lib/bulk-approve.ts approveOne, app/api/approve/route.ts.)
THEOREM ReadyItemsPost == Spec => []ReadyIsApprovable
<1>1. IInv => ReadyIsApprovable
  <2>1. SUFFICES ASSUME IInv, NEW d \in ReadyItems, queue[d] = "pending"
        PROVE  /\ \/ BulkVerdict(d) = "approved"
                  \/ IsDuplicate(readings[d].type, BulkValues(d))
               /\ \/ ApproveVerdict(RequestFor(d, detail, NoEdits)) = "approved"
                  \/ IsDuplicate(readings[d].type, ValuesOf(readings[d]))
                  \/ detail[d] # None
                  \/ confirmed[d]["approval"] \notin {None, ValuesOf(readings[d])}
    BY DEF ReadyIsApprovable
  <2>2. d \in Docs /\ Section(Item(d), d \in Duplicates) = "ready"
    BY <2>1 DEF IInv, ConfirmedStored, ReadyItems, OpenItems
  <2>3. TypeOK /\ confirmed[d]["bulk-approval"] \in {None, BulkValues(d)}
    BY <2>1, <2>2 DEF IInv, ConfirmedStored
  <2>4. /\ BulkGate(readings[d]) = "ready"
        /\ readings[d].fields["currency"].value \in Supported
        /\ ~ArithmeticMismatch(readings[d])
    BY <2>2, <2>3, BoardIsRight
  <2>5. BulkVerdict(d) = "approved" \/ IsDuplicate(readings[d].type, BulkValues(d))
    BY <2>1, <2>3, <2>4 DEF BulkVerdict, Confirms
  <2>6. ASSUME detail[d] = None, confirmed[d]["approval"] \in {None, ValuesOf(readings[d])},
               ~IsDuplicate(readings[d].type, ValuesOf(readings[d]))
        PROVE  ApproveVerdict(RequestFor(d, detail, NoEdits)) = "approved"
    <3> DEFINE r == RequestFor(d, detail, NoEdits)
    <3>1. /\ r.doc = d /\ r.extraction = readings[d] /\ r.edited = NoEdits
          /\ r.type = readings[d].type
      BY <2>6 DEF RequestFor
    <3>2. ServerGate(r) = "ready" /\ FinalValues(r.extraction, r.edited) = ValuesOf(readings[d])
      BY <2>4, <2>6, <3>1, NothingEdited
    <3>3. ValuesOf(readings[d])["currency"] \in Supported
      BY <2>4 DEF ValuesOf, ReviewableFields
    <3>4. QED BY <2>1, <2>6, <3>1, <3>2, <3>3 DEF ApproveVerdict, Confirms
  <2>7. QED BY <2>5, <2>6
<1>2. QED BY <1>1, Invariant, PTL
=============================================================================
