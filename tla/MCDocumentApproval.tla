------------------------- MODULE MCDocumentApproval -------------------------
(***************************************************************************)
(* Small instances of DocumentApproval for TLC.                            *)
(***************************************************************************)
EXTENDS DocumentApproval, TLC

CONSTANTS f1, f2, f3, Acme

\* Two readings of one invoice, and one of a document without a number.
Identities == f1 :> Acme @@ f2 :> Acme @@ f3 :> NoIdentity
IdentitiesOf(S) == [f \in S |-> Identities[f]]
Both == IdentitiesOf({f1, f2})
Mixed == IdentitiesOf({f1, f3})

Symmetric == Permutations(Pendings) \cup Permutations(Clerks) \cup Permutations(Contents)
=============================================================================
