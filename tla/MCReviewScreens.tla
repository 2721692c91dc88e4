-------------------------- MODULE MCReviewScreens ---------------------------
(***************************************************************************)
(* Small instances of ReviewScreens for TLC.                               *)
(***************************************************************************)
EXTENDS ReviewScreens, TLC

Field(value, confidence) == [value |-> value, confidence |-> confidence]

\* An invoice of Acme over 10.00 + 2.00, read for certain.
Sure ==
  [type |-> "invoice", typeConfidence |-> 95, taxItemized |-> TRUE, overall |-> 90,
   fields |->
     [f \in ReviewableFields |->
        CASE f = "supplierName" -> Field("Acme", 95)
          [] f = "invoiceNumber" -> Field("7", 95)
          [] f = "invoiceDate" -> Field("May", 95)
          [] f = "currency" -> Field("GBP", 95)
          [] f = "subtotal" -> Field(1000, 95)
          [] f = "tax" -> Field(200, 95)
          [] f = "total" -> Field(1200, 95)]]

\* The same number, misread and doubtful.
Doubtful == [Sure EXCEPT !.fields["invoiceNumber"] = Field("1", 70)]

\* Invoice or receipt?
Unclassified == [Sure EXCEPT !.typeConfidence = 60, !.fields["invoiceNumber"] = Field("8", 95)]

\* Totals that are off by a penny and by two, read for certain.
PennyOff == [Sure EXCEPT !.fields["total"] = Field(1201, 95)]
Inconsistent == [Sure EXCEPT !.fields["total"] = Field(1202, 95)]

\* A currency that no bill is posted in, and a supplier that is not there.
Foreign == [Sure EXCEPT !.fields["currency"] = Field("ZZZ", 95)]
Nameless == [Sure EXCEPT !.fields["supplierName"] = Field(Blank, 95)]

\* Two of one invoice, two that need a person, two at the edge of the arithmetic,
\* and one that no route posts beside one without a supplier.
Pairs == {{Sure}, {Doubtful, Unclassified}, {PennyOff, Inconsistent}, {Foreign, Nameless}}
Readings == {r \in [Docs -> UNION Pairs] : {r[d] : d \in Docs} \in Pairs}

Symmetric == Permutations(Docs)

\* On the screen the number is read again; on the page it may be cleared.
Retyped == [f \in {"invoiceNumber"} |-> {"7"}]
Corrected == [f \in {"invoiceNumber"} |-> {"7", Blank}]
=============================================================================
