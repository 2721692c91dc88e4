-------------------------- MODULE MCStatementReview --------------------------
EXTENDS StatementReview, TLC

amazon == <<"a", "m", "a", "z", "o", "n">>
amzn == <<"a", "m", "z", "n">>
adobe == <<"a", "d", "o", "b", "e">>
adope == <<"a", "d", "o", "p", "e">>
prime == <<"p", "r", "i", "m", "e">>
uk == <<"u", "k">>

Noise == {uk}

MCNames == {<<amazon>>, <<amzn, uk>>, <<amazon, prime>>, <<adobe>>, <<adope, uk>>}

Line(day, amount, name, ref, says) ==
  [day |-> day, amount |-> amount, name |-> name, ref |-> ref, says |-> says,
   currency |-> "GBP"]
Entry(posted, amount, name, account) ==
  [posted |-> posted, amount |-> amount, name |-> name, account |-> account,
   currency |-> "GBP"]

\* A charge, its copy, what may give it back under three names, a part of an
\* invoice, a transfer and a line without a name.
Charge == Line(1, 100, <<amazon>>, NoReference, {})
Copy == Line(2, 100, <<amazon>>, NoReference, {"subscription"})
Reversed == Line(3, -100, <<amazon>>, "INV1", {})
Refunded == Line(4, -100, <<amzn, uk>>, NoReference, {"refund"})
Returned == Line(91, -100, <<amazon, prime>>, "INV1", {})
Part == Line(5, 100, <<adobe>>, "INV1", {})
Rest == Line(9, 104, <<adope, uk>>, "INV1", {"vat"})
Moved == Line(5, -100, <<adobe>>, NoReference, {"transfer"})
Nameless == Line(5, 0, <<>>, NoReference, {})

Lines == {Charge, Copy, Reversed, Refunded, Returned, Part, Rest, Moved, Nameless}

Ledgers ==
  {<<Entry(1, 100, <<amazon>>, "office"), Entry(9, 100, <<adobe>>, "software")>>,
   <<Entry(5, 104, <<adobe>>, "software"), Entry(40, 100, <<amazon, prime>>, NoAccount),
     Entry(4, -100, <<amazon>>, "office")>>}

\* One line of each kind comes first; the others follow in any order.
Firsts == {Charge, Refunded, Returned, Part, Nameless}

MCLearnedCases == [lines : {<<Charge>>}, ledger : {<<>>}]

MCCases == MCLearnedCases \cup [lines : {<<x, y, z>> : x \in Firsts, y, z \in Lines}, ledger : Ledgers]

Merchant1 == <<amazon>>

Table == [n \in {<<adobe>>} |-> "software"]
MCClassified == [n \in MCNames |-> IF n = <<adope, uk>> THEN "software" ELSE NoAccount]

AllOfIt == [days |-> 0..100, amounts |-> -200..200]
March == [days |-> 3..40, amounts |-> -200..200]
MCFilters == {AllOfIt, March}
Symmetric == Permutations(Learners)
=============================================================================
