---------------------------- MODULE MerchantNames ----------------------------
(***************************************************************************)
(* Resemblance of merchant names: the first half of                        *)
(* lib/reconciliation-detectors.ts.                                        *)
(*                                                                         *)
(* A name is the sequence of its words, a word the sequence of its         *)
(* letters: what tokenize returns.  A resemblance between words, which the *)
(* code keeps between 0 and 1, is a whole number of sixtieths, exact for   *)
(* words of up to six letters; one between names a whole number of six     *)
(* hundredths.  The cache of tokenSimilarity, which only saves time, is    *)
(* left out.                                                               *)
(***************************************************************************)
EXTENDS Integers, Sequences, FiniteSets, SequencesExt

CONSTANTS
  NoiseTokens,   \* words that say nothing of who was paid
  Names          \* the names that occur

Whole == 60
AbbreviationSimilarity == 54
TokenMatchThreshold == 51

BrandWeight == 6
OverlapWeight == 4
NameWhole == (BrandWeight + OverlapWeight) * Whole
MerchantLinkThreshold == 420
MerchantStrongThreshold == 510

----------------------------------------------------------------------------
(***************************************************************************)
(* Profiles.                                                               *)
(***************************************************************************)
SignificantTokens(name) ==
  LET kept == FoldLeft(LAMBDA words, t : IF t \in NoiseTokens THEN words ELSE Append(words, t),
                       <<>>, name)
  IN IF kept = <<>> THEN name ELSE kept

Distinct(tokens) ==
  FoldLeft(LAMBDA seen, t : IF Contains(seen, t) THEN seen ELSE Append(seen, t), <<>>, tokens)

\* The word that most of the resemblance rests on.
Brand(tokens) ==
  LET i == SelectInSeq(tokens, LAMBDA t : Len(t) >= 3) IN
    IF i = 0 THEN tokens[1] ELSE tokens[i]

NoProfile == [tokens |-> <<>>, brand |-> <<>>]

MerchantProfile(name) ==
  IF name = <<>> THEN NoProfile
  ELSE LET tokens == Distinct(SignificantTokens(name)) IN
         [tokens |-> tokens, brand |-> Brand(tokens)]

----------------------------------------------------------------------------
(***************************************************************************)
(* Words.                                                                  *)
(***************************************************************************)
Lesser(x, y) == IF x < y THEN x ELSE y
Greater(x, y) == IF x < y THEN y ELSE x

\* One row of the matrix from the row above it: its place j + 1 has the distance
\* to the first j letters of b.
NextRow(above, letter, b) ==
  FoldLeftDomain(LAMBDA row, j :
      Append(row, Lesser(Lesser(above[j + 1], Last(row)) + 1,
                         above[j] + (IF letter = b[j] THEN 0 ELSE 1))),
    <<above[1] + 1>>, b)

EditDistance(a, b) ==
  Last(FoldLeft(LAMBDA row, letter : NextRow(row, letter, b),
                [j \in 1..(Len(b) + 1) |-> j - 1], a))

\* The letters of short occur in long in their order.
IsAbbreviationOf(short, long) ==
  /\ 4 <= Len(short) /\ Len(short) < Len(long)
  /\ FoldLeft(LAMBDA i, letter :
                IF i < Len(short) /\ short[i + 1] = letter THEN i + 1 ELSE i, 0, long)
     = Len(short)

Abbreviates(a, b) == IsAbbreviationOf(a, b) \/ IsAbbreviationOf(b, a)

TokenSimilarity(a, b) ==
  IF a = b THEN Whole
  ELSE IF a = <<>> \/ b = <<>> THEN 0
  ELSE IF Abbreviates(a, b) THEN AbbreviationSimilarity
  ELSE LET longest == Greater(Len(a), Len(b)) IN
         ((longest - EditDistance(a, b)) * Whole) \div longest

----------------------------------------------------------------------------
(***************************************************************************)
(* Names.                                                                  *)
(***************************************************************************)

\* Bug: the bound is trusted for abbreviations too.
Bug_LengthOnly(a, b, threshold) ==
  LET longest == Greater(Len(a), Len(b)) IN
    Lesser(Len(a), Len(b)) * Whole < threshold * longest

\* Rejects, from the lengths alone, words that cannot be so similar.
CannotReach(a, b, threshold) ==
  LET longest == Greater(Len(a), Len(b)) IN
    ~Abbreviates(a, b) /\ Lesser(Len(a), Len(b)) * Whole < threshold * longest

\* Each word takes the first unclaimed word of the other name that is like it.
Shared(tokensA, tokensB, Alike(_, _)) ==
  FoldLeft(LAMBDA claimed, ta :
      LET i == SelectInSeq([j \in 1..Len(tokensB) |-> j],
                           LAMBDA j : j \notin claimed /\ Alike(ta, tokensB[j])) IN
        IF i = 0 THEN claimed ELSE claimed \cup {i},
    {}, tokensA)

Dice(tokensA, tokensB, Alike(_, _)) ==
  IF tokensA = <<>> \/ tokensB = <<>> THEN 0
  ELSE (2 * Cardinality(Shared(tokensA, tokensB, Alike)) * Whole)
       \div (Len(tokensA) + Len(tokensB))

SoftDice(tokensA, tokensB) ==
  Dice(tokensA, tokensB, LAMBDA ta, tb :
         /\ ta = tb \/ ~CannotReach(ta, tb, TokenMatchThreshold)
         /\ TokenSimilarity(ta, tb) >= TokenMatchThreshold)

\* Gives up, with 0, when the brands alone keep the names below floor.
ProfileSimilarityAtLeast(p, r, floor) ==
  IF p = NoProfile \/ r = NoProfile THEN 0
  ELSE LET brand == TokenSimilarity(p.brand, r.brand) IN
         IF BrandWeight * brand + OverlapWeight * Whole < floor THEN 0
         ELSE BrandWeight * brand + OverlapWeight * SoftDice(p.tokens, r.tokens)

\* The resemblance without any way out.
ExactSimilarity(p, r) ==
  IF p = NoProfile \/ r = NoProfile THEN 0
  ELSE BrandWeight * TokenSimilarity(p.brand, r.brand)
       + OverlapWeight * Dice(p.tokens, r.tokens, LAMBDA ta, tb :
                                TokenSimilarity(ta, tb) >= TokenMatchThreshold)
=============================================================================
