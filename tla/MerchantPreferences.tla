-------------------------- MODULE MerchantPreferences --------------------------
(***************************************************************************)
(* What a user's decisions teach: lib/decision-store.ts and the calls that *)
(* the routes approve and preferences make of it, for one merchant.        *)
(*                                                                         *)
(*   preference  the row of user_merchant_preferences                      *)
(*   decided     decisions logged for each category                        *)
(*   defaulted   the categories that a user ever set as default            *)
(*   learner     the local variables of each request                        *)
(*                                                                         *)
(* A preference is read, then written by another statement.  A row is      *)
(* never deleted, and a second insert for a merchant is refused.           *)
(***************************************************************************)
EXTENDS Naturals, Sequences, FiniteSets, Functions

CONSTANTS
  Categories, NoCategory, NoPreference,
  Learners,
  MaxDecisions,   \* bound on the decisions that are logged
  MaxBatch        \* bound on the matches that one request approves

DefaultCount == 3
LearnedCount == 3

VARIABLES preference, decided, defaulted, learner

preferenceVars == <<preference, decided, defaulted, learner>>

Preference == [category : Categories, count : 1..(MaxDecisions + DefaultCount)]
Batches == UNION {[1..n -> Categories \cup {NoCategory}] : n \in 1..MaxBatch}

ARow == [category |-> NoCategory, count |-> 0]   \* only its id was read
AtRest == [step |-> "idle", left |-> <<>>, found |-> NoPreference, default |-> NoCategory]

PreferenceInit ==
  /\ preference = NoPreference
  /\ decided = [c \in Categories |-> 0]
  /\ defaulted = {}
  /\ learner = [p \in Learners |-> AtRest]

IsAt(p, step) == learner[p].step = step
Settle(p) == learner' = [learner EXCEPT ![p] = AtRest]

----------------------------------------------------------------------------
(***************************************************************************)
(* Approval: once the matches are approved, each of them is logged and     *)
(* its category, if the request names one, counted.  Any error ends the    *)
(* logging, not the request.                                               *)
(***************************************************************************)
MayLog(batch) == FoldFunction(+, 0, decided) + Len(batch) <= MaxDecisions

LogApprovals(p, batch) ==
  /\ IsAt(p, "idle") /\ MayLog(batch)
  /\ learner' = [learner EXCEPT ![p] = [AtRest EXCEPT !.step = "recording", !.left = batch]]
  /\ UNCHANGED <<preference, decided, defaulted>>

Proceed(p) ==
  IF Len(learner[p].left) = 1 THEN Settle(p)
  ELSE learner' = [learner EXCEPT ![p] = [AtRest EXCEPT !.step = "recording", !.left = Tail(learner[p].left)]]

RecordDecision(p) ==
  /\ IsAt(p, "recording")
  /\ LET category == Head(learner[p].left) IN
       IF category = NoCategory THEN Proceed(p) /\ UNCHANGED decided
       ELSE /\ decided' = [decided EXCEPT ![category] = @ + 1]
            /\ learner' = [learner EXCEPT ![p].step = "reading"]
  /\ UNCHANGED <<preference, defaulted>>

ReadPreference(p) ==
  /\ IsAt(p, "reading")
  /\ learner' = [learner EXCEPT ![p].step = "bumping", ![p].found = preference]
  /\ UNCHANGED <<preference, decided, defaulted>>

\* Bug: the count goes on when the category changes.
Bug_KeepsCount(found, category) == IF found = NoPreference THEN 1 ELSE found.count + 1

NextCount(found, category) ==
  IF found # NoPreference /\ found.category = category THEN found.count + 1 ELSE 1

\* The insert of a call that found no row, when there is one by now.
InsertRefused(p) == learner[p].found = NoPreference /\ preference # NoPreference

BumpMerchantPreference(p) ==
  /\ IsAt(p, "bumping") /\ ~InsertRefused(p)
  /\ LET category == Head(learner[p].left) IN
       preference' = [category |-> category, count |-> NextCount(learner[p].found, category)]
  /\ Proceed(p) /\ UNCHANGED <<decided, defaulted>>

(***************************************************************************)
(* A user sets a category as default.                                      *)
(***************************************************************************)
ReadDefault(p, category) ==
  /\ IsAt(p, "idle")
  /\ learner' = [learner EXCEPT ![p] = [AtRest EXCEPT !.step = "defaulting", !.default = category,
                                              !.found = IF preference = NoPreference THEN @ ELSE ARow]]
  /\ UNCHANGED <<preference, decided, defaulted>>

SetMerchantDefault(p) ==
  /\ IsAt(p, "defaulting") /\ ~InsertRefused(p)
  /\ preference' = [category |-> learner[p].default, count |-> DefaultCount]
  /\ defaulted' = defaulted \cup {learner[p].default}
  /\ Settle(p) /\ UNCHANGED decided

\* The database refuses or cannot be reached, or the process ends.
CallFails(p) == ~IsAt(p, "idle") /\ Settle(p) /\ UNCHANGED <<preference, decided, defaulted>>

PreferenceNext ==
  \E p \in Learners :
    \/ \E batch \in Batches : LogApprovals(p, batch)
    \/ RecordDecision(p) \/ ReadPreference(p) \/ BumpMerchantPreference(p)
    \/ \E category \in Categories : ReadDefault(p, category)
    \/ SetMerchantDefault(p) \/ CallFails(p)

----------------------------------------------------------------------------
\* The category of the merchant once it counts as learned.
Learned ==
  IF preference # NoPreference /\ preference.count >= LearnedCount
  THEN preference.category ELSE NoCategory

\* How often the category was decided, or a default that stands for it.
Earned(category) ==
  decided[category] + (IF category \in defaulted THEN DefaultCount ELSE 0)
=============================================================================
