--------------------------- MODULE PostingContract ---------------------------
(***************************************************************************)
(* What the posting boundary promises about each authorized operation,     *)
(* whatever crashes, is lost or is retried below it: at most one object is *)
(* created at the provider, an operation is settled as posted only when    *)
(* the object exists, and as not posted only when none exists or will.     *)
(***************************************************************************)
CONSTANTS Ops,      \* posting operations
          Objects   \* provider objects

VARIABLES outcome,  \* what the service answers about the operation
          created   \* the objects the operation created at the provider

Outcomes == {"OPEN", "POSTED", "NOT_POSTED"}

Init ==
  /\ outcome = [o \in Ops |-> "OPEN"]
  /\ created = [o \in Ops |-> {}]

Create(o) ==
  /\ outcome[o] = "OPEN"
  /\ created[o] = {}
  /\ \E x \in Objects :
       /\ \A p \in Ops : x \notin created[p]
       /\ created' = [created EXCEPT ![o] = {x}]
  /\ UNCHANGED outcome

SettlePosted(o) ==
  /\ outcome[o] = "OPEN"
  /\ created[o] # {}
  /\ outcome' = [outcome EXCEPT ![o] = "POSTED"]
  /\ UNCHANGED created

SettleNotPosted(o) ==
  /\ outcome[o] = "OPEN"
  /\ created[o] = {}
  /\ outcome' = [outcome EXCEPT ![o] = "NOT_POSTED"]
  /\ UNCHANGED created

Next == \E o \in Ops : Create(o) \/ SettlePosted(o) \/ SettleNotPosted(o)

Spec == Init /\ [][Next]_<<outcome, created>>
=============================================================================
