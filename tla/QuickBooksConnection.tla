------------------------ MODULE QuickBooksConnection ------------------------
(***************************************************************************)
(* The one row a user has in oauth_connections for QuickBooks: the OAuth   *)
(* callback and the disconnect route write it, and every call that needs   *)
(* QuickBooks takes its credential from getValidQboAccess, which reads the *)
(* row, refreshes an expired token at Intuit and saves the refreshed one   *)
(* over whatever the row has become meanwhile.                             *)
(*                                                                         *)
(*   connection  the row: the company its tokens open, the company written *)
(*               in org_id, and whether the access token has expired       *)
(*   access      how far each running getValidQboAccess is, and its copy   *)
(*                                                                         *)
(* Tokens of two authorizations of one company open the same company, so a *)
(* token is represented by the company it opens.                           *)
(***************************************************************************)
CONSTANTS
  Realms,           \* QuickBooks companies the user may authorize
  Callers,          \* processes that call getValidQboAccess
  NoConnection      \* null

ASSUME ConnectionAssumption == NoConnection \notin [opens : Realms, org : Realms, expired : BOOLEAN]

VARIABLES connection, access

connectionVars == <<connection, access>>

Connections == [opens : Realms, org : Realms, expired : BOOLEAN]

\* Where a caller stands between two awaits of getValidQboAccess.
AccessStates == {"NONE", "LOADED", "REFRESHED", "HELD", "FAILED"}
Access == [state : AccessStates, conn : Connections \cup {NoConnection}]
NoAccess == [state |-> "NONE", conn |-> NoConnection]

ConnectionTypeOK ==
  /\ connection \in Connections \cup {NoConnection}
  /\ access \in [Callers -> Access]
  /\ \A c \in Callers : access[c].state \in {"LOADED", "REFRESHED", "HELD"} =>
                          access[c].conn # NoConnection

ConnectionInit ==
  /\ connection = NoConnection
  /\ access = [c \in Callers |-> NoAccess]

----------------------------------------------------------------------------
Fresh(opens, org) == [opens |-> opens, org |-> org, expired |-> FALSE]

Proceeds(c, state, conn) ==
  access' = [access EXCEPT ![c] = [state |-> state, conn |-> conn]]

\* Bug: the upsert of a connection that exists leaves its org_id alone.
Bug_KeepStoredOrg(opens, org) ==
  connection' = Fresh(opens, IF connection = NoConnection THEN org ELSE connection.org)

\* saveConnection: one upsert that replaces every column of the row.
Save(opens, org) == connection' = Fresh(opens, org)

(***************************************************************************)
(* The user.                                                               *)
(***************************************************************************)
\* The callback of a completed authorization: the code is exchanged and its
\* tokens are saved together with the realmId of the same redirect.
Connect(r) ==
  /\ Save(r, r)
  /\ UNCHANGED access

\* The callback answers with an error, or its exchange fails: nothing is saved.

\* deleteConnection
Disconnect ==
  /\ connection' = NoConnection
  /\ UNCHANGED access

Expire ==
  /\ connection # NoConnection /\ ~connection.expired
  /\ connection' = [connection EXCEPT !.expired = TRUE]
  /\ UNCHANGED access

(***************************************************************************)
(* getValidQboAccess                                                       *)
(***************************************************************************)
\* getConnection: an unexpired token is returned, an expired one is refreshed
\* first, and without a connection the call returns null.
Load(c) ==
  /\ access[c].state = "NONE"
  /\ Proceeds(c, CASE connection = NoConnection -> "FAILED"
                   [] connection # NoConnection /\ connection.expired -> "LOADED"
                   [] OTHER -> "HELD", connection)
  /\ UNCHANGED connection

\* refreshQuickBooksToken: Intuit answers with new tokens of the same company.
Refresh(c) ==
  /\ access[c].state = "LOADED"
  /\ Proceeds(c, "REFRESHED", [access[c].conn EXCEPT !.expired = FALSE])
  /\ UNCHANGED connection

\* The refreshed tokens are saved with the org_id the call had read.
SaveRefreshed(c) ==
  /\ access[c].state = "REFRESHED"
  /\ Save(access[c].conn.opens, access[c].conn.org)
  /\ Proceeds(c, "HELD", access[c].conn)

\* The row cannot be read twice in a row, the refresh is refused, or the row
\* cannot be written: the call throws.
AccessFails(c) ==
  /\ access[c].state \in {"NONE", "LOADED", "REFRESHED"}
  /\ Proceeds(c, "FAILED", NoConnection)
  /\ UNCHANGED connection

Release(c) == access' = [access EXCEPT ![c] = NoAccess]

\* What every user of a credential asks of it: it is there and its realmId is
\* the one of the destination.
Holds(c, r) == access[c].state = "HELD" /\ access[c].conn.org = r

----------------------------------------------------------------------------
(***************************************************************************)
(* Properties.                                                             *)
(***************************************************************************)
\* A credential, stored or in the hands of a call, opens the company it is
\* labelled with, whatever was authorized, refreshed or disconnected while a
\* refresh was in flight: "credential refresh must not change the canonical
\* provider/organisation destination" (docs/STEP_5_POSTING_CONTRACT.md).
PairsStand ==
  /\ connection # NoConnection => connection.opens = connection.org
  /\ \A c \in Callers : access[c].conn # NoConnection =>
                          access[c].conn.opens = access[c].conn.org
=============================================================================
