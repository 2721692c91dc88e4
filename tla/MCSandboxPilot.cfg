\* Two requests for one pair, with a right and a wrong Vendor ID, a user who
\* connects two companies, a status poll, approvals and roles that lapse.
SPECIFICATION Spec
CONSTANTS
  NoConnection = NoConnection
  NoVendor = NoVendor
  Realms = {home, other}
  Realm = home
  Pilots = {p1, p2}
  Callers = {p1, p2, status}
  Vendors = {v1, v2}
  Matching = {v1, v2}
  Drifting = {"APPROVAL", "ACTOR"}
SYMMETRY Symmetric
INVARIANTS BillFollowsVendor PairsStand
