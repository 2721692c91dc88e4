\* Two operations, two calls, two Vendors that may exist before; an actor who may
\* lose and regain the right to post, a bookkeeper who edits and enters Vendors.
SPECIFICATION Spec
CONSTANTS
  NoOp = NoOp
  NoVendor = NoVendor
  Ops = {o1, o2}
  Workers = {w1, w2}
  Vendors = {v1, v2}
  DriftingChecks = {"ACTOR_UNAUTHORIZED"}
  ProviderDrift = TRUE
  MaxSubmits = 2
CHECK_DEADLOCK FALSE
SYMMETRY Symmetric
INVARIANTS NothingIsDisowned BindingsAreTrue
PROPERTIES KeepsVendorContract
