SPECIFICATION Spec
CONSTANTS
  p1 = p1
  p2 = p2
  h1 = h1
  h2 = h2
  sync = sync
  expiry = expiry
  confirm = confirm
  recover = recover
  Payments = {p1}
  Handlers = {h1, h2}
  Jobs = {expiry, confirm, recover}
  Kind <- MCKind
  Unreachable = TRUE
  Fallback = FALSE
  RedisDown = TRUE
INVARIANTS
  PaidWasCaptured
  NoExpiryOfCaptured
PROPERTIES
  Refines
  FailedWasDeclined
CHECK_DEADLOCK FALSE
