SPECIFICATION FairSpec
CONSTANTS
  p1 = p1
  p2 = p2
  h1 = h1
  h2 = h2
  sync = sync
  expiry = expiry
  confirm = confirm
  recover = recover
  Payments = {p1}
  Handlers = {h1, h2}
  Jobs = {sync, confirm}
  Kind <- MCKind
  Unreachable = FALSE
  Fallback = FALSE
  RedisDown = TRUE
INVARIANTS
  TypeOK
  OneOutcome
PROPERTIES
  CapturedIsBooked
CHECK_DEADLOCK FALSE
