SPECIFICATION Spec
CONSTANTS
  c1 = c1
  c2 = c2
  Callers = {c1, c2}
  Amount <- MCAmountShrinks
  Captured = 3
  WINDOW = 2
  MAX_ITERATIONS = 1
  LostReplies = TRUE
  Slow = {"decide", "gateway", "clear"}
  MaxTime = 4
INVARIANTS
  NoFalseFinalize
  AtMostOneRefund
PROPERTIES
  Refines
  RefundedIsFinal
CHECK_DEADLOCK FALSE
