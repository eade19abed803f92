SPECIFICATION FairSpec
CONSTANTS
  c1 = c1
  c2 = c2
  Callers = {c1, c2}
  Amount <- MCAmount
  Captured = 2
  WINDOW = 2
  MAX_ITERATIONS = 1
  LostReplies = FALSE
  Slow = {}
  MaxTime = 5
INVARIANTS
  TypeOK
PROPERTIES
  AcceptedIsBooked
  CallsReturn
CHECK_DEADLOCK FALSE
