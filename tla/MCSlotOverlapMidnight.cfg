SPECIFICATION Spec
CONSTANTS
  b1 = b1
  b2 = b2
  b3 = b3
  Bookings = {b1, b2, b3}
  Requests <- MCLast
  Opening = 4
  Closing = 2
  DAY = 12
  SLOT = 2
INVARIANTS
  NoOverlap
