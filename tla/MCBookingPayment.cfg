SPECIFICATION FairSpec
CONSTANTS
  b1 = b1
  b2 = b2
  b3 = b3
  s1 = s1
  Prepared = {b1}
  Cash = {b3}
  Bookings = {b1, b2, b3}
  Slots = {s1}
  Slot <- MCSlot
  Method <- MCMethod
  Actors = {"desk"}
  Hazards = {"crash"}
  MaxExpiries = 0
  MaxStalled = 0
  MaxVersion = 2
INVARIANTS
  TypeOK
  NoDoubleBooking
PROPERTIES
  PaidIsHonoured
  PendingPaymentEnds
CHECK_DEADLOCK FALSE
