SPECIFICATION Spec
CONSTANTS
  b1 = b1
  b2 = b2
  b3 = b3
  s1 = s1
  Prepared = {b1}
  Cash = {b3}
  Bookings = {b1}
  Slots = {s1}
  Slot <- MCSlot
  Method <- MCMethod
  Actors = {"player", "staff", "desk"}
  Hazards = {"late", "leave", "crash"}
  MaxExpiries = 1
  MaxStalled = 1
  MaxVersion = 2
PROPERTIES
  Refines
  PaidIsCancelledOnRequest
  OnlyAllowedTransitions
CHECK_DEADLOCK FALSE
