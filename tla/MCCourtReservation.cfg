SPECIFICATION Spec
CONSTANTS
  m1 = m1
  first = first
  moved = moved
  release = release
  prepare = prepare
  direct = direct
  k1 = k1
  None = None
  Call = {first, moved, release, prepare, direct}
  Match = {m1}
  Court = {k1}
  Kind <- MCKind
  For <- MCFor
  Want <- MCWant
  MatchSlot = 2
  CourtSlot = 2
  Hazards = {"lapse", "die", "cancel"}
INVARIANTS
  TypeOK
  SharedSlotExcludes
  CheckExcludes
  OneReservation
  ShownIsReserved
CHECK_DEADLOCK FALSE
