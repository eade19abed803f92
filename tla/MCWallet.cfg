SPECIFICATION Spec
CONSTANTS
  t1 = t1
  t2 = t2
  d1 = d1
  d2 = d2
  d3 = d3
  w1 = w1
  w2 = w2
  claw = claw
  prize = prize
  TopUp = {t1, t2}
  Delivery = {d1, d2, d3}
  Of <- MCOf
  Request = {w1, w2}
  Clawback = {claw}
  Prize = {prize}
  PrizeOf <- MCPrizeOf
  Amount <- MCAmount
  Start = 4
INVARIANTS
  TypeOK
  ReservedIsBacked
  LedgerParity
PROPERTIES
  Refines
CHECK_DEADLOCK FALSE
