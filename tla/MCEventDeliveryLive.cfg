SPECIFICATION Spec
CONSTANTS
  t1 = t1
  e1 = e1
  e2 = e2
  q1 = q1
  Tx = {t1}
  Event = {e1, e2}
  Owner <- MCOwner
  Alone = Alone
  Queue = {q1}
  Subscribed <- MCSubscribed
  Worker = {w1}
  Poll = {p1}
  NoWorker = NoWorker
  Batch = 2
  Attempts = 2
  MaxStalled = 1
  MaxFaults = 2
PROPERTIES
  EventuallyHandled
CHECK_DEADLOCK FALSE
