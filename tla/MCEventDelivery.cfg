SPECIFICATION Spec
CONSTANTS
  t1 = t1
  e1 = e1
  e2 = e2
  q1 = q1
  Tx = {t1, t2}
  Event = {e1, e2}
  Owner <- MCOwner
  Alone = Alone
  Queue = {q1}
  Subscribed <- MCSubscribed
  Worker = {w1, w2}
  Poll = {p1}
  NoWorker = NoWorker
  Batch = 2
  Attempts = 2
  MaxStalled = 1
  MaxFaults = 1
INVARIANTS
  TypeOK
  OnlyOverlapLeaks
  ShownOnce
  NoEventSkipped
  HandledOncePerFault
CHECK_DEADLOCK FALSE
