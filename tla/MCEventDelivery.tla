--------------------------- MODULE MCEventDelivery ---------------------------
(* Small instances of EventDelivery: t1 emits e1, e2 is emitted outside a  *)
(* transaction, other transactions emit nothing.                           *)
EXTENDS EventDelivery, TLC

CONSTANTS t1, e1, e2, q1

MCOwner == [e \in Event |-> IF e = e1 THEN t1 ELSE Alone]

MCSubscribed == [q \in Queue |-> Event]
=============================================================================
