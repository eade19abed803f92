------------------------------ MODULE RefundOutcome ------------------------------
(***************************************************************************)
(* What the callers of refund() and accounting may rely on of one payment, *)
(* however often it is called: the reversal is booked once, only when the  *)
(* gateway has moved as much as was asked for, and whoever is told of a    *)
(* success is told of a booked one. Money moves once only if the parties   *)
(* keep to the time. CardRefund.tla implements it.                         *)
(***************************************************************************)
EXTENDS Naturals

CONSTANTS
  Callers, \* calls of refund()
  Amount,  \* Amount[c]: the cents caller c asks to refund
  Once     \* whether the gateway is asked for no second refund

VARIABLES
  moved,   \* callers whose refund the gateway made
  ledger,  \* cents the gateway has refunded
  booked,  \* callers whose reversal was published
  told     \* callers who were answered "success"

Init == moved = {} /\ ledger = 0 /\ booked = {} /\ told = {}

Move(c) ==
  /\ c \notin moved /\ (Once => moved = {})
  /\ moved' = moved \cup {c} /\ ledger' = ledger + Amount[c]
  /\ UNCHANGED <<booked, told>>

\* Whose call booked the reversal learns it at once.
Book(c) ==
  /\ booked = {} /\ Amount[c] <= ledger
  /\ booked' = {c} /\ told' = told \cup {c}
  /\ UNCHANGED <<moved, ledger>>

Tell(c) ==
  /\ booked # {} /\ told' = told \cup {c}
  /\ UNCHANGED <<moved, ledger, booked>>

Next == \E c \in Callers : Move(c) \/ Book(c) \/ Tell(c)

Spec == Init /\ [][Next]_<<moved, ledger, booked, told>>
=============================================================================
