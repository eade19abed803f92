------------------------------ MODULE SlotBooking ------------------------------
(***************************************************************************)
(* What customers, staff and accounting may rely on of bookings: a slot is *)
(* taken only when no other booking holds it, a slot once given up is      *)
(* taken back only by the desk, which looks at nobody else's booking, only *)
(* a captured payment marks a booking paid, and money goes back only for a *)
(* marked booking that gave up its slot. BookingPayment.tla implements it. *)
(***************************************************************************)
CONSTANTS
  Bookings, \* booking attempts
  Slot      \* Slot[b]: the slot b is for

VARIABLES
  state,    \* state[b]: no row yet, "held", or "over"
  captured, \* bookings whose payment is captured
  marked,   \* bookings with payment_status 'paid'
  refunded, \* bookings whose money was given back
  revived   \* bookings the desk let have their slot back

Init ==
  /\ state = [b \in Bookings |-> "none"]
  /\ captured = {} /\ marked = {} /\ refunded = {} /\ revived = {}

Take(b) ==
  /\ state[b] = "none"
  /\ \A c \in Bookings : Slot[c] = Slot[b] => state[c] # "held"
  /\ state' = [state EXCEPT ![b] = "held"]
  /\ UNCHANGED <<captured, marked, refunded, revived>>

\* Cancelled, expired, or the customer did not show up.
GiveUp(b) ==
  /\ state[b] = "held" /\ state' = [state EXCEPT ![b] = "over"]
  /\ UNCHANGED <<captured, marked, refunded, revived>>

Revive(b) ==
  /\ state[b] = "over" /\ state' = [state EXCEPT ![b] = "held"]
  /\ revived' = revived \cup {b}
  /\ UNCHANGED <<captured, marked, refunded>>

Capture(b) ==
  /\ captured' = captured \cup {b}
  /\ UNCHANGED <<state, marked, refunded, revived>>

Mark(b) ==
  /\ b \in captured /\ marked' = marked \cup {b}
  /\ UNCHANGED <<state, captured, refunded, revived>>

Refund(b) ==
  /\ b \in marked /\ (state[b] = "over" \/ b \in revived)
  /\ refunded' = refunded \cup {b}
  /\ UNCHANGED <<state, captured, marked, revived>>

Next ==
  \E b \in Bookings :
    Take(b) \/ GiveUp(b) \/ Revive(b) \/ Capture(b) \/ Mark(b) \/ Refund(b)

Spec == Init /\ [][Next]_<<state, captured, marked, refunded, revived>>
=============================================================================
