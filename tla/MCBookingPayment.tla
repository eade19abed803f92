---------------------------- MODULE MCBookingPayment ----------------------------
(* Small instances of BookingPayment.                                      *)
EXTENDS BookingPayment, TLC

CONSTANTS b1, b2, b3, s1,
          Prepared, \* the bookings made in two phases
          Cash      \* those made with cash; the others are made with a card

\* All bookings want the same slot.
MCSlot == [b \in Bookings |-> s1]

MCMethod ==
  [b \in Bookings |->
     CASE b \in Prepared -> "prepare" [] b \in Cash -> "cash" [] OTHER -> "card"]
=============================================================================
