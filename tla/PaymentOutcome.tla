----------------------------- MODULE PaymentOutcome -----------------------------
(***************************************************************************)
(* What the rest of the system may rely on of a payment, however its       *)
(* outcome became known: it is settled once, its status and its canonical  *)
(* events agree, and after payment:succeeded neither payment:failed-event  *)
(* nor payment:expired-event follows. Payment.tla implements it.           *)
(***************************************************************************)
EXTENDS Naturals

CONSTANT Payments

VARIABLES
  pay,     \* payment_transactions.payment_status
  emitted  \* emitted[p][e]: published outcome events e of p

Outcomes == {"paid", "failed"}
Finals   == Outcomes \cup {"expired"}

Init ==
  /\ pay = [p \in Payments |-> "pending"]
  /\ emitted = [p \in Payments |-> [e \in Finals |-> 0]]

Publish(p, e) == emitted' = [emitted EXCEPT ![p][e] = @ + 1]

\* The outcome and its event are one commit; expiry settles a payment, too.
Settle(p, outcome) ==
  /\ pay[p] = "pending"
  /\ pay' = [pay EXCEPT ![p] = outcome]
  /\ Publish(p, outcome)

\* The expiry event of a payment that somebody else failed or expired first.
AnnounceExpiry(p) ==
  /\ pay[p] \in {"failed", "expired"}
  /\ Publish(p, "expired")
  /\ UNCHANGED pay

Next == \E p \in Payments : AnnounceExpiry(p) \/ \E o \in Finals : Settle(p, o)

Spec == Init /\ [][Next]_<<pay, emitted>>
=============================================================================
