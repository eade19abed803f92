----------------------------- MODULE MCCardRefund -----------------------------
(* Small instances of CardRefund.                                          *)
EXTENDS CardRefund

CONSTANTS c1, c2

\* Everybody asks for the same half of the captured amount: two would fit.
MCAmount == [c \in Callers |-> 1]

\* The refund policy gave the retry a smaller amount than the first attempt.
MCAmountShrinks == [c \in Callers |-> IF c = c1 THEN 2 ELSE 1]
=============================================================================
