------------------------------ MODULE MCWallet ------------------------------
(* A small instance of Wallet: money for some of the moves, not for all.   *)
EXTENDS Wallet

CONSTANTS t1, t2, d1, d2, d3, w1, w2, claw, prize

\* One top-up is delivered twice: by the process that booked the payment, and by
\* the worker that replays it.
MCOf == [d \in Delivery |-> IF d = d3 THEN t2 ELSE t1]

MCPrizeOf == [c \in Clawback |-> prize]

MCAmount ==
    [r \in Reference |-> CASE r \in {w1, prize, claw} -> 2 [] r = w2 -> 3 [] OTHER -> 1]
=============================================================================
