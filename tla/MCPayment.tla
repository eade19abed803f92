------------------------------- MODULE MCPayment -------------------------------
(* Small instances of Payment.                                             *)
EXTENDS Payment, TLC

CONSTANTS p1, p2, h1, h2, sync, expiry, confirm, recover

MCKind ==
  [k \in Jobs |-> CASE k = sync -> "sync" [] k = expiry -> "expiry"
                    [] k = confirm -> "confirm" [] k = recover -> "recover"]
=============================================================================
