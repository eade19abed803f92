--------------------------------- MODULE Payment ---------------------------------
(***************************************************************************)
(* How a card payment of payment.service.ts learns its outcome: webhooks   *)
(* from the gateway, the repeated sync job, the repeated expiry job, the   *)
(* customer's confirmPayment and the administrator's recoverPayment all    *)
(* race to settle one payment_transactions row, which is locked FOR UPDATE *)
(* only at the end.                                                        *)
(*                                                                         *)
(* The gateway is external. It never revises a verdict, sends any of its   *)
(* notifications several times until one is answered, gives up when it     *)
(* likes, and gives all notifications of a payment one transaction id.     *)
(***************************************************************************)
EXTENDS Integers

CONSTANTS
  Payments,    \* rows of payment_transactions with a gateway reference
  Handlers,    \* webhook requests in progress at the same time
  Jobs,        \* activities that poll the gateway
  Kind,        \* Kind[k]: which of "sync", "expiry", "confirm", "recover" k is
  Unreachable, \* may getTransactionStatus fail to reach the gateway?
  Fallback,    \* may the gateway's order API refuse, so that the list answers?
  RedisDown    \* may the replay protection be unavailable?

JobKinds == {"sync", "expiry", "confirm", "recover"}
None     == "none"

ASSUME ParametersAssumption ==
  /\ Kind \in [Jobs -> JobKinds]
  /\ Unreachable \in BOOLEAN /\ Fallback \in BOOLEAN /\ RedisDown \in BOOLEAN
  /\ None \notin Payments

VARIABLES
  pay,      \* payment_transactions.payment_status
  ref,      \* whether gateway_reference is the intention's or the order's id
  emitted,  \* emitted[p][e]: published outcome events e of p
  gate,     \* the gateway's verdict
  unacked,  \* notifications the gateway still (re)delivers
  replay,   \* payments whose key webhook:processed:<id> is set in Redis
  hook,     \* where webhook request h is
  msg,      \* the notification h carries
  todo,     \* payments job k has listed and not yet handled
  at,       \* the payment job k is handling
  seen,     \* the gateway references on k's list
  answer    \* what getTransactionStatus said to k

row     == <<pay, ref, emitted>>
gateway == <<gate, unacked>>
hooks   == <<replay, hook, msg>>
polls   == <<todo, at, seen, answer>>
vars    == <<pay, ref, emitted, gate, unacked, replay, hook, msg, todo, at, seen, answer>>

Outcomes      == {"paid", "failed"}
FINAL_STATES  == {"paid", "failed", "expired"}
Statuses      == {"pending"} \cup FINAL_STATES
Verdicts      == {"open", "captured", "declined"}
Notifications == Payments \X ({"pending"} \cup Outcomes)
NoMessage     == <<None, None>>
Answers       == {None, "pending", "error"} \cup Outcomes

Init ==
  /\ pay     = [p \in Payments |-> "pending"]
  /\ ref     = [p \in Payments |-> "intention"]
  /\ emitted = [p \in Payments |-> [e \in FINAL_STATES |-> 0]]
  /\ gate    = [p \in Payments |-> "open"]
  /\ unacked = {} /\ replay = {}
  /\ hook    = [h \in Handlers |-> "idle"]
  /\ msg     = [h \in Handlers |-> NoMessage]
  /\ todo    = [k \in Jobs |-> {}]
  /\ at      = [k \in Jobs |-> None]
  /\ seen    = [k \in Jobs |-> ref]
  /\ answer  = [k \in Jobs |-> None]

(***************************************************************************)
(* The gateway (external).                                                 *)
(***************************************************************************)
Verdict(p, outcome) ==
  /\ gate[p] = "open"
  /\ gate' = [gate EXCEPT ![p] = IF outcome = "paid" THEN "captured" ELSE "declined"]
  /\ unacked' = unacked \cup {<<p, outcome>>}
  /\ UNCHANGED <<row, hooks, polls>>

NotifyPending(p) ==
  /\ gate[p] = "open" /\ unacked' = unacked \cup {<<p, "pending">>}
  /\ UNCHANGED <<row, gate, hooks, polls>>

GiveUp(m) ==
  /\ m \in unacked /\ unacked' = unacked \ {m}
  /\ UNCHANGED <<row, gate, hooks, polls>>

(***************************************************************************)
(* _processPaymentOutcome under the row lock: the row and its event change *)
(* together, or nothing does. Names with an underscore are faulty variants *)
(* of the definition after them, as in every module of the project.        *)
(***************************************************************************)
Outcome_EventOutsideGuard(p, outcome) ==
  /\ pay' = IF pay[p] \in FINAL_STATES THEN pay ELSE [pay EXCEPT ![p] = outcome]
  /\ emitted' = [emitted EXCEPT ![p][outcome] = @ + 1]

Outcome(p, outcome) ==
  IF pay[p] \in FINAL_STATES
  THEN UNCHANGED <<pay, emitted>>
  ELSE /\ pay' = [pay EXCEPT ![p] = outcome]
       /\ emitted' = [emitted EXCEPT ![p][outcome] = @ + 1]

(***************************************************************************)
(* handleWebhook: look the replay key up, set it, correlate, settle.       *)
(***************************************************************************)
HookGoto(h, label) == hook' = [hook EXCEPT ![h] = label] /\ UNCHANGED msg

HookStarts(h, m, label) ==
  hook' = [hook EXCEPT ![h] = label] /\ msg' = [msg EXCEPT ![h] = m]

HookEnds(h) == hook' = [hook EXCEPT ![h] = "idle"] /\ msg' = [msg EXCEPT ![h] = NoMessage]

Acknowledge(h) == unacked' = unacked \ {msg[h]} /\ HookEnds(h)

Receive(h, m) ==
  /\ hook[h] = "idle" /\ m \in unacked
  /\ \/ m[1] \in replay /\ unacked' = unacked \ {m} /\ UNCHANGED <<hook, msg>>
     \/ m[1] \notin replay /\ HookStarts(h, m, "claim") /\ UNCHANGED unacked
     \/ RedisDown /\ HookStarts(h, m, "correlate") /\ UNCHANGED unacked
  /\ UNCHANGED <<row, gate, replay, polls>>

\* The key is set before anything is processed.
Claim(h) ==
  /\ hook[h] = "claim" /\ HookGoto(h, "correlate")
  /\ \/ replay' = replay \cup {msg[h][1]}
     \/ RedisDown /\ UNCHANGED replay
  /\ UNCHANGED <<row, gateway, polls>>

Correlate_PendingIsFailure(h) ==
  /\ hook[h] = "correlate"
  /\ ref' = [ref EXCEPT ![msg[h][1]] = "order"]
  /\ HookGoto(h, "settle")
  /\ UNCHANGED <<pay, emitted, gateway, replay, polls>>

\* A pending notification is ignored; else the row gets the real order id.
Correlate(h) ==
  /\ hook[h] = "correlate"
  /\ \/ /\ msg[h][2] = "pending"
        /\ Acknowledge(h) /\ UNCHANGED ref
     \/ /\ msg[h][2] # "pending"
        /\ ref' = [ref EXCEPT ![msg[h][1]] = "order"]
        /\ HookGoto(h, "settle") /\ UNCHANGED unacked
  /\ UNCHANGED <<pay, emitted, gate, replay, polls>>

SettleWebhook(h) ==
  /\ hook[h] = "settle" /\ Acknowledge(h)
  /\ Outcome(msg[h][1], IF msg[h][2] = "paid" THEN "paid" ELSE "failed")
  /\ UNCHANGED <<ref, gate, replay, polls>>

\* The request fails or its process dies: no answer, so no acknowledgement.
FailWebhook(h) ==
  /\ hook[h] # "idle" /\ HookEnds(h)
  /\ UNCHANGED <<row, gateway, replay, polls>>

(***************************************************************************)
(* The activities that ask the gateway.                                    *)
(***************************************************************************)
StartJob(k, ps) ==
  /\ todo[k] = {} /\ at[k] = None /\ ps # {}
  /\ todo' = [todo EXCEPT ![k] = ps] /\ seen' = [seen EXCEPT ![k] = ref]
  /\ UNCHANGED <<row, gateway, hooks, at, answer>>

\* findPendingPayments: one unlocked read for the whole batch.
ListPending(k) ==
  Kind[k] \in {"sync", "expiry"} /\ StartJob(k, {p \in Payments : pay[p] = "pending"})

Confirm(k) == Kind[k] = "confirm" /\ \E p \in Payments : pay[p] # "paid" /\ StartJob(k, {p})

Recover(k) == Kind[k] = "recover" /\ \E p \in Payments : StartJob(k, {p})

Truth(p) == CASE gate[p] = "open" -> "pending"
              [] gate[p] = "captured" -> "paid"
              [] gate[p] = "declined" -> "failed"

\* getTransactionStatus: "error" is the answer status: 'failed' + errorMessage.
\* The list of transactions is the merchant's; without an order_id its first
\* element is taken, with one any element whose reference starts with it.
Query(k) ==
  /\ at[k] = None
  /\ \E p \in todo[k] :
       /\ at' = [at EXCEPT ![k] = p]
       /\ todo' = [todo EXCEPT ![k] = @ \ {p}]
       /\ \/ answer' = [answer EXCEPT ![k] = Truth(p)]
          \/ Fallback /\ \E q \in Payments : answer' = [answer EXCEPT ![k] = Truth(q)]
          \/ Unreachable /\ answer' = [answer EXCEPT ![k] = "error"]
  /\ UNCHANGED <<row, gateway, hooks, seen>>

\* lockById, or lockByGatewayRef with the reference read at the start.
Found(k) == Kind[k] = "confirm" \/ seen[k][at[k]] = ref[at[k]]

Leave_KeepsAnswer(k) == at' = [at EXCEPT ![k] = None] /\ UNCHANGED answer

Leave(k) == at' = [at EXCEPT ![k] = None] /\ answer' = [answer EXCEPT ![k] = None]

SettlePoll_Never(k) ==
  /\ Kind[k] # "expiry" /\ at[k] # None /\ Leave(k)
  /\ UNCHANGED <<row, gateway, hooks, todo, seen>>

\* sync, confirm and recover read status alone, so an error counts as failed.
SettlePoll(k) ==
  /\ Kind[k] # "expiry" /\ at[k] # None /\ Leave(k)
  /\ IF answer[k] # "pending" /\ Found(k)
     THEN Outcome(at[k], IF answer[k] = "paid" THEN "paid" ELSE "failed")
     ELSE UNCHANGED <<pay, emitted>>
  /\ UNCHANGED <<ref, gateway, hooks, todo, seen>>

SettleExpiry_SkipsOnlyPending(k) ==
  /\ Kind[k] = "expiry" /\ at[k] # None /\ Leave(k)
  /\ \/ answer[k] = "paid" /\ Outcome(at[k], "paid")
     \/ answer[k] = "pending" /\ UNCHANGED <<pay, emitted>>
     \/ /\ answer[k] \in {"failed", "error"}
        /\ pay' = IF pay[at[k]] \in FINAL_STATES THEN pay
                  ELSE [pay EXCEPT ![at[k]] = "expired"]
        /\ emitted' = [emitted EXCEPT ![at[k]]["expired"] = @ + 1]
  /\ UNCHANGED <<ref, gateway, hooks, todo, seen>>

SettleExpiry_PaidUnlessFailed(k) ==
  /\ Kind[k] = "expiry" /\ at[k] # None /\ Leave(k)
  /\ \/ answer[k] \in {"paid", "error"} /\ Outcome(at[k], "paid")
     \/ answer[k] \in {"pending", "failed"} /\ UNCHANGED <<pay, emitted>>
  /\ UNCHANGED <<ref, gateway, hooks, todo, seen>>

\* The UPDATE spares a final row, the event is published all the same.
SettleExpiry(k) ==
  /\ Kind[k] = "expiry" /\ at[k] # None /\ Leave(k)
  /\ \/ answer[k] = "paid" /\ Outcome(at[k], "paid")
     \/ answer[k] \in {"pending", "error"} /\ UNCHANGED <<pay, emitted>>
     \/ /\ answer[k] = "failed"
        /\ pay' = IF pay[at[k]] \in FINAL_STATES THEN pay
                  ELSE [pay EXCEPT ![at[k]] = "expired"]
        /\ emitted' = [emitted EXCEPT ![at[k]]["expired"] = @ + 1]
  /\ UNCHANGED <<ref, gateway, hooks, todo, seen>>

\* The process dies, or one payment of the batch throws.
FailJob(k) ==
  /\ at[k] # None \/ todo[k] # {}
  /\ Leave(k)
  /\ todo' = [todo EXCEPT ![k] = {}]
  /\ UNCHANGED <<row, gateway, hooks, seen>>

-------------------------------------------------------------------------------
Gateway ==
  \/ \E p \in Payments : NotifyPending(p) \/ \E o \in Outcomes : Verdict(p, o)
  \/ \E m \in unacked : GiveUp(m)

Webhook(h) == Claim(h) \/ Correlate(h) \/ SettleWebhook(h)

JobStep(k) == ListPending(k) \/ Query(k) \/ SettlePoll(k) \/ SettleExpiry(k)

Next ==
  \/ Gateway
  \/ \E h \in Handlers :
       Webhook(h) \/ FailWebhook(h) \/ \E m \in unacked : Receive(h, m)
  \/ \E k \in Jobs : JobStep(k) \/ Confirm(k) \/ Recover(k) \/ FailJob(k)

Spec == Init /\ [][Next]_vars

(***************************************************************************)
(* BullMQ starts the repeated jobs again whatever became of the run before *)
(* (queue.service.ts), and a payment of their lists is not failed on every *)
(* time before it is asked about or before it is settled.                  *)
(***************************************************************************)
QueryOf(k, p) == Query(k) /\ at'[k] = p

SettleOf(k, p) == at[k] = p /\ (SettlePoll(k) \/ SettleExpiry(k))

Fairness ==
  \A k \in Jobs :
    /\ WF_vars(ListPending(k))
    /\ \A p \in Payments : SF_vars(QueryOf(k, p)) /\ SF_vars(SettleOf(k, p))

FairSpec == Spec /\ Fairness

-------------------------------------------------------------------------------
\* Type invariant of the rows, the gateway, the webhooks and the jobs.
TypeOK ==
  /\ pay \in [Payments -> Statuses]
  /\ ref \in [Payments -> {"intention", "order"}]
  /\ emitted \in [Payments -> [FINAL_STATES -> Nat]]
  /\ gate \in [Payments -> Verdicts]
  /\ unacked \subseteq Notifications /\ replay \subseteq Payments
  /\ hook \in [Handlers -> {"idle", "claim", "correlate", "settle"}]
  /\ msg \in [Handlers -> Notifications \cup {NoMessage}]
  /\ \A h \in Handlers : hook[h] = "idle" <=> msg[h] = NoMessage
  /\ todo \in [Jobs -> SUBSET Payments]
  /\ at \in [Jobs -> Payments \cup {None}]
  /\ seen \in [Jobs -> [Payments -> {"intention", "order"}]]
  /\ answer \in [Jobs -> Answers]
  /\ \A k \in Jobs : at[k] = None <=> answer[k] = None

\* However many webhooks, jobs and confirmations settle a payment, the row and
\* its canonical event agree: "paid" and "failed" are published exactly once by
\* the row that has that status, and by no other row (the "single canonical
\* emission point" of _processPaymentOutcome).
OneOutcome ==
  \A p \in Payments : \A o \in Outcomes :
    emitted[p][o] = IF pay[p] = o THEN 1 ELSE 0

\* A row is paid only if the gateway captured the money.
PaidWasCaptured == \A p \in Payments : pay[p] = "paid" => gate[p] = "captured"

\* A row becomes failed only if the gateway refused the payment, or in the hands
\* of a sync, a confirmation or a recovery that got no answer: these read an
\* unreachable gateway as a refusal (getTransactionStatus says status 'failed').
FailedWasDeclined ==
  [][\A p \in Payments :
       pay[p] # "failed" /\ pay'[p] = "failed" =>
         \/ gate[p] = "declined"
         \/ \E k \in Jobs :
              Kind[k] # "expiry" /\ at[k] = p /\ answer[k] = "error" /\ at'[k] = None]_vars

\* The same without the exception. Not so (README, "Known to fail").
FailedWasRefused == \A p \in Payments : pay[p] = "failed" => gate[p] = "declined"

\* The SAFETY comment of expireStalePayments: nothing that tells the business
\* modules "expired" (the status or the event, which is published even when the
\* UPDATE matched no row) concerns a payment the gateway may have captured.
NoExpiryOfCaptured ==
  \A p \in Payments : pay[p] = "expired" \/ emitted[p]["expired"] > 0 => gate[p] = "declined"

\* For the listeners of its events a payment is the abstract PaymentOutcome.
Abstract == INSTANCE PaymentOutcome

Refines == Abstract!Spec

\* A final status is never replaced, by whatever late webhook or job (proved, and
\* part of what Refines checks).
FinalIsFinal ==
  [][\A p \in Payments : pay[p] \in FINAL_STATES => pay'[p] = pay[p]]_vars

\* A captured payment ends up paid although the replay key swallows webhooks
\* that were never processed: the sync job repairs it (sync-flow.md, "When Sync
\* Is Needed").
CapturedIsBooked ==
  \A p \in Payments : gate[p] = "captured" ~> pay[p] = "paid"
=============================================================================
