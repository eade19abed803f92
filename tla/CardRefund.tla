------------------------------- MODULE CardRefund -------------------------------
(***************************************************************************)
(* The crash-window hardened card refund of payment.service.ts: several    *)
(* callers of refund() for ONE payment row, each running                   *)
(*     T1 (durable intent) -> resolution loop -> T2 (durable arm)          *)
(*     -> gateway call -> T3 (finalize) or clear of the arm,               *)
(* against an external gateway that keeps its own ledger.                  *)
(*                                                                         *)
(* Every database transaction takes the payment row FOR UPDATE, so each is *)
(* one action; the gateway call, its answer and a crash fall between them. *)
(* The wall clock is the counter `now`, in units of which the resolution   *)
(* window is WINDOW.                                                       *)
(***************************************************************************)
EXTENDS Integers

CONSTANTS
  Callers,        \* calls of refund(): first attempts, retries, concurrent ones
  Amount,         \* Amount[c]: the cents caller c asks to refund
  Captured,       \* cents the gateway captured for this payment
  WINDOW,         \* REFUND_RESOLUTION_WINDOW_MS
  MAX_ITERATIONS, \* REFUND_DEFER_MAX_ITERATIONS
  LostReplies,    \* may a network error hide the gateway's answer?
  Slow,           \* the stages of a call that may outlast WINDOW
  MaxTime         \* bound on the clock

Stages == {"decide", "gateway", "clear"}

ASSUME ParametersAssumption ==
  /\ Amount \in [Callers -> Nat \ {0}]
  /\ Captured \in Nat /\ WINDOW \in Nat \ {0} /\ MAX_ITERATIONS \in Nat
  /\ LostReplies \in BOOLEAN /\ Slow \subseteq Stages /\ MaxTime \in Nat

VARIABLES
  status,   \* payment_transactions.payment_status
  intent,   \* status of gateway_response.refundIntent, "none" before T1
  executed, \* refundIntent.executedAt: the time of the arm, or Never
  now,      \* the clock
  ledger,   \* cents the gateway has refunded
  request,  \* what became of c's refund request at the gateway
  reversal, \* callers whose T3 published payment:refunded
  pc,       \* where c is in its call
  since,    \* when c last read the row in the loop, or armed it
  iteration,\* c's iterations of the resolution loop
  outlived  \* history: callers with a stage longer than WINDOW or a lost reply

row  == <<status, intent, executed>>
gw   == <<ledger, request>>
vars == <<status, intent, executed, now, ledger, request, reversal,
          pc, since, iteration, outlived>>

Never == -1

Statuses == {"paid", "failed", "refunded"}
Intents  == {"none", "initiated", "confirmed", "completed"}
Requests == {"none", "inflight", "accepted", "refused"}
Active   == {"idle", "resolve", "query", "arm", "calling", "clear", "finalize"}
Returned == {"done", "declined", "conflict", "crashed"}

Init ==
  /\ status \in {"paid", "failed"}
  /\ intent = "none" /\ executed = Never
  /\ now = 0 /\ ledger = 0
  /\ request   = [c \in Callers |-> "none"]
  /\ reversal  = {}
  /\ pc        = [c \in Callers |-> "idle"]
  /\ since     = [c \in Callers |-> 0]
  /\ iteration = [c \in Callers |-> 0]
  /\ outlived = {}

Goto(c, label) == pc' = [pc EXCEPT ![c] = label]

(***************************************************************************)
(* An operator whose name carries an underscore is a faulty variant of the *)
(* definition after it; no specification uses it. The runs substitute it   *)
(* to show that a property notices the fault.                              *)
(***************************************************************************)
Fresh_Ignored == FALSE

\* The arm on the row is younger than the resolution window.
Fresh == executed # Never /\ now - executed < WINDOW

Defer_OffByOne(c) ==
  IF iteration[c] <= MAX_ITERATIONS
  THEN Goto(c, "resolve") /\ iteration' = [iteration EXCEPT ![c] = @ + 1]
  ELSE Goto(c, "conflict") /\ UNCHANGED iteration

Defer_Forever(c) == Goto(c, "resolve") /\ UNCHANGED iteration

\* Go round the resolution loop again, or give up after the last iteration.
Defer(c) ==
  IF iteration[c] < MAX_ITERATIONS
  THEN Goto(c, "resolve") /\ iteration' = [iteration EXCEPT ![c] = @ + 1]
  ELSE Goto(c, "conflict") /\ UNCHANGED iteration

(***************************************************************************)
(* T1: the durable intent, in a transaction of its own.                    *)
(***************************************************************************)
EnsureIntent(c) ==
  /\ pc[c] = "idle"
  /\ \/ status = "refunded" /\ Goto(c, "done") /\ UNCHANGED intent
     \/ status = "failed" /\ Goto(c, "conflict") /\ UNCHANGED intent
     \/ /\ status = "paid" /\ Goto(c, "resolve")
        /\ intent' = IF intent = "none" THEN "initiated" ELSE intent
  /\ UNCHANGED <<status, executed, now, gw, reversal, since, iteration>>

(***************************************************************************)
(* One iteration of the resolution loop: an unlocked read of the row.      *)
(***************************************************************************)
ReadRow(c) ==
  /\ pc[c] = "resolve"
  /\ since' = [since EXCEPT ![c] = now]
  /\ \/ status = "refunded" /\ Goto(c, "done") /\ UNCHANGED iteration
     \/ status = "failed" /\ Goto(c, "conflict") /\ UNCHANGED iteration
     \/ status = "paid" /\ executed = Never /\ Goto(c, "arm") /\ UNCHANGED iteration
     \/ status = "paid" /\ Fresh /\ Defer(c)
     \/ /\ status = "paid" /\ executed # Never /\ ~Fresh
        /\ Goto(c, "query") /\ UNCHANGED iteration
  /\ UNCHANGED <<row, now, gw, reversal>>

QueryGateway_AnyAmount(c) ==
  /\ pc[c] = "query" /\ Goto(c, IF ledger > 0 THEN "finalize" ELSE "arm")
  /\ UNCHANGED <<row, now, gw, reversal, since, iteration>>

\* getRefundState of a stale arm. The gateway tells the truth of its ledger or
\* the outcome is "unknown"; priorRefundedCents of this intent is 0.
QueryGateway(c) ==
  /\ pc[c] = "query"
  /\ \/ ledger > 0 /\ Goto(c, IF ledger < Amount[c] THEN "conflict" ELSE "finalize")
     \/ ledger = 0 /\ Goto(c, "arm")
     \/ Goto(c, "conflict")
  /\ UNCHANGED <<row, now, gw, reversal, since, iteration>>

(***************************************************************************)
(* T2: arm the row unless somebody else did within the window.             *)
(***************************************************************************)
Arm(c) ==
  /\ pc[c] = "arm"
  /\ \/ /\ status = "refunded" /\ Goto(c, "done")
        /\ UNCHANGED <<row, request, since, iteration>>
     \/ /\ status = "failed" /\ Goto(c, "conflict")
        /\ UNCHANGED <<row, request, since, iteration>>
     \/ /\ status = "paid" /\ Fresh /\ Defer(c)
        /\ UNCHANGED <<row, request, since>>
     \/ /\ status = "paid" /\ ~Fresh
        /\ intent' = "confirmed" /\ executed' = now
        /\ since' = [since EXCEPT ![c] = now]
        /\ request' = [request EXCEPT ![c] = "inflight"]
        /\ Goto(c, "calling")
        /\ UNCHANGED <<status, iteration>>
  /\ UNCHANGED <<now, ledger, reversal>>

(***************************************************************************)
(* The gateway (external): it accepts a refund that fits the captured      *)
(* amount, and may refuse any.                                             *)
(***************************************************************************)
GatewayAccepts(c) ==
  /\ request[c] = "inflight" /\ ledger + Amount[c] <= Captured
  /\ ledger' = ledger + Amount[c]
  /\ request' = [request EXCEPT ![c] = "accepted"]
  /\ UNCHANGED <<row, now, reversal, pc, since, iteration>>

GatewayRefuses(c) ==
  /\ request[c] = "inflight"
  /\ request' = [request EXCEPT ![c] = "refused"]
  /\ UNCHANGED <<row, now, ledger, reversal, pc, since, iteration>>

Reply_WithoutFinalize(c) ==
  /\ pc[c] = "calling" /\ request[c] \in {"accepted", "refused"}
  /\ Goto(c, IF request[c] = "accepted" THEN "done" ELSE "clear")
  /\ UNCHANGED <<row, now, gw, reversal, since, iteration>>

\* The answer arrives.
Reply(c) ==
  /\ pc[c] = "calling" /\ request[c] \in {"accepted", "refused"}
  /\ Goto(c, IF request[c] = "accepted" THEN "finalize" ELSE "clear")
  /\ UNCHANGED <<row, now, gw, reversal, since, iteration>>

\* The fetch throws: the gateway class answers success: false all the same.
LoseReply(c) ==
  /\ LostReplies /\ pc[c] = "calling"
  /\ Goto(c, "clear")
  /\ outlived' = outlived \cup {c}
  /\ UNCHANGED <<row, now, gw, reversal, since, iteration>>

ClearArm_AnyStatus(c) ==
  /\ pc[c] = "clear" /\ Goto(c, "declined")
  /\ intent' = "initiated" /\ executed' = Never
  /\ UNCHANGED <<status, now, gw, reversal, since, iteration>>

\* success: false is read as a refusal: clear the arm, whoever's it is by now.
ClearArm(c) ==
  /\ pc[c] = "clear" /\ Goto(c, "declined")
  /\ IF status = "paid"
     THEN intent' = "initiated" /\ executed' = Never
     ELSE UNCHANGED <<intent, executed>>
  /\ UNCHANGED <<status, now, gw, reversal, since, iteration>>

(***************************************************************************)
(* T3: finalize after an accepted call or after a recovery; the event is   *)
(* part of the commit.                                                     *)
(***************************************************************************)
Finalize_NotIdempotent(c) ==
  /\ pc[c] = "finalize" /\ Goto(c, "done")
  /\ status' = "refunded" /\ intent' = "completed"
  /\ reversal' = reversal \cup {c}
  /\ UNCHANGED <<executed, now, gw, since, iteration>>

Finalize(c) ==
  /\ pc[c] = "finalize"
  /\ \/ /\ status = "refunded" /\ Goto(c, "done")
        /\ UNCHANGED <<row, reversal>>
     \/ /\ status = "paid" /\ Goto(c, "done")
        /\ status' = "refunded" /\ intent' = "completed"
        /\ executed' = IF executed = Never THEN now ELSE executed
        /\ reversal' = reversal \cup {c}
  /\ UNCHANGED <<now, gw, since, iteration>>

\* The process dies between two steps of c's call; its request stays out there.
Crash(c) ==
  /\ pc[c] \in Active /\ Goto(c, "crashed")
  /\ UNCHANGED <<row, now, gw, reversal, since, iteration>>

(***************************************************************************)
(* Time passes, never past the window of a stage that is not Slow.         *)
(***************************************************************************)
StagesOf(c) ==
  {stage \in Stages :
     \/ stage = "decide" /\ pc[c] \in {"query", "arm"}
     \/ stage = "gateway" /\ request[c] = "inflight"
     \/ stage = "clear" /\ (pc[c] = "clear" \/ (pc[c] = "calling" /\ request[c] = "refused"))}

\* The next tick ends the window of a stage of c.
Overruns(c) == StagesOf(c) # {} /\ now + 1 - since[c] >= WINDOW

Tick ==
  /\ now < MaxTime /\ \A c \in Callers : Overruns(c) => StagesOf(c) \subseteq Slow
  /\ now' = now + 1
  /\ outlived' = outlived \cup {c \in Callers : Overruns(c)}
  /\ UNCHANGED <<row, gw, reversal, pc, since, iteration>>

Step(c) ==
  \/ EnsureIntent(c) \/ ReadRow(c) \/ QueryGateway(c) \/ Arm(c)
  \/ Reply(c) \/ ClearArm(c) \/ Finalize(c)

Gateway(c) == GatewayAccepts(c) \/ GatewayRefuses(c)

Next ==
  \/ \E c \in Callers :
        \/ (Step(c) \/ Gateway(c) \/ Crash(c)) /\ UNCHANGED outlived
        \/ LoseReply(c)
  \/ Tick

Spec == Init /\ [][Next]_vars

\* A live process runs its handler on, and the gateway answers what it got.
Fairness == \A c \in Callers :
  /\ WF_vars(Step(c) /\ UNCHANGED outlived)
  /\ WF_vars(Gateway(c) /\ UNCHANGED outlived)

FairSpec == Spec /\ Fairness

-------------------------------------------------------------------------------
\* Type invariant of the row, the gateway and the calls.
TypeOK ==
  /\ status \in Statuses /\ intent \in Intents
  /\ executed \in Nat \cup {Never} /\ now \in Nat /\ ledger \in Nat
  /\ request \in [Callers -> Requests]
  /\ reversal \subseteq Callers
  /\ pc \in [Callers -> Active \cup Returned]
  /\ since \in [Callers -> Nat] /\ iteration \in [Callers -> 0..MAX_ITERATIONS]
  /\ outlived \subseteq Callers

\* The gateway accepts at most one refund of the payment, whatever crashes,
\* retries and concurrent calls there are (payment.service.ts:28-39), unless some
\* call outlived its window or lost the answer. Two refunds then do happen
\* (README, "Known to fail").
AtMostOneRefund ==
  outlived = {} =>
    \A c, d \in Callers :
      request[c] = "accepted" /\ request[d] = "accepted" => c = d

\* The accounting reversal is published exactly when the row is 'refunded', by
\* one caller alone (_finalizeCardRefund's idempotent branch under the lock).
OneReversal ==
  /\ (status = "refunded") <=> (reversal # {})
  /\ \A c, d \in reversal : c = d

\* No false finalize: what is booked as refunded did move at the gateway, in
\* full, whether T3 ran after the call or after a recovery by another caller.
NoFalseFinalize == \A c \in reversal : Amount[c] <= ledger

\* The booked reversal is the amount the gateway refunded. A retry with another
\* amount breaks it (README, "Known to fail").
BookedAmountIsRefunded == \A c \in reversal : Amount[c] = ledger

\* A caller that is told "success" leaves with the reversal committed.
SuccessIsCommitted == \A c \in Callers : pc[c] = "done" => status = "refunded"

\* Every stage of a call ends within the window, and replies tell the truth.
Prompt == Slow = {} /\ ~LostReplies

\* The callers and accounting see RefundOutcome: one reversal, for money that did
\* move, before anybody hears of a success; and money that moves once if the
\* parties are prompt. Holds under every delay and with lost replies.
Abstract == INSTANCE RefundOutcome WITH
  Once   <- Prompt,
  moved  <- {c \in Callers : request[c] = "accepted"},
  booked <- reversal,
  told   <- {c \in Callers : pc[c] = "done"}

Refines == Abstract!Spec

\* Once 'refunded' a row keeps its completed intent and its arm: no late clear
\* and no late arm of a slower caller touches it.
RefundedIsFinal == [][status = "refunded" => UNCHANGED row]_vars

\* A refund the gateway accepted ends up booked, unless its caller crashed.
AcceptedIsBooked ==
  \A c \in Callers :
    (request[c] = "accepted") ~> (status = "refunded" \/ pc[c] = "crashed")

\* A call comes to an end: the resolution loop cannot defer for ever.
CallsReturn ==
  \A c \in Callers : (pc[c] \in Active \ {"idle"}) ~> (pc[c] \in Returned)
=============================================================================
