----------------------------- MODULE BookingPayment -----------------------------
(***************************************************************************)
(* Bookings of slots and the payments for them (booking.service.ts, the    *)
(* booking commands, booking-payment.listener.ts, booking-expiry.worker).  *)
(*                                                                         *)
(* A payment is the abstract PaymentOutcome, which Payment.tla implements. *)
(* Its events are handled in memory after the commit that settled it, and  *)
(* payment:succeeded a second time by the job that replays the accounting  *)
(* events, which calls all handlers of the event again.  Every booking     *)
(* command reads the row, plans a transition, and writes it if the         *)
(* aggregate version is still the one read; nobody retries a command.      *)
(***************************************************************************)
EXTENDS Integers

CONSTANTS
  Bookings,   \* booking attempts of customers
  Slots,      \* slots of resources
  Slot,       \* Slot[b]: the slot b is for
  Method,     \* Method[b]: "prepare" (card, paid before there is a row), "card", "cash"
  Actors,     \* those of "player", "staff", "desk" who act
  Hazards,    \* those of "late", "leave", "crash" that happen
  MaxExpiries, \* bound: expiry events of one payment
  MaxVersion, \* bound: the desk checks in a booking up to this version
  MaxStalled  \* maxStalledCount of BullMQ (1)

None == "none"

ASSUME BookingAssumption ==
  /\ Slot \in [Bookings -> Slots]
  /\ Method \in [Bookings -> {"prepare", "card", "cash"}]
  /\ Actors \subseteq {"player", "staff", "desk"}
  /\ Hazards \subseteq {"late", "leave", "crash"}
  /\ MaxExpiries \in Nat /\ MaxVersion \in Nat /\ MaxStalled \in Nat
  /\ None \notin Bookings

VARIABLES
  pay, emitted, \* the payments, see PaymentOutcome
  intent,       \* bookings whose payment_transactions row exists
  linked,       \* those whose row has reference_type 'booking'
  replay,       \* replay[b]: the job that replays payment:succeeded for b
  holder,       \* holder[s]: the booking attempt that holds the Redis lock of s
  step,         \* step[b]: where the request that creates b is
  status,       \* bookings.booking_status
  version,      \* bookings.aggregate_version
  paid,         \* bookings with payment_status 'paid'
  lapsed,       \* bookings whose expires_at has passed
  refunded,     \* bookings whose money was given back
  revived,      \* history: bookings checked in after they gave up their slot
  cmd           \* cmd[b][r]: what role r is doing to b

payment == <<pay, emitted, intent, linked, replay>>
row     == <<status, version, paid, lapsed, revived>>
vars    == <<pay, emitted, intent, linked, replay, holder, step, status, version, paid,
             lapsed, refunded, revived, cmd>>

Pay == INSTANCE PaymentOutcome WITH Payments <- Bookings

\* The event handlers are named after the outcome they handle, "replay" is the
\* one of payment:succeeded run by the job; "creator" is the request that creates
\* the booking, "worker" the expiry worker.
Events    == {"paid", "failed", "expired"}
Succeeded == {"paid", "replay"}
Handlers  == Events \cup Succeeded
Roles     == Handlers \cup {"creator", "worker", "player", "staff"}

Statuses == {None, "pending", "pending_payment", "confirmed", "checked_in", "completed",
             "no_show", "cancelled", "expired"}

\* The statuses of a booking that waits for its payment.
Waiting == {"pending", "pending_payment"}

ALLOWED_TRANSITIONS ==
  [s \in Statuses |->
     CASE s \in Waiting    -> {"confirmed", "cancelled", "expired"}
       [] s = "confirmed"  -> {"completed", "cancelled", "no_show", "checked_in"}
       [] s = "checked_in" -> {"completed", "no_show"}
       [] OTHER            -> {}]

\* checkSlotAvailability counts every row but the ones with these statuses.
Blocking(s) == s \notin {None, "cancelled", "expired", "no_show"}

Free(b) == \A c \in Bookings : Slot[c] = Slot[b] => ~Blocking(status[c])

Commands == [at : {"idle", "event", "mark", "command", "write", "refund"},
             to : Statuses, version : Nat, refund : BOOLEAN]

Idle     == [at |-> "idle", to |-> None, version |-> 0, refund |-> FALSE]
Event    == [Idle EXCEPT !.at = "event"]
Order(s) == [Idle EXCEPT !.at = "command", !.to = s]

Set(b, r, c) == cmd' = [cmd EXCEPT ![b][r] = c]

\* A job is due, taken by a worker, recorded as done, or was killed too often.
Jobs == [at : {"none", "due", "taken", "done", "dead"}, stalled : Nat]

NoJob == [at |-> "none", stalled |-> 0]

JobAt(b, label) == replay' = [replay EXCEPT ![b].at = label]

Init ==
  /\ Pay!Init
  /\ intent = {} /\ linked = {} /\ paid = {} /\ lapsed = {}
  /\ refunded = {} /\ revived = {}
  /\ replay  = [b \in Bookings |-> NoJob]
  /\ holder  = [s \in Slots |-> None]
  /\ step    = [b \in Bookings |-> "new"]
  /\ status  = [b \in Bookings |-> None]
  /\ version = [b \in Bookings |-> 0]
  /\ cmd     = [b \in Bookings |-> [r \in Roles |-> Idle]]

(***************************************************************************)
(* The Redis lock, taken for all slots of a booking or none.               *)
(***************************************************************************)
Lock(b) == holder[Slot[b]] = None /\ holder' = [holder EXCEPT ![Slot[b]] = b]

\* Compare-and-delete: only the owner's lock goes.
Unlock(b) ==
  holder' = IF holder[Slot[b]] = b THEN [holder EXCEPT ![Slot[b]] = None] ELSE holder

\* The lock's time to live ends before the request or the session it guards.
LockExpires(s) ==
  /\ "late" \in Hazards /\ holder[s] # None
  /\ holder' = [holder EXCEPT ![s] = None]
  /\ UNCHANGED <<payment, step, row, refunded, cmd>>

(***************************************************************************)
(* Creating a booking.                                                     *)
(***************************************************************************)
Goto(b, label) == step' = [step EXCEPT ![b] = label]

Insert_Unguarded(b, s) ==
  /\ status'  = [status EXCEPT ![b] = s]
  /\ version' = [version EXCEPT ![b] = 1]
  /\ UNCHANGED <<paid, lapsed, revived>>

\* create under the resource's row lock, after the overlap check.
Insert(b, s) ==
  /\ Free(b)
  /\ status'  = [status EXCEPT ![b] = s]
  /\ version' = [version EXCEPT ![b] = 1]
  /\ UNCHANGED <<paid, lapsed, revived>>

\* prepareGatewayBooking: lock, check, create the payment, store the session.
Prepare(b) ==
  /\ Method[b] = "prepare" /\ step[b] = "new"
  /\ Lock(b) /\ Free(b) /\ Goto(b, "prepared")
  /\ intent' = intent \cup {b}
  /\ UNCHANGED <<pay, emitted, linked, replay, row, refunded, cmd>>

\* cancelPrepare, or the session's time to live ends: the payment stays.
Abandon(b) ==
  /\ "leave" \in Hazards /\ step[b] = "prepared"
  /\ Goto(b, "gone") /\ Unlock(b)
  /\ UNCHANGED <<payment, row, refunded, cmd>>

\* _createFromPrepare, its transaction.
ConfirmPrepare(b) ==
  /\ step[b] = "prepared"
  /\ \/ Insert(b, "pending_payment") /\ Goto(b, "inserted") /\ UNCHANGED holder
     \/ ~Free(b) /\ Goto(b, "refused") /\ Unlock(b) /\ UNCHANGED row
  /\ UNCHANGED <<payment, refunded, cmd>>

\* _createFromPrepare, the rest: the payment's row is linked, then read; one that
\* is paid may have had its event before the link, so the booking is confirmed here.
Link(b) ==
  /\ step[b] = "inserted" /\ Goto(b, "linked")
  /\ linked' = linked \cup {b}
  /\ UNCHANGED <<pay, emitted, intent, replay, holder, row, refunded, cmd>>

ConfirmIfPaid_Never(b) ==
  /\ step[b] = "linked" /\ Goto(b, "done") /\ Unlock(b)
  /\ UNCHANGED <<payment, row, refunded, cmd>>

ConfirmIfPaid(b) ==
  /\ step[b] = "linked" /\ Goto(b, "done") /\ Unlock(b)
  /\ IF pay[b] = "paid" THEN Set(b, "creator", Order("confirmed")) ELSE UNCHANGED cmd
  /\ UNCHANGED <<payment, row, refunded>>

\* createBookingV2: no lock is taken or looked at, and the row has no expires_at.
\* The request confirms a cash booking by a command of its own.
CreateBookingV2(b) ==
  /\ Method[b] \in {"card", "cash"} /\ step[b] = "new"
  /\ Insert(b, "pending")
  /\ IF Method[b] = "cash"
     THEN Goto(b, "done") /\ Set(b, "creator", Order("confirmed"))
     ELSE Goto(b, "unpaid") /\ UNCHANGED cmd
  /\ UNCHANGED <<payment, holder, refunded>>

\* Faulty variant: the payment's row is linked before the gateway accepts it.
Charge_LinksRefused(b) ==
  /\ step[b] = "unpaid" /\ Goto(b, "done")
  /\ linked' = linked \cup {b} /\ intent' \in {intent, intent \cup {b}}
  /\ UNCHANGED <<pay, emitted, replay, holder, row, refunded, cmd>>

\* charge: the customer of a card booking pays for the row there is, whatever has
\* become of it. A charge the gateway refuses leaves nothing behind.
Charge(b) ==
  /\ step[b] = "unpaid" /\ Goto(b, "done")
  /\ intent' = intent \cup {b} /\ linked' = linked \cup {b}
  /\ UNCHANGED <<pay, emitted, replay, holder, row, refunded, cmd>>

\* No request, event, command or job is busy with b.
Quiet(b) ==
  /\ step[b] \notin {"inserted", "linked"} /\ replay[b].at \notin {"due", "taken"}
  /\ \A r \in Roles : cmd[b][r] = Idle

(***************************************************************************)
(* The payment is settled, and its event handed to the booking listener if *)
(* the row is linked. The expiry job decides that from a row it read       *)
(* earlier, so its event may miss a booking that is linked by now.         *)
(* payment:succeeded is one of the events that are replayed: its commit    *)
(* leaves a job too (EventDelivery says how). Unless things are late, the  *)
(* customer pays before expires_at.                                        *)
(***************************************************************************)
Settle(b, outcome) ==
  /\ b \in intent /\ Pay!Settle(b, outcome)
  /\ outcome = "paid" => b \notin lapsed \/ "late" \in Hazards
  /\ \/ b \in linked /\ Set(b, outcome, Event)
     \/ (b \notin linked \/ outcome = "expired") /\ UNCHANGED cmd
  /\ IF b \in linked /\ outcome = "paid" THEN JobAt(b, "due") ELSE UNCHANGED replay
  /\ UNCHANGED <<intent, linked, holder, step, row, refunded>>

\* Faulty variant: the job only posts, it does not call the booking's handler.
ReplayDispatch_OnlyAccounting(b) ==
  /\ replay[b].at = "due" /\ JobAt(b, "taken") /\ UNCHANGED cmd
  /\ UNCHANGED <<pay, emitted, intent, linked, holder, step, row, refunded>>

\* replayDispatch: the job runs the in-memory handlers again.
ReplayDispatch(b) ==
  /\ replay[b].at = "due" /\ JobAt(b, "taken") /\ Set(b, "replay", Event)
  /\ UNCHANGED <<pay, emitted, intent, linked, holder, step, row, refunded>>

\* The handlers keep their errors to themselves: however they end, the job is done.
ReplayRecorded(b) ==
  /\ replay[b].at = "taken" /\ cmd[b]["replay"] = Idle /\ JobAt(b, "done")
  /\ UNCHANGED <<pay, emitted, intent, linked, holder, step, row, refunded, cmd>>

AnnounceExpiry(b) ==
  /\ Pay!AnnounceExpiry(b) /\ emitted[b]["expired"] < MaxExpiries
  /\ \/ b \in linked /\ cmd[b]["expired"] = Idle /\ Set(b, "expired", Event)
     \/ UNCHANGED cmd
  /\ UNCHANGED <<intent, linked, replay, holder, step, row, refunded>>

\* The listener looks at the booking before it issues a command.
Deliver(b, e) ==
  /\ cmd[b][e].at = "event"
  /\ Set(b, e,
       CASE e \in Succeeded /\ status[b] = "confirmed"         -> [Idle EXCEPT !.at = "mark"]
         [] e \in Succeeded /\ status[b] \in Waiting           -> Order("confirmed")
         [] e \notin Succeeded /\ status[b] \notin {"cancelled", "expired"} -> Order("cancelled")
         [] OTHER                                            -> Idle)
  /\ UNCHANGED <<payment, holder, step, row, refunded>>

\* persistPaymentStatus, without the version.
MarkPaid(b, r) ==
  /\ cmd[b][r].at = "mark"
  /\ paid' = paid \cup {b} /\ Set(b, r, Idle)
  /\ UNCHANGED <<payment, holder, step, status, version, lapsed, refunded, revived>>

(***************************************************************************)
(* Those who ask for a transition: "player" is who cancels, the customer   *)
(* or an administrator, "staff" who confirms or closes. A cancellation     *)
(* decides here, before its command, whether there will be a refund.       *)
(***************************************************************************)
Ask(b, r, s) ==
  /\ r \in Actors /\ cmd[b][r] = Idle /\ status[b] # None
  /\ Set(b, r, [Order(s) EXCEPT !.refund = (s = "cancelled" /\ b \in paid)])
  /\ UNCHANGED <<payment, holder, step, row, refunded>>

CancelBooking(b) == status[b] # "cancelled" /\ Ask(b, "player", "cancelled")

UpdateBookingStatus(b) ==
  \E s \in {"confirmed", "completed", "no_show"} : Ask(b, "staff", s)

\* checkIn: no transition check, no version.
CheckIn(b) ==
  /\ "desk" \in Actors /\ status[b] # None /\ version[b] <= MaxVersion
  /\ status'  = [status EXCEPT ![b] = "checked_in"]
  /\ revived' = IF Blocking(status[b]) THEN revived ELSE revived \cup {b}
  /\ UNCHANGED <<payment, holder, step, version, paid, lapsed, refunded, cmd>>

\* expires_at passes, unless things are late not while a payment is dealt with.
Lapse(b) ==
  /\ status[b] = "pending_payment" /\ b \notin lapsed
  /\ "late" \in Hazards \/ pay[b] # "paid" \/ Quiet(b)
  /\ lapsed' = lapsed \cup {b}
  /\ UNCHANGED <<payment, holder, step, status, version, paid, refunded, revived, cmd>>

ListExpired_LinkedOnly(b) ==
  /\ cmd[b]["worker"] = Idle /\ status[b] = "pending_payment" /\ b \in lapsed
  /\ b \in linked /\ Set(b, "worker", Order("expired"))
  /\ UNCHANGED <<payment, holder, step, row, refunded>>

\* Faulty variant: the worker issues the other command.
ListExpired_Cancels(b) ==
  /\ cmd[b]["worker"] = Idle /\ status[b] = "pending_payment" /\ b \in lapsed
  /\ Set(b, "worker", Order("cancelled"))
  /\ UNCHANGED <<payment, holder, step, row, refunded>>

ListExpired(b) ==
  /\ cmd[b]["worker"] = Idle /\ status[b] = "pending_payment" /\ b \in lapsed
  /\ Set(b, "worker", Order("expired"))
  /\ UNCHANGED <<payment, holder, step, row, refunded>>

(***************************************************************************)
(* A command in the pipeline: read and plan, then write. A command that    *)
(* finds its transition made, refused or the version changed ends here.    *)
(***************************************************************************)
Read(b, r) ==
  /\ cmd[b][r].at = "command"
  /\ Set(b, r, IF cmd[b][r].to \in ALLOWED_TRANSITIONS[status[b]]
               THEN [cmd[b][r] EXCEPT !.at = "write", !.version = version[b]]
               ELSE Idle)
  /\ UNCHANGED <<payment, holder, step, row, refunded>>

After(c) == IF c.refund THEN [Idle EXCEPT !.at = "refund"] ELSE Idle

Write_AnyVersion(b, r) ==
  /\ cmd[b][r].at = "write"
  /\ status'  = [status EXCEPT ![b] = cmd[b][r].to]
  /\ version' = [version EXCEPT ![b] = @ + 1]
  /\ paid'    = IF r \in Succeeded THEN paid \cup {b} ELSE paid
  /\ Set(b, r, After(cmd[b][r]))
  /\ UNCHANGED <<payment, holder, step, lapsed, refunded, revived>>

Write_RefundOnConflict(b, r) ==
  /\ cmd[b][r].at = "write" /\ Set(b, r, After(cmd[b][r]))
  /\ IF version[b] = cmd[b][r].version
     THEN /\ status'  = [status EXCEPT ![b] = cmd[b][r].to]
          /\ version' = [version EXCEPT ![b] = @ + 1]
          /\ paid'    = IF r \in Succeeded THEN paid \cup {b} ELSE paid
     ELSE UNCHANGED <<status, version, paid>>
  /\ UNCHANGED <<payment, holder, step, lapsed, refunded, revived>>

Write_AlwaysPaid(b, r) ==
  /\ cmd[b][r].at = "write"
  /\ IF version[b] = cmd[b][r].version
     THEN /\ status'  = [status EXCEPT ![b] = cmd[b][r].to]
          /\ version' = [version EXCEPT ![b] = @ + 1]
          /\ paid'    = IF cmd[b][r].to = "confirmed" THEN paid \cup {b} ELSE paid
          /\ Set(b, r, After(cmd[b][r]))
     ELSE UNCHANGED <<status, version, paid>> /\ Set(b, r, Idle)
  /\ UNCHANGED <<payment, holder, step, lapsed, refunded, revived>>

Write(b, r) ==
  /\ cmd[b][r].at = "write"
  /\ IF version[b] = cmd[b][r].version
     THEN /\ status'  = [status EXCEPT ![b] = cmd[b][r].to]
          /\ version' = [version EXCEPT ![b] = @ + 1]
          /\ paid'    = IF r \in Succeeded THEN paid \cup {b} ELSE paid
          /\ Set(b, r, After(cmd[b][r]))
     ELSE UNCHANGED <<status, version, paid>> /\ Set(b, r, Idle)
  /\ UNCHANGED <<payment, holder, step, lapsed, refunded, revived>>

Refund(b, r) ==
  /\ cmd[b][r].at = "refund"
  /\ refunded' = refunded \cup {b} /\ Set(b, r, Idle)
  /\ UNCHANGED <<payment, holder, step, row>>

(***************************************************************************)
(* A process dies: what it was doing, and the events it had yet to handle  *)
(* in memory, are gone; BullMQ gives a job to another worker, but not for  *)
(* ever. The lock of a dead request runs out.                              *)
(***************************************************************************)
Die(b, r) ==
  /\ "crash" \in Hazards /\ r # "replay" /\ cmd[b][r] # Idle /\ Set(b, r, Idle)
  /\ step' = IF r = "creator" THEN [step EXCEPT ![b] = "gone"] ELSE step
  /\ UNCHANGED <<payment, holder, row, refunded>>

DieReplaying(b) ==
  /\ "crash" \in Hazards /\ replay[b].at = "taken" /\ Set(b, "replay", Idle)
  /\ replay' = [replay EXCEPT ![b] =
       [at |-> IF @.stalled < MaxStalled THEN "due" ELSE "dead", stalled |-> @.stalled + 1]]
  /\ UNCHANGED <<pay, emitted, intent, linked, holder, step, row, refunded>>

DieCreating(b) ==
  /\ "crash" \in Hazards /\ step[b] \in {"inserted", "linked"}
  /\ Goto(b, "gone") /\ Unlock(b)
  /\ UNCHANGED <<payment, row, refunded, cmd>>

-------------------------------------------------------------------------------
Create(b) ==
  \/ Prepare(b) \/ Abandon(b) \/ ConfirmPrepare(b) \/ Link(b) \/ ConfirmIfPaid(b)
  \/ CreateBookingV2(b) \/ Charge(b) \/ DieCreating(b)

Settlement(b) ==
  \/ AnnounceExpiry(b) \/ \E o \in Events : Settle(b, o)
  \/ ReplayDispatch(b) \/ ReplayRecorded(b) \/ DieReplaying(b)
  \/ \E e \in Handlers : Deliver(b, e)

Transition(b) ==
  \/ CancelBooking(b) \/ UpdateBookingStatus(b) \/ CheckIn(b)
  \/ Lapse(b) \/ ListExpired(b) \/ \E r \in Succeeded : MarkPaid(b, r)
  \/ \E r \in Roles : Read(b, r) \/ Write(b, r) \/ Refund(b, r) \/ Die(b, r)

Next ==
  \/ \E b \in Bookings : Create(b) \/ Settlement(b) \/ Transition(b)
  \/ \E s \in Slots : LockExpires(s)

Spec == Init /\ [][Next]_vars

(***************************************************************************)
(* What is started goes on; a customer who does not leave comes back; the  *)
(* clock runs; the expiry worker is a repeated job that does not fail      *)
(* every time; a worker takes the job of the replay and ends it. Nothing   *)
(* makes a customer pay.                                                   *)
(***************************************************************************)
GoOn(b) ==
  \/ ConfirmPrepare(b) \/ Link(b) \/ ConfirmIfPaid(b)
  \/ ReplayDispatch(b) \/ ReplayRecorded(b)
  \/ \E e \in Handlers : Deliver(b, e)
  \/ \E r \in Succeeded : MarkPaid(b, r)
  \/ \E r \in Roles : Read(b, r) \/ Write(b, r) \/ Refund(b, r)

Fairness ==
  \A b \in Bookings :
    /\ WF_vars(GoOn(b)) /\ WF_vars(Lapse(b)) /\ WF_vars(ListExpired(b))
    /\ SF_vars(Read(b, "worker")) /\ SF_vars(Write(b, "worker"))

FairSpec == Spec /\ Fairness

-------------------------------------------------------------------------------
\* Type invariant of the payments, the bookings and the commands.
TypeOK ==
  /\ pay \in [Bookings -> {"pending"} \cup Events]
  /\ emitted \in [Bookings -> [Events -> Nat]]
  /\ linked \subseteq intent /\ intent \subseteq Bookings
  /\ \A b \in Bookings : step[b] \in {"prepared", "inserted", "linked"} => b \in intent
  /\ holder \in [Slots -> Bookings \cup {None}]
  /\ replay \in [Bookings -> Jobs]
  /\ step \in [Bookings -> {"new", "prepared", "inserted", "linked", "refused", "unpaid", "done",
                           "gone"}]
  /\ status \in [Bookings -> Statuses] /\ version \in [Bookings -> Nat]
  /\ paid \subseteq Bookings /\ lapsed \subseteq Bookings
  /\ refunded \subseteq Bookings /\ revived \subseteq Bookings
  /\ cmd \in [Bookings -> [Roles -> Commands]]

\* No two bookings have the same slot, with locks that expire early or are not
\* taken, concurrent commands and crashes (GOV-ADR-015), unless one of them was
\* checked in after it had given the slot up.
NoDoubleBooking ==
  \A b, c \in Bookings :
    /\ b # c /\ Slot[b] = Slot[c]
    /\ Blocking(status[b]) /\ Blocking(status[c])
    => b \in revived \/ c \in revived

\* Whoever races with whom, a booking only makes transitions of the table of
\* booking-aggregate.ts, in particular a terminal one stays as it is: a check-in,
\* and a command that was planned before a check-in, are the only exceptions.
OnlyAllowedTransitions ==
  [][\A b \in Bookings :
       /\ status[b] \notin {None, "checked_in"}
       /\ status'[b] \notin {status[b], "checked_in"}
       => status'[b] \in ALLOWED_TRANSITIONS[status[b]]]_vars

\* A booking is marked paid only if its payment is.
PaidWasPaid == \A b \in paid : pay[b] = "paid"

\* Money only goes back for a booking that was paid for and is cancelled, also when
\* a cancellation loses its race; it may have been checked in since.
RefundedIsCancelled ==
  \A b \in refunded : pay[b] = "paid" /\ (status[b] = "cancelled" \/ b \in revived)

\* What is seen of a booking's slot, its payment and its refund is SlotBooking:
\* a slot is taken only when no other booking holds it, only a check-in takes it
\* back after it was given up, and money goes back only for a booking that gave it
\* up and whose payment was captured.
Stage(s) == IF s = None THEN "none" ELSE IF Blocking(s) THEN "held" ELSE "over"

Abstract == INSTANCE SlotBooking WITH
  state    <- [b \in Bookings |-> Stage(status[b])],
  captured <- {b \in Bookings : pay[b] = "paid"},
  marked   <- paid

Refines == Abstract!Spec

\* A booking whose payment is captured is cancelled only on request: not by the
\* handlers of the other outcomes and not by the expiry worker, which has a status
\* of its own.
PaidIsCancelledOnRequest ==
  [][\A b \in Bookings :
       pay[b] = "paid" /\ status[b] # "cancelled" /\ status'[b] = "cancelled"
         => cmd[b]["player"].at = "write" /\ cmd'[b]["player"] # cmd[b]["player"]]_vars

\* GOV-ADR-015: a long-lived prepare lock enables the payment flow without losing
\* the slot. Not so: createBookingV2 does not look at the lock.
PreparedKeepsSlot == \A b \in Bookings : step[b] = "prepared" => Free(b)

\* The comment in confirm-booking.command.ts: who confirms on an authoritative
\* gateway success passes 'paid'. When everything about a confirmed booking has
\* been done, it is marked paid if it was paid for. Not so when the webhook was
\* faster than the link (README, "Known to fail").
ConfirmedIsMarkedPaid ==
  \A b \in Bookings :
    /\ status[b] = "confirmed" /\ pay[b] = "paid" /\ b \in linked
    /\ \A r \in Roles : cmd[b][r] = Idle
    => b \in paid

Ends(s) == \A b \in Bookings : status[b] = s ~> status[b] # s

\* A booking made of a prepared one that nobody pays for does not keep its slot,
\* whatever crashes.
PendingPaymentEnds == Ends("pending_payment")

\* Pending bookings expire (BIZ-ARCH-07). Not so: the worker lists those in
\* 'pending_payment' only, and nothing else gives up the slot of a customer who
\* booked by card and never asked for a charge.
PendingEnds == Ends("pending")

\* The customer left, or the process died with the request, before the payment
\* was linked to the booking; or the job of the replay was killed too often.
Forsaken(b) ==
  \/ step[b] = "gone" /\ replay[b].at = "none"
  \/ replay[b].at = "dead"

\* Somebody who takes no lock took the slot of a prepared booking, or the desk gave
\* it back to another one.
Outrun(b) ==
  /\ step[b] = "refused"
  /\ \E c \in Bookings :
       /\ Slot[c] = Slot[b]
       /\ (Method[c] # "prepare" /\ status[c] # None) \/ c \in revived

\* A captured payment buys the booking, or the money goes back, also when the
\* process dies with the event in its memory ("if the process dies before it
\* runs, the outbox poller re-delivers the event", accounting-event.listener.ts).
\* Two prepared bookings do not get in each other's way.
PaidIsHonoured ==
  \A b \in Bookings :
    pay[b] = "paid" ~>
      \/ status[b] \in {"confirmed", "checked_in", "completed", "no_show"}
      \/ b \in refunded
      \/ Forsaken(b) \/ Outrun(b)
=============================================================================
