# CourtZon backend: TLA+ models, checks and proofs

CourtZon sells court time. A customer picks slots of a court, pays by card through a hosted
gateway (Paymob) or in cash, and the court must then be theirs; a cancellation may send the
money back. The backend (`src/backend/src`, TypeScript on Node, MySQL, Redis, BullMQ) does this
with many activities that race: HTTP requests, webhooks, repeated jobs, in-memory event listeners
and versioned commands, any of which may be retried, delayed or cut short by a crash.

This directory models that core. Seven detailed modules, and four abstract ones that four of them
implement, are checked by TLC on small instances and proved about with TLAPS for every value of their constants.

Paths below are relative to `src/backend/src`; **PS** is `modules/payment/application/payment.service.ts`,
**PR** `modules/payment/infrastructure/repositories/payment.repository.ts`,
**PG** `shared/services/gateway/paymob-gateway.ts`, **BS** `modules/booking/application/booking.service.ts`,
**BL** `modules/booking/application/booking-payment.listener.ts`,
**BR** `modules/booking/infrastructure/repositories/booking.repository.ts`,
**AL** `modules/financial/application/accounting-event.listener.ts`,
**CR** `modules/booking/application/court-reservation.service.ts`,
**MS** `modules/tournaments/application/match-schedule.service.ts`,
**CB** `modules/booking/commands/create-booking.command.ts`,
**PA** `modules/tournaments/application/tournament-prize-award.service.ts` and
**WS** `modules/wallet/application/withdrawal.service.ts`.

Contents: [inventory](#inventory), [modules](#modules-and-their-code), [runs](#runs),
[fairness](#fairness), [proofs](#proofs), [known to fail](#known-to-fail),
[only model-checked](#only-model-checked), [not modelled](#not-modelled), [plan](#plan).

## Inventory

### The core, in the order of its importance

| Component | State it keeps | Operations | Talks to |
|---|---|---|---|
| Card refund (PS 1003-1176, 1475-1622) | `payment_status` and the JSON `refundIntent` (status, `executedAt`) of one `payment_transactions` row | T1 intent, resolution loop, gateway query, T2 arm, gateway refund, clear of the arm, T3 finalize | gateway (refund, getRefundState), event bus (`payment:refunded`) |
| Payment outcome (PS 318-905, 1632-1699) | `payment_status`, `gateway_reference` of every row; Redis key `webhook:processed:<id>` | `handleWebhook`, `syncPendingPayments`, `expireStalePayments`, `confirmPayment`, `recoverPayment` | gateway (webhooks, getTransactionStatus), BullMQ (repeated jobs), event bus (`payment:succeeded`, `:failed-event`, `:expired-event`) |
| Booking lifecycle (BS, BL, `booking/commands`) | `bookings.booking_status`, `payment_status`, `aggregate_version`, `expires_at`; Redis slot locks and prepare sessions | prepare / confirm-prepare / cancel-prepare, `createBookingV2` by card and cash with a charge of its own, cancel, confirm, complete, no-show, check in, expiry worker, payment listeners | payment rows (link), event bus, refund |
| Slot availability guard (BR 298-348, BS 106-128) | the blocking rows of a court: date, start, end | split the range and test each slot (two-phase flow) or test it whole (`createBookingV2`), insert under the resource's row lock | booking lifecycle |
| Transactions and after-commit hooks (`database/database.transaction.ts`) | one process-wide list of hooks | `withTransaction`, `runAfterCommit` | everything that emits in a transaction |
| Event bus and outbox (`shared/event-bus`) | `published_events`, the poller's cursor, `processed_events`, in-memory listeners | `emit`, poll, deliver, record | queues, listeners |
| Command pipeline (`shared/command/command-pipeline.ts`) | `processed_commands` | validate, execute, record, publish | booking and wallet commands |
| Wallet and withdrawals (`modules/wallet`) | balance, reserved amount and version of `user_wallets`; `wallet_transactions`; `withdrawal_requests` | top-up by card, prize, clawback, submit / review / complete / reject / cancel a withdrawal | event bus, ledger |
| Tournament court reservations (CR, MS) | `matches.booking_id`, blocking bookings of type reservation, court and time in the bracket | schedule, reserve, reschedule, release | booking commands, slot guard, Redis locks |

### The rest

Booking rules, pricing and recurring series; the time engine; tournaments, leagues and results;
academy and activities; marketplace; memberships and coupons; accounting, finance and settlement;
notifications and realtime; authentication and roles; organisations, reference data and content;
people and administration; the workflow engine; queues, Redis, health, backup and start-up; gateway
clients; the HTTP kernel; the frontend. `PROJECT.json` lists each with its main files and the
reason it is left out; most are records behind forms, pure calculations, or I/O.

### How the core parts interact

1. There are two ways to create a booking. The two-phase flow of card payments (`prepareGatewayBooking`,
   `_createFromPrepare`) takes Redis locks on the slots and creates a *pending* payment row and an intention at the
   gateway; the booking row comes later, in `pending_payment`, and is then *linked* to the payment. `POST /bookings`
   runs `createBookingV2`: no Redis lock, one transaction with the availability check, a row in `pending` without `expires_at`; a
   cash booking is confirmed by a command of the same request, a card booking is charged by a request of its own
   (`POST /payments/charge`). The body of `createBooking` behind it (BS:270-607) never runs: `BOOKING_V2_CREATE` is always
   enabled (`shared/utils/feature-flags.ts`:5-20), as `lock-owner-propagation.spec.ts`:15-19 says too.
2. The customer pays at the gateway. The outcome reaches the backend by whichever comes first of
   a webhook, the sync job, the expiry job, the customer's `confirmPayment` and an administrator's
   `recoverPayment`. All of them end in one transaction that locks the payment row.
3. The commit publishes an outcome event. The booking listener hears it **in memory**, reads the
   booking, and issues a `ConfirmBooking` or `CancelBooking` command; the event of an unlinked
   payment says nothing to it, which is why `_createFromPrepare` reads the payment again.
   `payment:succeeded` is heard twice: the queue `accounting-replay` (AL 3056-3124) subscribes to
   it durably and its job calls *all* in-memory handlers of the event again, the booking's and the
   wallet's included. The failed and expired outcomes have no such job.
4. Commands read the booking, plan a transition and write it `WHERE aggregate_version = ?`; they
   race with the expiry worker, the customer and the staff. A cancellation may end in a refund.
5. Every event emitted in a transaction is a row of `published_events`; hooks that run after the
   commit enqueue its jobs and call its in-memory handlers; a poller enqueues what the hooks missed.
6. Tournament matches take courts by bookings of their own, under the same locks and the same check.
7. A wallet takes prizes and gives them back, is topped up by card and emptied by withdrawals (paying from it is
   switched off, PS:102-106); all of them write one row, each in its own way.

### What is hard here, and what makes each part correct

- **Refund**: the gateway call cannot be part of a transaction. A crash, a retry, a second caller or a lost
  answer between gateway and commit must lead neither to a second refund nor to a booked one
  that never happened, nor to a refund nobody books.
- **Outcome**: five activities act on answers they got before they locked the row. The row and its events
  must agree, say what the gateway decided, and never change once final; and a captured
  payment must be booked although webhooks get lost, are duplicated or are swallowed.
- **Booking**: locks with a time to live that one of two ways of booking does not take, versions, in-memory delivery and two ways to link a payment.
  No slot twice; no transition outside the table; money back only for a cancelled booking; a
  prepared booking nobody pays for ends; a paid one is honoured or refunded.
- **Slots**: dates and local times of day compared as strings, ranges that cross midnight. Two
  flows write the same row in two notations. The guard must refuse every overlap and no free range.
- **Events**: hooks live in one list of the process, ids are given before the commit, workers die between
  handling and recording. No event is skipped, told before its commit, or handled again for no reason.
- **Courts of matches**: an early read fixes what a transaction sees, two grids of slots meet on one court, the
  link and the bracket are written apart. No court twice, one reservation per match, a bracket that shows it.
- **Wallet**: relative, locked and versioned writers of one balance. No money lost or made, reservations backed.

`PROJECT.json` "hazards" lists every such spot with its line and the properties that watch it.

## Modules and their code

`PROJECT.json` "map" names the lines behind each definition. A definition whose name carries an
underscore (`Fresh_Ignored`, `Write_AnyVersion`) is a *faulty variant* of the one that follows it. No
specification uses it; it is substituted to show that a property would notice that mistake.

### RefundOutcome and CardRefund

`RefundOutcome` is the promise to the callers of `refund()` and to accounting: the reversal is booked once, only when the
gateway has moved as much as was asked for, and only a booked one is reported as a success; money moves once if the parties
keep to the time (`Once`).

`CardRefund` has several calls of `refund()` for one card payment. One action per transaction or await:

| Action | Code |
|---|---|
| `EnsureIntent` | T1: lock the row, return if refunded, refuse if not paid, store a `refundIntent` |
| `ReadRow`, `Defer` | one iteration of the resolution loop: an *unlocked* read; nobody armed: go on; a fresh arm: wait and retry, or give up after `REFUND_DEFER_MAX_ITERATIONS`; a stale arm: ask |
| `QueryGateway` | `getRefundState`: refunded in full → finalize, partially or unknown → conflict, nothing → execute again |
| `Arm` | T2: under the lock, unless a fresh arm is there by now, set `executedAt` and send the request |
| `GatewayAccepts`, `GatewayRefuses` | the gateway (external) acts on the request, at any later time |
| `Reply`, `LoseReply` | the answer arrives, or `PaymobGateway.refund` catches a network error and answers `success: false` |
| `ClearArm` | `success: false` is taken as an explicit refusal: the arm is cleared if the row is still paid |
| `Finalize` | T3: row to `refunded`, intent completed, `payment:refunded` in the same commit; idempotent |
| `Crash`, `Tick` | the process dies anywhere; time passes |

`row` is the database row, `ledger` and `request` belong to the gateway, `pc`, `since` and `iteration`
to the calls, `reversal` records who published the event. The clock counts in units with
`WINDOW` = `REFUND_RESOLUTION_WINDOW_MS`. `Slow` names the stages of a call (`decide`: between the
loop's read and T2; `gateway`: the request's way to its verdict; `clear`: from the refusal to the clear)
that may outlast the window; the others take less. `outlived` remembers the calls one of whose stages did outlast it (`Overruns`), or that lost
their answer: nothing in the code rules either out, and `AtMostOneRefund` names them as its exception. The gateway accepts a refund
whenever it fits into what it captured, so half of it can be refunded twice. A row that is not
`paid` stands for `failed`.

`Abstract == INSTANCE RefundOutcome` takes the accepted requests for what moved, `reversal` for what is booked, the calls
at `done` for who was told, and `Prompt` for `Once`. `Refines` says that `CardRefund` implements it.

### PaymentOutcome and Payment

`PaymentOutcome` is the promise to the rest of the system: a payment is settled once, its canonical
event is published in the commit that settles it, and after `payment:succeeded` neither failure
nor expiry is announced; `payment:expired-event` may be announced again for a payment that
failed or expired.

`Payment` is how the code gets there: `Receive`, `Claim`, `Correlate` and `SettleWebhook` are the steps of
`handleWebhook` (look the replay key up; set it *before* processing; find the row and replace its reference by the
order id; settle under the lock), `FailWebhook` its failure or death after any of them. `ListPending`,
`Confirm` and `Recover` start the activities that poll, `Query` is `getTransactionStatus` with its
fallback and its way of reporting an unreachable gateway, `SettlePoll` and `SettleExpiry` act on
the answer, `FailJob` abandons the rest of a batch. `FailedWasDeclined` says who may book a failure: whoever heard a refusal, and a sync, confirmation or
recovery whose question got no answer, which reads that as one. `Outcome` is `_processPaymentOutcome`, used by all.
The gateway is external: it gives one verdict per payment, notifies any number of times, until
acknowledged or until it gives up. Jobs remember the reference they read (`seen`), since `syncPendingPayments` and
`recoverPayment` lock the row by it and find nothing if a webhook replaced it (`Found`).

`Abstract == INSTANCE PaymentOutcome` with the same variables; `Refines` says that `Payment` implements it.

### SlotBooking and BookingPayment

`SlotBooking` is the promise to customers, staff and accounting: a slot is taken only when no other booking holds it, a slot once given up is
taken back only by the desk (`Revive`), which looks at nobody else's booking, only a captured payment marks a booking paid, and money goes back only for a
marked booking that gave up its slot.

`BookingPayment` has the bookings over `PaymentOutcome` (`Pay == INSTANCE PaymentOutcome WITH Payments <- Bookings`; a
booking attempt has one payment). `Prepare`, `Abandon`, `ConfirmPrepare`, `Link`, `ConfirmIfPaid` are the two-phase
card flow. `CreateBookingV2` is the other one: it looks at no lock, inserts `pending`, and hands a cash booking to a confirmation of the same request, whose failure
nobody notices (BS:3121-3126); `Charge` is the customer's later request to pay for a card booking, whatever has become of the booking. `Settle` composes the
payment's step with the event it hands to the listener if the row is linked; `Deliver` is the listener, `MarkPaid` its
unversioned update. `CancelBooking`, `UpdateBookingStatus` and `CheckIn` are people; `Lapse` and `ListExpired` the passing of
`expires_at` and the expiry worker. A command is a record in `cmd[b][r]`, one per booking and role:
`Read` plans a transition against `ALLOWED_TRANSITIONS` and remembers the version, `Write` applies it if the version
is unchanged; a conflict is an error nobody retries. `Refund` is the refund of a cancellation,
decided from the `payment_status` read before the command. `ReplayDispatch` is the job of `payment:succeeded` that runs the
handler a second time, as role `replay`; `ReplayRecorded` its end (the handlers swallow their errors, so however they end the
job is done), `DieReplaying` the death of its worker, after which BullMQ gives it to another one `MaxStalled` times. How the
job comes to be, also after a crash, is `EventDelivery`'s matter; here it is simply due. `Die` and `DieCreating` lose what a process was
doing, in particular events it had to handle in memory.

`Hazards` switches `late` (locks and deadlines end early), `leave` (the customer abandons the two-phase flow) and
`crash`; `Actors` says which of `player` (who cancels), `staff` (who confirms, completes, marks no-shows) and `desk` (who
checks in) act. `revived` remembers bookings checked in after they gave up their slot. A booking covers one slot here: ranges and overlap are SlotOverlap's matter.

`Abstract == INSTANCE SlotBooking` sees of a status only its `Stage`: none, held (the blocking ones) or over. `Refines` says that
`BookingPayment` implements it. `PaidIsCancelledOnRequest` says who may cancel a booking whose payment is captured: its customer, and neither a late event nor the
expiry worker nor the request that made it.
`PaidIsHonoured` names those it does not speak of: `Forsaken` (the customer or the process was lost before the link, or the replay was given up) and `Outrun` (a booking that takes no
lock, or a check-in, took the slot of a prepared one).

### SlotOverlap

The calendar of one court. `CreateFromPrepare` turns a requested range into a row (`RowOf`: "24:00" becomes
"00:00"; an early start at a court that closes after midnight moves to the next date), requires that the slots cover it, splits it into
slots *on the row's date*, and tests each with the two SQL conditions of
`checkSlotAvailability` (`BookingSql`, `OvernightSql`). `CreateV2` tests and stores the range as it was asked for, on the date it was asked for, with any length. The resource row is locked, so test and insert are one
step. `Release` is a row that stops blocking. `Overlap` is the reference: two rows share an
instant of the time that their dates and times stand for. Days have `DAY` units; daylight saving is left out. On a court open past midnight the two flows
mean different days by the same request before opening time (both compute `start_at_utc` from the date asked for); the model compares what the rows say.

`OnlyLateRowsAreMissed` says exactly how far the guard goes on one date: a new row is refused unless the row it overlaps reaches midnight by its times
and the new one does not. `NoOverlap` is what the code promises and does not keep (run `slots_midnight`).

### EventDelivery

| Action | Code |
|---|---|
| `Begin`, `Commit`, `Flush`, `CommitLost`, `Rollback` | `withTransaction` / `runProvidedTransaction`: remember the length of the hook list, commit, cut the list there and run what was cut off; a commit whose answer is lost, or a failure, cuts and drops |
| `Emit`, `EmitAlone` | `emit`: insert into `published_events` and add a hook; outside a transaction insert and run at once |
| `Enqueue`, `Dispatch` | the hook: a job for each durable subscriber, then the in-memory handlers |
| `ReadCursor`, `Select`, `Recover`, `Break`, `SaveCursor` | `poll`: the cursor of a queue, a batch of ids behind it, a job for each unless there is one, stop at a refused enqueue, save the cursor |
| `Take`, `Handle`, `Record`, `Throw` | the worker: skip what `processed_events` has, run the handler, record; a failed attempt waits or is dead |
| `LoseLock`, `Stalled`, `Forget` | BullMQ (external): a job's lock lapses, a stalled job is given out again `MaxStalled` times, a completed one is removed |
| `Crash` | the process dies: hooks, polls and runs are gone, rows and jobs stay |

`met` remembers transactions that overlapped another one before their cut, `overtaken` events committed after one with a
higher id; both only name the exceptions of properties. Every crash, lost lock, lost answer, refused enqueue
and failed attempt takes one of `MaxFaults`.

### CourtReservation

Calls of `scheduleMatch` (`Find`: the existing reservation or none; `AcquireAll`: the Redis locks of the slots; then
`ReserveCourt` or `OpenReschedule` and `RescheduleCourt`; `Show`: the bracket), of `releaseMatchCourt` (`ReleaseCourt`, `Unshow`), of players
who prepare a booking (`AcquireAll`, `CreateFromPrepare`: locks held from the first request to the last) and of players who book by `createBookingV2` (`CreateV2`: no lock, and the
range tested as one). A transaction is one action, but for `rescheduleCourt`, whose first read (`OpenReschedule`) fixes
the `snapshot` that its availability check sees after it waited for the court's row; `createBookingV2` has no such read, since its command inserts before it selects. `Keys` are the lock names of the
slots that a call splits its range into, `Available` the check of `checkSlotAvailability` for its `Parts`: players split by the
court's slot length, tournaments by 60 minutes. `Hazards` switches `lapse` (locks end before the commit), `die` (in a transaction, `Die`, or
between the commit and the bracket, `DieCommitted`) and `cancel` (a booking is cancelled by hand). `lapsed`, `raced`, `disturbed` and `unwritten` remember what the properties except.

### UserAccount and Wallet

`UserAccount` is the promise to the user: every reference moves money once, a prize is taken back only from what is free, a withdrawal sets its money aside
before anybody reviews it and either pays it out or gives it back, once, and a top-up never adds less than was paid, and no more unless it slipped.

`Wallet` is one wallet. `FindBySource`, `FindById` and `Deposit` are a delivery of `payment:succeeded` to the wallet's listener: the unlocked
question whether the payment is booked, the unlocked read, and the write of the *absolute* balance computed from it if the version is still the one read.
`Submit`, `Review`, `Complete` and `GiveUp` are the transitions of a withdrawal, relative changes that leave the version; `CreditWinner`
and `RefundAward` credit a prize and take it back under the row's lock. Refunds of orders, complaints and bookings to the wallet are locked credits of the same shape. Nothing live spends from a wallet otherwise. `history` is `wallet_transactions`, one row per reference, and
`Booked` the balance it stands for. A payment by card is delivered twice because of the replay job.

`Abstract == INSTANCE UserAccount` takes `balance - reserved` (the `available_balance` of `getMyWallet`) for what is free, the open requests for what is
set aside, `history` for what is booked and `raced` for the slip; `Refines` says that `Wallet` implements it.

### SlotArithmetic

Lemmas about slots of equal length that the proofs of `SlotOverlap` and `CourtReservation` share.

### How they compose

`Payment` implements `PaymentOutcome`, which `BookingPayment` uses for its payments (`PaymentsAreOutcomes`) on its way to `SlotBooking`; `SlotOverlap` refines what
`BookingPayment` calls a slot that is `Free`. `CardRefund` is what `Refund` starts, and `RefundOutcome` what becomes of it. `EventDelivery` says what becomes of an event
once it is committed, which `BookingPayment` (`Settle`, `ReplayDispatch`) and `Wallet` (several deliveries of a top-up) take for granted. `CourtReservation` and `SlotOverlap` share the check and the two ways of booking: one with its locks and transactions, the other with its arithmetic.

## Runs

| Run | Instance | Shows |
|---|---|---|
| `card_refund` | 2 callers, window 2, clock to 5, one retry, prompt stages, answers arrive; crashes | `TypeOK`, and under fairness `AcceptedIsBooked`, `CallsReturn` |
| `card_refund_hostile` | 2 callers, different amounts, every stage slow, lost answers, crashes | `NoFalseFinalize`, `AtMostOneRefund`, `Refines`, `RefundedIsFinal` |
| `payment` | 1 payment, 2 webhooks in progress, sync job and confirmation, Redis may be down | `TypeOK`, `OneOutcome`, and under fairness `CapturedIsBooked` |
| `payment_errors` | 1 payment, 2 webhooks, expiry job, confirmation, recovery; gateway may be unreachable | `PaidWasCaptured`, `NoExpiryOfCaptured`, `FailedWasDeclined`, `Refines` |
| `booking` | a prepared, a card and a cash booking of one slot, check-ins, processes die | `TypeOK`, `NoDoubleBooking`, and under fairness `PaidIsHonoured`, `PendingPaymentEnds` |
| `booking_money` | one prepared booking, customer, staff and desk, every hazard | `Refines`, `PaidIsCancelledOnRequest`, `OnlyAllowedTransitions` |
| `slots` | 3 rows, 13 ranges on two dates around midnight, on and off the grid, in both flows | `TypeOK`, `FreeIsOffered`, `OnlyLateRowsAreMissed` |
| `slots_midnight` | the last slot of the evening, in both flows | a violation: `NoOverlap` fails, against the comment CB:61-64 |
| `events` | two transactions that may overlap, an event in one of them and one outside, one queue, two workers, one fault of any kind | `TypeOK`, `OnlyOverlapLeaks`, `ShownOnce`, `NoEventSkipped`, `HandledOncePerFault` |
| `events_live` | an event in a transaction, one outside, one worker, two faults | under fairness `EventuallyHandled` |
| `court` | a match put at one time and moved to another, a release, a player with locks and one without beside it; locks lapse, processes die, bookings are cancelled | `TypeOK`, `SharedSlotExcludes`, `CheckExcludes`, `OneReservation`, `ShownIsReserved` |
| `wallet` | two top-ups, one delivered twice, two withdrawals, a prize and its clawback, money for some of them | `TypeOK`, `ReservedIsBacked`, `LedgerParity`, `Refines` |

### Why the bounds are enough

- *CardRefund*: every property speaks of at most two callers at a time; with two, one can be first attempt, crash
  victim, or slow, and the other retry, recover or compete. With `WINDOW` 2 and a clock up to 5 an arm can become stale
  twice. `MAX_ITERATIONS` 1 keeps both outcomes of `Defer`. The proofs remove these bounds.
- *Payment*: rows do not share anything but the gateway's fallback list, so one payment is the general case without it.
  Two webhooks may carry the same notification twice or a pending and a final one. The actions have no counter except
  `emitted`, which the code bounds: in TLC's runs only the expiry job repeats its event, once per list it made before
  the row was settled.
- *BookingPayment*: a double booking needs two bookings of one slot, and `booking` has one of each way to book. It leaves out the locks that end early and the other actors, which only
  `booking_money` affords, with one booking: the money properties, and what `Refines` says of one booking, concern
  one (that nobody else holds the slot it takes is `NoDoubleBooking`, and the theorem's matter). Two prepared bookings that contend for one lock are in no run; the theorems cover them.
  `MaxExpiries` bounds repeated expiry events: 0 leaves the settling event alone, 1 adds one that races it. `MaxStalled` is 1 as in BullMQ in `booking_money`; in `booking` it is 0,
  so a replay killed once is given up, which is `Forsaken`. A check-in may be followed by a completion and another check-in for ever, each raising the version: `MaxVersion` 2 stops the desk.
- *SlotOverlap*: an overlap is between two rows; the third shows that `FreeIsOffered` copes with several. Thirteen ranges
  cover before, after, touching, nested, off the grid, ending at midnight in both spellings or after it, and the early hours
  that belong to the previous business date. The proofs remove the bounds.
- *EventDelivery*: a hook is taken or dropped by another transaction as soon as two overlap; an id is overtaken by one event
  outside of them; a second run of a handler takes one fault. Batches of 2 cover a refused first and second enqueue. `events_live` affords two
  faults with one worker, so that a crash may follow a lost enqueue, and a job may stall twice and die. `Attempts` 2 keeps a retry and a dead letter.
- *CourtReservation*: two calls that schedule a match, at 0 and at 3 (with an odd length, so that its last
  slot is incomplete), in either order and at once, a release, a prepared booking whose two slots meet both times off the grid, and a direct one that starts with the second. Two matches
  interact only as bookings of one court do; a single one with players is that case. Two swaps that race each other need a third scheduling call and are left to the theorems. Calls run once, so the state space is finite without bounds.
- *Wallet*: `Start` covers either withdrawal and the clawback, not all; amounts 1 to 3 tell every sum of the open requests from
  another. Each reference acts once, so versions are bounded by themselves.

Deadlock is not checked in the protocols, which end when every call has returned, except for `slots`, where
rows can always be created or released.

## Fairness

Safety runs use `Spec`. The runs with a liveness property use `FairSpec`, with no more than the code's scheduling gives:

- *CardRefund*: weak fairness of a caller's own next step (a live process goes on with its handler; `Crash` may disable it for ever) and of the
  gateway's verdict on a request it has. Not of `Crash`, `LoseReply` or `Tick`.
- *Payment*: BullMQ starts the repeated jobs again whatever became of the last run (`server.ts`:318-330), so
  `ListPending` is weakly fair. A run may fail at any point, so asking about a given payment, and settling it, are
  *strongly* fair: a payment that is listed again and again is not failed on every time. Nothing is assumed of
  webhooks, customers or the gateway: `CapturedIsBooked` holds because of the sync job alone.
- *BookingPayment*: requests under way, delivered events and commands proceed unless they die; the clock passes
  `expires_at`; a customer who does not leave comes back to confirm a prepared booking, not to pay for another; the repeated expiry worker (`server.ts`:294-317) is not unlucky with the
  same booking for ever (strong fairness of its `Read` and `Write`). Nothing makes a customer pay, a
  person act, or a hazard happen or stop. A worker takes the job of the replay and ends it (`ReplayDispatch`, `ReplayRecorded`); one
  that is killed more often than `MaxStalled` is the exception `Forsaken` of the property, not of the fairness.
- *EventDelivery*: the poller is a timer (`outbox-poller.ts`), so a poll that runs goes on, and the cursor of each queue is read again and
  again (strongly fair, since a poll that runs disables it for the others); workers take waiting jobs (strongly fair for a given job, since other jobs and a
  dying process come between) and end what they run; BullMQ looks for stalled jobs. No transaction is promised to end, no fault to happen or to stop.
- *CourtReservation*, *Wallet*: safety only. Nothing must happen in them: a call may be refused, a withdrawal may wait for ever.

## Proofs

`*Proofs.tla` hold the theorems; each extends its component's module. All of them hold for every
number of callers, payments, webhooks, jobs, bookings, slots, transactions, events, queues, workers, matches,
withdrawals and amounts, every window and every length of days and slots that satisfy the module's `ASSUME`.

| Theorem | Assumes | Says |
|---|---|---|
| `CardRefundProofs!TypeCorrect` | | `TypeOK` |
| `OneReversalHolds`, `NoFalseFinalizeHolds`, `SuccessIsCommittedHolds`, `RefundedIsFinalHolds` | | what the protocol keeps under any delay, crash and lost answer |
| `AtMostOneRefundHolds` | | the gateway refunds at most once unless a call outlived its window or lost its answer |
| `ImplementsRefund` | | `CardRefund` implements `RefundOutcome` |
| `PaymentProofs!TypeCorrect`, `OneOutcomeHolds`, `FinalIsFinalHolds` | | status and events agree; a final status stays |
| `PaidWasCapturedHolds` | `~Fallback` | a paid row was captured |
| `NoExpiryOfCapturedHolds` | `~Fallback` | what may have been captured is neither expired nor announced so |
| `FailedWasDeclinedHolds` | `~Fallback` | a failure is booked on the gateway's refusal, or by a job whose question got no answer |
| `ImplementsOutcome` | `~Fallback` | `Payment` implements `PaymentOutcome` |
| `BookingPaymentProofs!TypeCorrect`, `PaidWasPaidHolds`, `PaymentsAreOutcomes` | | whoever acts; the payments are those of `PaymentOutcome` |
| `PaidIsCancelledOnRequestHolds` | | nothing but a cancellation on request cancels a booking that is paid for |
| `NoDoubleBookingHolds`, `RefundedIsCancelledHolds` | | with all actors and hazards and any number of bookings; the properties except the bookings revived by a check-in |
| `ImplementsSlotBooking` | | `BookingPayment` implements `SlotBooking` |
| `OnlyAllowedTransitionsHolds` | | every change of status is in the table, but for a check-in and what follows one |
| `SlotOverlapProofs!TypeCorrect` | | times of rows are times of day or "24:00" |
| `OnlyLateRowsAreMissedHolds`, `FreeIsOfferedHolds` | | what the guard refuses and what it lets pass, in both flows, for any ranges, hours and lengths |
| `EventDeliveryProofs!TypeCorrect`, `ProcessedWasHandledHolds`, `HandledOncePerFaultHolds` | | a recorded event was handled; every further run of a handler takes a fault |
| `OnlyOverlapLeaksHolds` | | the events of a transaction that met no other one are told only after its commit |
| `ShownOnceHolds` | | `emit` and its hooks run the in-memory handlers at most once per event |
| `NoEventSkippedHolds`, `NothingLostHolds` | | the poller leaves no event behind but an overtaken one; what it passed was handled, or its job waits, runs or is dead |
| `CourtReservationProofs!TypeCorrect`, `SharedSlotExcludesHolds`, `CheckExcludesHolds` | | locks keep apart what starts a slot together but for a swap beside a booking that takes none, the check keeps apart the rest |
| `OneReservationHolds`, `ShownIsReservedHolds` | | one active reservation per match, shown in the bracket, but for the exceptions in the properties |
| `WalletProofs!TypeCorrect`, `ReservedIsBackedHolds`, `LedgerParityHolds` | | nothing negative, reservations backed, balance and history agree |
| `ImplementsAccount` | | `Wallet` implements `UserAccount` |

The one assumption left, `~Fallback`, marks where the code stops keeping the property: with the fallback list TLC finds
a counterexample (*Known to fail*). It says that the gateway's order API does not refuse while its list of transactions answers. Everything else that the code allows to go wrong is an
exception inside a property, named by what was seen to happen (`outlived`, `revived`, `met`, `overtaken`, `raced`, `lapsed`, `disturbed`, `unwritten`), and each of them is needed.

**CardRefund.** `BookInv` carries the properties that need no timing: whoever was accepted, is about to finalize or has
published asks for no more than the ledger shows, which never goes down. At-most-once needs the *lease*, as long as nobody has `outlived` it: `LeaseIInv` adds
that no arm and no read is later than the clock (`ClockInv`), how `pc` and `request` go together (`CallInv`), that
an open attempt (a request in flight, a refusal or a clear still to be handled) owns the arm on the row, alone, while it
is fresh and before any money moved (`LeaseInv`), that money moved leaves an arm on the row (`MovedInv`), and that what
a caller concluded from the row within the window still holds, or somebody armed since and its T2 will see that (`DecideInv`). `AtMostOneRefund` alone is not inductive: it says nothing of requests still in flight.
The refinement needs `BookInv` only, `AskInv` in it (a call that has not armed the row has no request, so no request is accepted twice), and the lease where `Once` is promised (`PromptHolds`: without slow stages and lost replies nobody outlives a window).

**Payment.** Jobs and webhooks act on what they heard earlier. `Informed` says that whatever a notification, a webhook or an
unsettled answer claims about a payment was, and as verdicts are final still is, the gateway's verdict. With it each settlement keeps `OneOutcome`,
`PaidWasCaptured`, `NoExpiryOfCaptured` and `FailedWasDeclined`. The refinement follows from `NoExpiryOfCaptured`: an
expiry event that finds the row settled is the abstract `AnnounceExpiry`, since the row cannot be paid.

**BookingPayment.** `PaidInv` is the type, that a listener at work on `payment:succeeded` has a paid payment, and `PaidWasPaid`. `IInv` adds
`Unbegun` (a request that has not inserted its row has no status, link or command), `CommandsOK` (a command about to write whose version still
matches plans a transition that is `Reachable` from the status the booking has *now*; a pending refund is for a paid booking that is cancelled or was revived) and
the two properties. A job to replay `payment:succeeded` exists only for a paid, linked payment (`JobStep`), so the replayed handler starts under the same
conditions as the first one. `CommandsOK` is where the optimistic lock is used: every change of status raises the version, except a check-in's. Hence
`Reachable`: the table's row, and any status once the booking is checked in, because a stale command may then meet its version. A slot becomes taken only by `Insert`, which tests `Free` in the
same transaction, or by a check-in, which `revived` remembers: none of this needs the Redis locks.

`PaidIsCancelledOnRequest` is about causes. `CauseInv` says what each role ever asks for (`Wants`) and why it may (`Warranted`): the handler of a
failure or expiry runs only after that outcome, which is final. The refinement of `SlotBooking`
takes `IInv` and `CauseInv` and shows that every action moves at most one stage, mark, capture or refund.

**SlotOverlap.** `SlotTimes`, with the lemmas of `SlotArithmetic`, finds the slot of a range in which an instant lies. `InstantIsHit` and `HitIsOverlap` compare a slot with a row of the same date by the SQL, in both
directions; `SplitGuard` and `WholeGuard` lift the first to a range that passes the test slot by slot or as one, `SplitIsExact` and `WholeIsExact` the second. The two theorems put them together: what is missed, and that nothing free is refused.

**EventDelivery.** `HandledInv` follows an event from a worker's run to its record. For `HandledOncePerFault` `RunInv` counts: the runs so far plus those
that may still begin (a job that can be taken, a worker before its handler) never exceed one plus the faults; the number of workers at an event is the
cardinality of a finite set. `OnlyOverlapLeaks` needs `HooksApart`: the hooks of a transaction that met no other are exactly the
tail of the list from its mark, so what is cut off is its own; and `OnlySafeLeft`: every event in a cut-off list, a batch, a job or a worker's hands is committed
or of a transaction that met another.

`ShownOnce` holds because an event has at most one hook, at one place of one list, and none once its handlers ran (`HookOnce`); appending, cutting at the mark and flushing move places
but never double them, even when one transaction takes the hooks of another. `NoEventSkipped` and `NothingLost` follow from `CursorInv`: a cursor and the ids of a running poll are
never ahead of the committed rows (`Reached`) nor of an orderly event that has no job and no record (`Passed`), and what a batch holds is exactly what comes next (`PollInv`), so that a refused enqueue stops
the cursor before the event. `IdInv` makes ids name events, `NewOrderly` says that an event that becomes orderly comes behind every row there was to be seen: this is where `overtaken` is needed.

**CourtReservation.** `PcInv`, `RowInv` tie the place of a call to its booking and its link. `LockInv`: while no lock lapsed, two calls never hold one key. `SeenInv` is what makes
up for the early snapshot: an active booking that a snapshot does not hold belongs to a call that shares no slot with the one that looks, or that lost its
locks, or is one that takes none, because it must have committed while the looker held them. `CheckKept` works from the check alone, by slot arithmetic. `LinkInv` and
`ShownInv` follow the link and the bracket through the calls of a match that are not raced or disturbed; `FlightInv` says which calls those are.

**Wallet.** Sums over sets are counted unit by unit (`Total` is the cardinality of a set of pairs), which makes the library's facts about
finite sets carry them: `BookedAdds` and `OpenTotal` say what one more reference or one changed status adds. The invariant adds `SeenInv`: a
top-up that read the wallet and still has its version may write more than the balance, never less, since only withdrawals leave the version; and
what it writes still covers the reservations. The refinement also needs `PaidOutInv`: a withdrawal has its row exactly when it was paid out.

## Known to fail

What TLC refutes when an assumption is dropped or a property is stated without its exception. Except for `slots_midnight` they are not kept as
runs; each is one change of a `.cfg` and, where the property is not in it, of its INVARIANT or PROPERTY line.

- *CardRefund*, `MCCardRefund.cfg` with `LostReplies = TRUE`: two refunds are accepted (`AtMostOneRefund` without `outlived = {}` fails), against *"any uncertainty fails closed (no second gateway call, no false
  finalize)"* (PS:37). The gateway accepts, the answer is lost, `PaymobGateway.refund` reports `success: false`, the arm is cleared, and a retry refunds again.
- *CardRefund*, likewise with a slow stage: with `Slow = {"gateway"}` a retry finds a stale arm, asks before the gateway has the first request, and sends a second one. With 3 callers and `Slow = {"decide"}` T2 compares
  only the age of the arm it finds (PS:1490) and not whether it is the one the caller's
  query was about. With 3 callers and `Slow = {"clear"}` a late clear wipes out another caller's arm (PS:1535).
- *CardRefund*, `Amount <- MCAmountShrinks`, `Captured = 2`: `BookedAmountIsRefunded` fails. A retry compares and books *its own* amount (PS:1126),
  not that of the stored intent, which the gateway executed.
- *Payment*, `Fallback = TRUE`, two payments, `Jobs = {expiry}`: `PaidWasCaptured` fails. When the order API refuses, the first element of the
  merchant's list of transactions answers for this payment (PG:476).
- *Payment*, `MCPaymentErrors.cfg`: `FailedWasRefused` fails, against *"Failed to verify with Paymob — will rely on webhook"* (PS:830).
  `getTransactionStatus` does not throw when Paymob is unreachable but answers `status: 'failed'`; confirmation, recovery and sync make the row `failed`, for good.
- *BookingPayment*, a prepared and a cash booking, `player` and `desk`: `NoDoubleBooking` without the exception `revived` fails, against *"Four independent layers prevent double-booking under
  any failure scenario"* (`docs/enterprise-library/GOV-ADR-015`:107). `checkIn` plans no transition: a cancelled booking is checked in after its slot was sold.
- *BookingPayment*, a prepared and a cash booking, no actor, no hazard: `PreparedKeepsSlot` fails, against *"Long-lived prepare lock enables payment flow without losing the slot"*
  (GOV-ADR-015:109). `createBookingV2` takes the slot between two requests of the one who prepared; his confirmation is refused, and if he has paid the payment buys nothing and nothing
  gives the money back: `PaidIsHonoured` without the exception `Outrun` fails.
- *BookingPayment*, one card booking, no actor, no hazard: `PendingEnds` fails, against *"Pending bookings expire after `BOOKING_EXPIRY_MINUTES`"*
  (`docs/enterprise-library/BIZ-ARCH-07_Business_Policy_Register.md`:27). The worker lists `pending_payment` only (`booking-expiry.worker.ts`:35) and the row has no `expires_at`. The same of one cash booking
  with `crash`: its confirmation is lost, as it is when it fails (BS:3123), and the booking stays `pending`.
- *BookingPayment*, one prepared booking, no actor, no hazard: `ConfirmedIsMarkedPaid` fails. If the webhook is faster than
  the link, `_createFromPrepare` confirms without `paymentStatus: 'paid'` (BS:938), and a later cancellation refunds nothing.
- *BookingPayment*, `PaidIsHonoured` fails with each of: `late` (the booking expires, then the payment is captured, and the listener only logs, BL:255);
  `player` (a cancellation between payment and event, likewise); `staff` with `desk` (a completion or a no-show overtakes the confirmation of a booking that was checked in);
  and without the exception `Forsaken` for `leave` (the event of an unlinked payment has no booking to confirm, BL:232; ADR-0006:60 says *"User
  closes browser before redirect → webhook still confirms the booking"*) and for `crash` before the link.
- *SlotOverlap*: besides `slots_midnight`, a range of either flow that crosses midnight and one of the next date's early hours are both accepted, against *"This works correctly regardless of timezone, DST, or whether the session
  crosses midnight"* (`docs/booking-time-model.md`:18).
- *EventDelivery*: `ToldWasCommitted` fails, against *"Never shared between transactions"* and *"A failed transaction must NEVER publish its buffered domain events"*
  (`database.transaction.ts`:14, 110). The transaction that began first and commits first also runs the hooks of one that is still open (l. 53), which may roll back.
- *CourtReservation*: `OnlyOneReservation` fails (two first reservations of one match both find no link, CR:63; the second overwrites the first one's link, whose court
  stays blocked); `LocksExclude` and `NoOverlap` fail (a booking of `createBookingV2` is committed between the first read of a swap and its check, CR:168; two grids of slots with a swap in between, a lapsed lock, a ragged tail); `SameSlotIsKept` fails when two calls want the same slot (MS:392: a `Date` of the database is compared with
  the string of the request, so the same slot is never recognised, and the match finds its own reservation in its way).
- *Wallet*: `LedgerExact` fails (a withdrawal completed between the read and the write of a top-up is written away, WS:104: the debit leaves the version). `TopUpIsCredited` fails
  (any movement between the read and the write makes the top-up fail, and the listener swallows it, `wallet-payment.listener.ts`:121).
- Documents only: ADR-0006:41 says a prepared booking expires after 3 minutes, the code 10 (BS:838); GOV-ADR-015:99 relies on a unique constraint that migration 140
  removed; `booking-time-model.md` section 5 says the end date is bumped for ranges across midnight, the code does so for "24:00" only (BS:634, 3011).

## Only model-checked

Liveness is out of the prover's reach: `AcceptedIsBooked`, `CallsReturn`, `CapturedIsBooked`, `PendingPaymentEnds`,
`PaidIsHonoured` and `EventuallyHandled` are checked by TLC on the instances above and not proved. Every safety property
of the passing runs is stated by a theorem. `NothingLost` is the safety half of `EventuallyHandled`.

## Not modelled

Within the modelled components: wallet and allocation refunds (PS 949-1003, 1178-1468), the outcomes `cancelled` and
`refunded` of a webhook and its signature; recurring series (`createRecurringSeries`: one payment, many bookings), coach compensation (BS 1061-1147), several payments of one booking, the dead body of `createBooking` (BS:270-607), `updatePaymentStatus`, cancellation fees, penalties and cash accounting, booking windows, the auto-complete worker (one
more staff completion), the failure of the Redis write that ends `prepareGatewayBooking` (BS:763), academy holds in the slot guard, daylight saving; `flushAfterCommitHooks`, the
cursor `latest` of a new subscriber and the delay between attempts; `autoSchedule` and the releases that follow a changed bracket; the ledger accounts of the
wallet's reconciliation. The command pipeline's table of processed commands is left out because its ids carry the time and a random number: nothing ever meets a duplicate.
The modules rely on row locks, on transactions being atomic, and on Redis `SET NX`; they do not model MySQL or Redis.

Other components: see `PROJECT.json` "components". Those worth modelling are in the plan; the others have no protocol of
their own (records, calculations, screens) or nothing that runs (the workflow engine is started by tests only).

## Plan

Done: `CardRefund` with `RefundOutcome`, `Payment` with `PaymentOutcome`, `BookingPayment` with `SlotBooking`, `SlotOverlap`, `EventDelivery`, `CourtReservation`, `Wallet` with `UserAccount`,
with their runs, and theorems for every safety property. Left, in order:

1. Abstract specifications that `EventDelivery` (delivery at least once, from the subscriber's side) and `CourtReservation` implement, with their refinements.
2. Academy holds in `SlotOverlap`; the failing end of `prepareGatewayBooking`, several payments of one booking, and
   the payments of a recurring series (one payment, many bookings), in `BookingPayment`.
3. A composition of `Payment` and `BookingPayment` that checks the refinement end to end, and `autoSchedule` over `CourtReservation`.
4. Stock and orders of the marketplace, and the capacity of academy sessions: counters under concurrent orders.
