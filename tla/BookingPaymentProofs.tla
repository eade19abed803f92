-------------------------- MODULE BookingPaymentProofs --------------------------
(***************************************************************************)
(* Theorems of BookingPayment for any number of bookings and slots,        *)
(* whoever acts and whatever goes wrong.                                   *)
(***************************************************************************)
EXTENDS BookingPayment, TLAPS

\* The statuses a command may find its booking ready for at status s: those the
\* table allows, but a check-in changes the status and not the version.
Reachable(s) == IF s = "checked_in" THEN Statuses \ {None} ELSE ALLOWED_TRANSITIONS[s]

\* What is true of a command c to a booking with status s and version v, marked
\* paid if m, revived if x. While the version is the one read, the planned
\* transition is possible; a refund follows a cancellation of a booking that is
\* marked paid.
CommandOK(c, s, v, m, x) ==
  /\ c.at = "write" => c.version <= v
  /\ c.at = "write" /\ c.version = v => c.to \in Reachable(s)
  /\ c.refund => c.to = "cancelled" /\ m
  /\ c.at = "refund" => m /\ (s = "cancelled" \/ x)

CommandsOK ==
  \A b \in Bookings : \A r \in Roles :
    CommandOK(cmd[b][r], status[b], version[b], b \in paid, b \in revived)

\* The handler of payment:succeeded only runs, and there is only a job to replay
\* it, for a paid payment.
HandledIsPaid ==
  \A b \in Bookings :
    replay[b].at # "none" \/ (\E r \in Succeeded : cmd[b][r] # Idle) => pay[b] = "paid"

\* A request that has not inserted its row has no command or job under way.
Unbegun ==
  \A b \in Bookings : step[b] \in {"new", "prepared"} =>
    /\ status[b] = None /\ b \notin linked /\ replay[b].at = "none"
    /\ \A r \in Roles : cmd[b][r] = Idle

PaidInv == TypeOK /\ HandledIsPaid /\ PaidWasPaid

IInv == PaidInv /\ Unbegun /\ CommandsOK /\ NoDoubleBooking /\ RefundedIsCancelled

LEMMA TransitionFacts ==
  /\ DOMAIN ALLOWED_TRANSITIONS = Statuses
  /\ \A s \in Statuses : ALLOWED_TRANSITIONS[s] \subseteq Statuses \ {None}
  /\ \A s \in Statuses : ALLOWED_TRANSITIONS[s] # {} => Blocking(s)
  /\ ALLOWED_TRANSITIONS["cancelled"] = {}
  BY DEF ALLOWED_TRANSITIONS, Statuses, Waiting, Blocking, None

LEMMA ReachableFacts ==
  /\ \A s \in Statuses : ALLOWED_TRANSITIONS[s] \subseteq Reachable(s)
  /\ \A s \in Statuses : Reachable(s) \subseteq Statuses \ {None}
  /\ \A s \in Statuses : Reachable(s) # {} => Blocking(s)
  /\ Reachable("cancelled") = {}
  /\ Reachable("checked_in") = Statuses \ {None}
<1>1. "cancelled" \in Statuses /\ "checked_in" \in Statuses /\ Blocking("checked_in")
  BY DEF Statuses, Blocking, None
<1> QED BY <1>1, TransitionFacts DEF Reachable

LEMMA CommandFacts ==
  /\ Idle \in Commands /\ Event \in Commands
  /\ \A s \in Statuses : Order(s) \in Commands
  /\ Idle.at = "idle" /\ ~Idle.refund /\ Idle.to = None
  /\ Event.at = "event" /\ ~Event.refund
  /\ \A s \in Statuses : /\ Order(s).at = "command" /\ Order(s).to = s /\ ~Order(s).refund
  BY DEF Idle, Event, Order, Commands, Statuses, None

LEMMA InitInv == Init => IInv
<1> SUFFICES ASSUME Init PROVE IInv
  OBVIOUS
<1>1. TypeOK
  BY CommandFacts DEF Init, TypeOK, Pay!Init, Pay!Finals, Pay!Outcomes, Events, Statuses, None,
     Jobs, NoJob
<1>2. Unbegun /\ HandledIsPaid
  BY DEF Init, Unbegun, HandledIsPaid, Roles, Handlers, Succeeded, Events, NoJob
<1>3. CommandsOK
  BY CommandFacts DEF Init, CommandsOK, CommandOK
<1>4. NoDoubleBooking /\ PaidWasPaid /\ RefundedIsCancelled
  BY DEF Init, NoDoubleBooking, Blocking, PaidWasPaid, RefundedIsCancelled
<1> QED
  BY <1>1, <1>2, <1>3, <1>4 DEF IInv, PaidInv

\* Setting one command keeps all of them commands.
LEMMA SetType ==
  ASSUME TypeOK, NEW b \in Bookings, NEW r \in Roles, NEW c \in Commands, Set(b, r, c)
  PROVE  cmd' \in [Bookings -> [Roles -> Commands]]
<1>1. cmd' = [cmd EXCEPT ![b] = [cmd[b] EXCEPT ![r] = c]]
  BY DEF Set
<1>2. [cmd[b] EXCEPT ![r] = c] \in [Roles -> Commands]
  BY DEF TypeOK
<1> QED
  BY <1>1, <1>2 DEF TypeOK

\* And leaves the others as they are.
LEMMA SetOne ==
  ASSUME TypeOK, NEW b \in Bookings, NEW r \in Roles, NEW c, Set(b, r, c)
  PROVE  /\ cmd'[b][r] = c
         /\ \A d \in Bookings : \A q \in Roles :
              d # b \/ q # r => cmd'[d][q] = cmd[d][q]
<1>1. cmd' = [cmd EXCEPT ![b] = [cmd[b] EXCEPT ![r] = c]]
  BY DEF Set
<1> QED
  BY <1>1 DEF TypeOK

\* Type correctness of the payments.
LEMMA PayType ==
  ASSUME TypeOK, NEW b \in Bookings,
         Pay!AnnounceExpiry(b) \/ \E o \in Events : Pay!Settle(b, o)
  PROVE  /\ pay' \in [Bookings -> {"pending"} \cup Events]
         /\ emitted' \in [Bookings -> [Events -> Nat]]
<1>1. ASSUME NEW e \in Events, Pay!Publish(b, e)
      PROVE emitted' \in [Bookings -> [Events -> Nat]]
  <2>1. emitted' = [emitted EXCEPT ![b] = [emitted[b] EXCEPT ![e] = emitted[b][e] + 1]]
    BY <1>1 DEF Pay!Publish
  <2>2. [emitted[b] EXCEPT ![e] = emitted[b][e] + 1] \in [Events -> Nat]
    BY DEF TypeOK
  <2> QED
    BY <2>1, <2>2 DEF TypeOK
<1>2. CASE Pay!AnnounceExpiry(b)
  BY <1>1, <1>2 DEF Pay!AnnounceExpiry, TypeOK, Events
<1>3. ASSUME NEW o \in Events, Pay!Settle(b, o)
      PROVE  /\ pay' \in [Bookings -> {"pending"} \cup Events]
             /\ emitted' \in [Bookings -> [Events -> Nat]]
  BY <1>1, <1>3 DEF Pay!Settle, TypeOK
<1> QED
  BY <1>2, <1>3

\* Type correctness of the locks and of an inserted row.
LEMMA LockType ==
  ASSUME TypeOK, NEW b \in Bookings, Lock(b) \/ Unlock(b)
  PROVE  holder' \in [Slots -> Bookings \cup {None}]
<1>1. Slot[b] \in Slots
  BY BookingAssumption
<1> QED
  BY <1>1 DEF Lock, Unlock, TypeOK

LEMMA InsertType ==
  ASSUME TypeOK, NEW b \in Bookings, NEW s \in Waiting, Insert(b, s)
  PROVE  /\ status' \in [Bookings -> Statuses] /\ version' \in [Bookings -> Nat]
         /\ UNCHANGED <<paid, lapsed, revived>>
  BY DEF TypeOK, Insert, Statuses, Waiting

LEMMA TypeStep == TypeOK /\ [Next]_vars => TypeOK'
<1> SUFFICES ASSUME TypeOK, [Next]_vars PROVE TypeOK'
  OBVIOUS
<1> DEFINE
      PayT  == /\ pay' \in [Bookings -> {"pending"} \cup Events]
               /\ emitted' \in [Bookings -> [Events -> Nat]]
      LinkT == /\ linked' \subseteq intent' /\ intent' \subseteq Bookings
               /\ \A b \in Bookings : step'[b] \in {"prepared", "inserted", "linked"} => b \in intent'
      JobT  == replay' \in [Bookings -> Jobs]
      HoldT == holder' \in [Slots -> Bookings \cup {None}]
      StepT == step' \in [Bookings -> {"new", "prepared", "inserted", "linked", "refused", "unpaid",
                                     "done", "gone"}]
      RowT  == /\ status' \in [Bookings -> Statuses] /\ version' \in [Bookings -> Nat]
               /\ paid' \subseteq Bookings /\ lapsed' \subseteq Bookings
               /\ revived' \subseteq Bookings
      BackT == refunded' \subseteq Bookings
      CmdT  == cmd' \in [Bookings -> [Roles -> Commands]]
<1>a. UNCHANGED <<pay, emitted>> => PayT
  BY DEF TypeOK
<1>b. UNCHANGED <<intent, linked, step>> => LinkT
  BY DEF TypeOK
<1>c. UNCHANGED holder => HoldT
  BY DEF TypeOK
<1>d. UNCHANGED step => StepT
  BY DEF TypeOK
<1>e. UNCHANGED row => RowT
  BY DEF TypeOK, row
<1>f. UNCHANGED refunded => BackT
  BY DEF TypeOK
<1>g. UNCHANGED cmd => CmdT
  BY DEF TypeOK
<1>h. UNCHANGED payment => PayT /\ JobT /\ UNCHANGED <<intent, linked>>
  BY DEF TypeOK, payment
<1>o. UNCHANGED replay => JobT
  BY DEF TypeOK
<1>p. ASSUME NEW b \in Bookings, NEW j \in Jobs, replay' = [replay EXCEPT ![b] = j] PROVE JobT
  BY <1>p DEF TypeOK
<1>q. ASSUME NEW b \in Bookings, NEW l \in {"due", "taken", "done"}, JobAt(b, l) PROVE JobT
  <2>1. [replay[b] EXCEPT !.at = l] \in Jobs
    BY DEF TypeOK, Jobs
  <2>2. replay' = [replay EXCEPT ![b] = [replay[b] EXCEPT !.at = l]]
    BY <1>q DEF JobAt
  <2> QED
    BY <1>p, <2>1, <2>2
<1>i. ASSUME NEW b \in Bookings, NEW r \in Roles, NEW c \in Commands, Set(b, r, c) PROVE CmdT
  BY <1>i, SetType
<1>j. ASSUME NEW b \in Bookings, NEW l \in {"prepared", "inserted", "linked", "refused", "unpaid", "done", "gone"}, Goto(b, l)
      PROVE StepT
  BY <1>j DEF Goto, TypeOK
<1>k. ASSUME NEW b \in Bookings, NEW s \in Waiting, Insert(b, s) PROVE RowT
  BY <1>k, InsertType DEF TypeOK
<1>l. ASSUME NEW b \in Bookings, Lock(b) \/ Unlock(b) PROVE HoldT
  BY <1>l, LockType
<1>m. ASSUME NEW b \in Bookings, NEW r \in Roles PROVE cmd[b][r] \in Commands /\ version[b] \in Nat
  BY DEF TypeOK
<1>z. PayT /\ LinkT /\ JobT /\ HoldT /\ StepT /\ RowT /\ BackT /\ CmdT => TypeOK'
  BY DEF TypeOK
<1> HIDE DEF PayT, LinkT, JobT, HoldT, StepT, RowT, BackT, CmdT
<1>n. ASSUME NEW b \in Bookings, NEW l \in {"inserted", "linked", "refused", "unpaid", "done", "gone"},
             UNCHANGED payment, Goto(b, l), l = "inserted" => step[b] = "prepared", l # "linked"
      PROVE  LinkT
  BY <1>n DEF Goto, TypeOK, LinkT, payment
<1>1. ASSUME NEW b \in Bookings, Prepare(b) PROVE TypeOK'
  <2>1. LinkT
    BY <1>1 DEF Prepare, Goto, TypeOK, LinkT
  <2> QED
    BY <1>1, <2>1, <1>a, <1>e, <1>f, <1>g, <1>j, <1>l, <1>o, <1>z DEF Prepare
<1>2. ASSUME NEW b \in Bookings, Abandon(b) \/ DieCreating(b) PROVE TypeOK'
  BY <1>2, <1>h, <1>e, <1>f, <1>g, <1>j, <1>l, <1>n, <1>z DEF Abandon, DieCreating
<1>3. ASSUME NEW b \in Bookings, ConfirmPrepare(b) PROVE TypeOK'
  <2>1. RowT
    BY <1>3, <1>e, <1>k DEF ConfirmPrepare, Waiting
  <2> QED
    BY <1>3, <2>1, <1>c, <1>f, <1>g, <1>h, <1>j, <1>l, <1>n, <1>z DEF ConfirmPrepare
<1>4. ASSUME NEW b \in Bookings, CreateBookingV2(b) PROVE TypeOK'
  <2>1. CmdT
    BY <1>4, <1>g, <1>i, CommandFacts DEF CreateBookingV2, Statuses, Roles, Handlers
  <2>2. RowT
    BY <1>4, <1>k DEF CreateBookingV2, Waiting
  <2>3. LinkT /\ StepT
    BY <1>4, <1>j, <1>n DEF CreateBookingV2
  <2> QED
    BY <1>4, <2>1, <2>2, <2>3, <1>c, <1>f, <1>h, <1>z DEF CreateBookingV2
<1>5. ASSUME NEW b \in Bookings, Link(b) PROVE TypeOK'
  <2>1. LinkT
    BY <1>5 DEF Link, LinkT, Goto, TypeOK
  <2> QED
    BY <1>5, <2>1, <1>a, <1>c, <1>e, <1>f, <1>g, <1>j, <1>o, <1>z DEF Link
<1>22. ASSUME NEW b \in Bookings, ConfirmIfPaid(b) PROVE TypeOK'
  <2>1. CmdT
    BY <1>22, <1>g, <1>i, CommandFacts DEF ConfirmIfPaid, Statuses, Roles, Handlers
  <2> QED
    BY <1>22, <2>1, <1>h, <1>e, <1>f, <1>j, <1>l, <1>n, <1>z DEF ConfirmIfPaid
<1>6. ASSUME NEW b \in Bookings, Charge(b) PROVE TypeOK'
  <2>1. LinkT
    BY <1>6 DEF Charge, LinkT, Goto, TypeOK
  <2> QED
    BY <1>6, <2>1, <1>a, <1>c, <1>e, <1>f, <1>g, <1>j, <1>o, <1>z DEF Charge
<1>7. ASSUME NEW b \in Bookings, AnnounceExpiry(b) \/ \E o \in Events : Settle(b, o) PROVE TypeOK'
  <2>1. PayT
    BY <1>7, PayType DEF AnnounceExpiry, Settle, PayT
  <2>2. CmdT
    BY <1>7, <1>g, <1>i, CommandFacts DEF AnnounceExpiry, Settle, Roles, Handlers, Events
  <2>3. UNCHANGED <<intent, linked, holder, step, row, refunded>>
    BY <1>7 DEF AnnounceExpiry, Settle
  <2>4. JobT
    BY <1>7, <1>o, <1>q DEF AnnounceExpiry, Settle
  <2> QED
    BY <2>1, <2>2, <2>3, <2>4, <1>b, <1>c, <1>d, <1>e, <1>f, <1>z
<1>23. ASSUME NEW b \in Bookings, ReplayDispatch(b) \/ ReplayRecorded(b) \/ DieReplaying(b) PROVE TypeOK'
  <2>1. [at |-> IF replay[b].stalled < MaxStalled THEN "due" ELSE "dead", stalled |-> replay[b].stalled + 1]
          \in Jobs
    <3>1. replay[b] \in Jobs
      BY DEF TypeOK
    <3>2. replay[b].stalled + 1 \in Nat
      BY <3>1 DEF Jobs
    <3> QED
      BY <3>2 DEF Jobs
  <2>2. JobT
    BY <1>23, <1>p, <1>q, <2>1 DEF ReplayDispatch, ReplayRecorded, DieReplaying
  <2>3. CmdT
    BY <1>23, <1>g, <1>i, CommandFacts DEF ReplayDispatch, ReplayRecorded, DieReplaying, Roles, Handlers, Succeeded
  <2>4. UNCHANGED <<pay, emitted, intent, linked, holder, step, row, refunded>>
    BY <1>23 DEF ReplayDispatch, ReplayRecorded, DieReplaying
  <2> QED
    BY <2>2, <2>3, <2>4, <1>a, <1>b, <1>c, <1>d, <1>e, <1>f, <1>z
\* Actions that change the row, the refunds or a command and nothing else.
<1>8. ASSUME UNCHANGED <<payment, holder, step>>, RowT, BackT, CmdT PROVE TypeOK'
  BY <1>8, <1>b, <1>c, <1>d, <1>h, <1>z
<1>9. ASSUME NEW b \in Bookings, NEW e \in Handlers, Deliver(b, e) PROVE TypeOK'
  <2>1. PICK c \in {[Idle EXCEPT !.at = "mark"], Order("confirmed"), Order("cancelled"), Idle} :
          Set(b, e, c)
    BY <1>9 DEF Deliver
  <2>2. [Idle EXCEPT !.at = "mark"] \in Commands
    BY CommandFacts DEF Commands
  <2>3. c \in Commands /\ e \in Roles
    BY <2>1, <2>2, CommandFacts DEF Statuses, Roles
  <2> QED
    BY <1>8, <1>9, <1>e, <1>f, <1>i, <2>1, <2>3 DEF Deliver
<1>10. ASSUME NEW b \in Bookings, NEW r \in Succeeded, MarkPaid(b, r) PROVE TypeOK'
  <2>1. RowT
    BY <1>10 DEF MarkPaid, RowT, TypeOK
  <2> QED
    BY <1>8, <1>10, <1>f, <1>i, <2>1, CommandFacts DEF MarkPaid, Roles, Handlers
<1>11. ASSUME NEW b \in Bookings, NEW r \in Roles, NEW s \in Statuses, Ask(b, r, s) PROVE TypeOK'
  <2>1. [Order(s) EXCEPT !.refund = (s = "cancelled" /\ b \in paid)] \in Commands
    BY DEF Order, Idle, Commands, Statuses, None
  <2> QED
    BY <1>8, <1>11, <1>e, <1>f, <1>i, <2>1 DEF Ask
<1>12. ASSUME NEW b \in Bookings, CancelBooking(b) \/ UpdateBookingStatus(b) PROVE TypeOK'
  BY <1>11, <1>12 DEF CancelBooking, UpdateBookingStatus, Statuses, Roles
<1>13. ASSUME NEW b \in Bookings, CheckIn(b) \/ Lapse(b) PROVE TypeOK'
  <2>1. RowT
    BY <1>13 DEF CheckIn, Lapse, RowT, TypeOK, Statuses
  <2> QED
    BY <1>8, <1>13, <1>f, <1>g, <2>1 DEF CheckIn, Lapse
<1>14. ASSUME NEW b \in Bookings, ListExpired(b) PROVE TypeOK'
  BY <1>8, <1>14, <1>e, <1>f, <1>i, CommandFacts DEF ListExpired, Statuses, Roles
<1>15. ASSUME NEW b \in Bookings, NEW r \in Roles, Read(b, r) PROVE TypeOK'
  <2>1. [cmd[b][r] EXCEPT !.at = "write", !.version = version[b]] \in Commands
    BY <1>m DEF Commands
  <2> QED
    BY <1>8, <1>15, <1>e, <1>f, <1>i, <2>1, CommandFacts DEF Read
<1>16. ASSUME NEW b \in Bookings, NEW r \in Roles, Write(b, r) PROVE TypeOK'
  <2>1. After(cmd[b][r]) \in Commands
    BY <1>m DEF Commands, After, Idle, Statuses, None
  <2>2. cmd[b][r].to \in Statuses
    BY <1>m DEF Commands
  <2>3. /\ status' = [status EXCEPT ![b] = cmd[b][r].to] \/ UNCHANGED status
        /\ version' = [version EXCEPT ![b] = version[b] + 1] \/ UNCHANGED version
        /\ paid' \subseteq paid \cup {b} /\ UNCHANGED <<lapsed, revived>>
    BY <1>16 DEF Write
  <2>4. version[b] + 1 \in Nat
    BY <1>m
  <2>5. RowT
    BY <2>2, <2>3, <2>4 DEF RowT, TypeOK
  <2> QED
    BY <1>8, <1>16, <1>f, <1>i, <2>1, <2>5, CommandFacts DEF Write
<1>17. ASSUME NEW b \in Bookings, NEW r \in Roles, Refund(b, r) PROVE TypeOK'
  <2>1. BackT
    BY <1>17 DEF Refund, BackT, TypeOK
  <2> QED
    BY <1>8, <1>17, <1>e, <1>i, <2>1, CommandFacts DEF Refund
<1>18. ASSUME NEW b \in Bookings, NEW r \in Roles, Die(b, r) PROVE TypeOK'
  <2>1. Goto(b, "gone") \/ UNCHANGED step
    BY <1>18 DEF Die, Goto
  <2>2. LinkT /\ StepT
    BY <1>18, <2>1, <1>b, <1>d, <1>h, <1>j, <1>n DEF Die
  <2> QED
    BY <1>18, <2>2, <1>c, <1>e, <1>f, <1>h, <1>i, <1>z, CommandFacts DEF Die
<1>19. ASSUME NEW s \in Slots, LockExpires(s) PROVE TypeOK'
  <2>1. HoldT
    BY <1>19 DEF LockExpires, HoldT, TypeOK
  <2> QED
    BY <1>19, <2>1, <1>b, <1>d, <1>e, <1>f, <1>g, <1>h, <1>z DEF LockExpires
<1>20. CASE UNCHANGED vars
  BY <1>20, <1>a, <1>b, <1>c, <1>d, <1>e, <1>f, <1>g, <1>o, <1>z DEF vars, row
<1> QED
  BY <1>1, <1>2, <1>3, <1>4, <1>5, <1>22, <1>23, <1>6, <1>7, <1>9, <1>10, <1>12, <1>13, <1>14, <1>15,
     <1>16, <1>17, <1>18, <1>19, <1>20 DEF Next, Create, Settlement, Transition

-------------------------------------------------------------------------------
Begun(b) == step[b] \notin {"new", "prepared"}

Inserts(b, s) ==
  /\ ~Begun(b) /\ Free(b)
  /\ step' = [step EXCEPT ![b] = step'[b]] /\ step'[b] \in {"inserted", "unpaid", "done"}
  /\ status' = [status EXCEPT ![b] = s] /\ version' = [version EXCEPT ![b] = 1]
  /\ UNCHANGED revived

Moves(b, s) ==
  /\ s \in Reachable(status[b]) /\ UNCHANGED <<step, revived>>
  /\ status' = [status EXCEPT ![b] = s] /\ version' = [version EXCEPT ![b] = @ + 1]

ChecksIn(b) ==
  /\ status[b] # None /\ UNCHANGED <<step, version>>
  /\ status'  = [status EXCEPT ![b] = "checked_in"]
  /\ revived' = IF Blocking(status[b]) THEN revived ELSE revived \cup {b}

\* What a step does to the rows: nothing, an insertion, one transition that is
\* possible, because the version was still the one read, or a check-in.
LEMMA StatusStep ==
  ASSUME IInv, Next
  PROVE  \/ UNCHANGED <<status, version, revived>>
         \/ \E b \in Bookings, s \in Waiting : Inserts(b, s)
         \/ \E b \in Bookings, s \in Statuses : Moves(b, s)
         \/ \E b \in Bookings : ChecksIn(b)
<1> DEFINE Goal == \/ UNCHANGED <<status, version, revived>>
                   \/ \E b \in Bookings, s \in Waiting : Inserts(b, s)
                   \/ \E b \in Bookings, s \in Statuses : Moves(b, s)
                   \/ \E b \in Bookings : ChecksIn(b)
<1>t. TypeOK
  BY DEF IInv, PaidInv
<1>1. ASSUME NEW b \in Bookings, NEW r \in Roles, Write(b, r) PROVE Goal
  <2>1. CASE version[b] # cmd[b][r].version
    BY <1>1, <2>1 DEF Write
  <2>2. CASE version[b] = cmd[b][r].version
    <3>1. cmd[b][r].to \in Reachable(status[b])
      BY <1>1, <2>2 DEF Write, IInv, CommandsOK, CommandOK
    <3>2. cmd[b][r].to \in Statuses
      BY <1>t DEF TypeOK, Commands
    <3>3. Moves(b, cmd[b][r].to)
      BY <1>1, <2>2, <3>1 DEF Write, Moves
    <3> QED
      BY <3>2, <3>3
  <2> QED
    BY <2>1, <2>2
<1>2. ASSUME NEW b \in Bookings, NEW s \in Waiting, NEW l \in {"inserted", "unpaid", "done"},
             Insert(b, s), Goto(b, l), step[b] \in {"new", "prepared"}
      PROVE Goal
  <2>1. Inserts(b, s)
    BY <1>2, <1>t DEF Insert, Goto, Inserts, Begun, TypeOK
  <2> QED
    BY <2>1
<1>3. ASSUME UNCHANGED <<status, version, revived>> PROVE Goal
  BY <1>3
<1> HIDE DEF Goal
<1>4. ASSUME NEW b \in Bookings, ConfirmPrepare(b) \/ CreateBookingV2(b) PROVE Goal
  BY <1>2, <1>3, <1>4 DEF ConfirmPrepare, CreateBookingV2, row, Waiting
<1>5. ASSUME NEW b \in Bookings,
             Prepare(b) \/ Abandon(b) \/ Link(b) \/ ConfirmIfPaid(b) \/ Charge(b) \/ DieCreating(b) \/ Settlement(b)
      PROVE Goal
  BY <1>3, <1>5 DEF Prepare, Abandon, Link, ConfirmIfPaid, Charge, DieCreating, Settlement, AnnounceExpiry, Settle,
     Deliver, ReplayDispatch, ReplayRecorded, DieReplaying, row
<1>6. ASSUME NEW b \in Bookings,
             (\E r \in Succeeded : MarkPaid(b, r)) \/ CancelBooking(b) \/ UpdateBookingStatus(b) \/ Lapse(b) \/ ListExpired(b)
      PROVE Goal
  BY <1>3, <1>6 DEF MarkPaid, CancelBooking, UpdateBookingStatus, Ask, Lapse, ListExpired, row
<1>7. ASSUME NEW b \in Bookings, NEW r \in Roles, Read(b, r) \/ Refund(b, r) \/ Die(b, r) PROVE Goal
  BY <1>3, <1>7 DEF Read, Refund, Die, row
<1>8. ASSUME NEW s \in Slots, LockExpires(s) PROVE Goal
  BY <1>3, <1>8 DEF LockExpires, row
<1>9. ASSUME NEW b \in Bookings, CheckIn(b) PROVE Goal
  <2>1. ChecksIn(b)
    BY <1>9 DEF CheckIn, ChecksIn
  <2> QED
    BY <2>1 DEF Goal
<1>10. Goal
  BY <1>1, <1>4, <1>5, <1>6, <1>7, <1>8, <1>9 DEF Next, Create, Transition
<1> QED
  BY <1>10 DEF Goal

\* A settled payment stays as it was settled; only one with a row is settled.
LEMMA FinalStep ==
  ASSUME TypeOK, [Next]_vars, NEW b \in Bookings
  PROVE  pay'[b] = pay[b] \/ (pay[b] = "pending" /\ b \in intent)
<1> DEFINE Goal == pay'[b] = pay[b] \/ (pay[b] = "pending" /\ b \in intent)
<1>1. ASSUME UNCHANGED pay PROVE Goal
  BY <1>1
<1>2. ASSUME NEW c \in Bookings, NEW o \in Events, Settle(c, o) PROVE Goal
  BY <1>2 DEF Settle, Pay!Settle, TypeOK
<1> HIDE DEF Goal
<1>3. ASSUME NEW c \in Bookings, Create(c) PROVE UNCHANGED pay
  BY <1>3 DEF Create, Prepare, Abandon, ConfirmPrepare, Link, ConfirmIfPaid, CreateBookingV2, Charge, DieCreating, payment
<1>4. ASSUME NEW c \in Bookings, NEW e \in Handlers,
             \/ AnnounceExpiry(c) \/ Deliver(c, e)
             \/ ReplayDispatch(c) \/ ReplayRecorded(c) \/ DieReplaying(c)
      PROVE UNCHANGED pay
  BY <1>4 DEF AnnounceExpiry, Pay!AnnounceExpiry, Deliver, ReplayDispatch, ReplayRecorded, DieReplaying, payment
<1>5. ASSUME NEW c \in Bookings, Transition(c) PROVE UNCHANGED pay
  BY <1>5 DEF Transition, MarkPaid, CancelBooking, UpdateBookingStatus, Ask, CheckIn, Lapse,
     ListExpired, Read, Write, Refund, Die, payment
<1>6. ASSUME NEW s \in Slots, LockExpires(s) PROVE UNCHANGED pay
  BY <1>6 DEF LockExpires, payment
<1>7. CASE UNCHANGED vars
  BY <1>1, <1>7 DEF vars, Goal
<1>8. ASSUME NEW c \in Bookings, Settlement(c) PROVE Goal
  <2>1. "paid" \in Handlers
    BY DEF Handlers, Events
  <2> QED
    BY <1>1, <1>2, <1>4, <1>8, <2>1 DEF Settlement
<1>9. CASE Next
  BY <1>1, <1>3, <1>5, <1>6, <1>8, <1>9 DEF Next, Goal
<1> QED
  BY <1>7, <1>9 DEF Goal

\* A paid payment stays paid.
LEMMA PayStep ==
  ASSUME TypeOK, [Next]_vars, NEW b \in Bookings, pay[b] = "paid"
  PROVE  pay'[b] = "paid"
  BY FinalStep

\* A booking stays marked paid; the handler of payment:succeeded marks it.
LEMMA MarkStep ==
  ASSUME TypeOK, [Next]_vars
  PROVE  \/ UNCHANGED paid
         \/ \E c \in Bookings, r \in Succeeded : cmd[c][r] # Idle /\ paid' = paid \cup {c}
<1> DEFINE Goal == \/ UNCHANGED paid
                   \/ \E c \in Bookings, r \in Succeeded : cmd[c][r] # Idle /\ paid' = paid \cup {c}
<1>1. ASSUME NEW c \in Bookings, NEW r \in Roles, Write(c, r) PROVE Goal
  BY <1>1, CommandFacts DEF Write
<1>2. ASSUME NEW c \in Bookings, NEW r \in Succeeded, MarkPaid(c, r) PROVE Goal
  BY <1>2, CommandFacts DEF MarkPaid
<1>3. UNCHANGED paid => Goal
  OBVIOUS
<1> HIDE DEF Goal
<1>4. ASSUME NEW c \in Bookings, Create(c) PROVE Goal
  BY <1>3, <1>4 DEF Create, Prepare, Abandon, ConfirmPrepare, Link, ConfirmIfPaid, CreateBookingV2, Charge, DieCreating, Insert, row
<1>5. ASSUME NEW c \in Bookings, Settlement(c) PROVE Goal
  BY <1>3, <1>5 DEF Settlement, AnnounceExpiry, Settle, Deliver, ReplayDispatch, ReplayRecorded, DieReplaying, row
<1>6. ASSUME NEW c \in Bookings,
             CancelBooking(c) \/ UpdateBookingStatus(c) \/ CheckIn(c) \/ Lapse(c) \/ ListExpired(c)
      PROVE Goal
  BY <1>3, <1>6 DEF CancelBooking, UpdateBookingStatus, Ask, CheckIn, Lapse, ListExpired, row
<1>7. ASSUME NEW c \in Bookings, NEW r \in Roles, Read(c, r) \/ Refund(c, r) \/ Die(c, r)
      PROVE Goal
  BY <1>3, <1>7 DEF Read, Refund, Die, row
<1>8. ASSUME NEW s \in Slots, LockExpires(s) PROVE Goal
  BY <1>3, <1>8 DEF LockExpires, row
<1>9. ASSUME UNCHANGED vars PROVE Goal
  BY <1>3, <1>9 DEF vars, row
<1>10. ASSUME NEW c \in Bookings, Transition(c) PROVE Goal
  BY <1>1, <1>2, <1>3, <1>6, <1>7, <1>10 DEF Transition
<1>11. Goal
  BY <1>4, <1>5, <1>8, <1>9, <1>10 DEF Next
<1> QED
  BY <1>11 DEF Goal

\* A handler only starts when the payment is settled as paid, or by its job.
LEMMA HandlerStep ==
  ASSUME TypeOK, [Next]_vars, NEW b \in Bookings, NEW q \in Succeeded,
         cmd'[b][q] # Idle, cmd[b][q] = Idle
  PROVE  pay'[b] = "paid" \/ replay[b].at = "due"
<1> DEFINE Same == cmd'[b][q] = cmd[b][q]
           Goal == Same \/ pay'[b] = "paid" \/ replay[b].at = "due"
<1>r. /\ "paid" \in Roles /\ "replay" \in Roles /\ "expired" \in Roles /\ "failed" \in Roles
      /\ "creator" \in Roles /\ q \in Roles /\ q \notin {"expired", "failed", "creator"}
      /\ q \notin {"worker", "player", "staff"} /\ Handlers \subseteq Roles /\ Succeeded \subseteq Roles
  BY DEF Roles, Handlers, Events, Succeeded
<1>1. ASSUME NEW c \in Bookings, NEW r \in Roles, NEW x, Set(c, r, x), c # b \/ r # q PROVE Same
  BY <1>1, <1>r, SetOne
<1>2. ASSUME UNCHANGED cmd PROVE Same
  BY <1>2
<1> HIDE DEF Same
<1>3. ASSUME NEW c \in Bookings, NEW r \in Roles, NEW x, Set(c, r, x), cmd[c][r] # Idle PROVE Same
  BY <1>1, <1>3
<1>4. ASSUME NEW c \in Bookings, Create(c) PROVE Same
  BY <1>1, <1>2, <1>4, <1>r DEF Create, Prepare, Abandon, ConfirmPrepare, Link, ConfirmIfPaid, CreateBookingV2, Charge,
     DieCreating
<1>5. ASSUME NEW c \in Bookings, AnnounceExpiry(c) PROVE Same
  BY <1>1, <1>2, <1>5, <1>r DEF AnnounceExpiry
<1>6. ASSUME NEW c \in Bookings, NEW o \in Events, Settle(c, o) PROVE Goal
  <2>1. CASE Set(c, o, Event)
    <3>1. CASE c = b /\ o = q
      <4>1. o = "paid"
        BY <3>1 DEF Events, Succeeded
      <4> QED
        BY <1>6, <3>1, <4>1 DEF Settle, Pay!Settle, TypeOK
    <3>2. CASE ~(c = b /\ o = q)
      BY <1>1, <2>1, <3>2 DEF Roles, Handlers
    <3> QED
      BY <3>1, <3>2
  <2> QED
    BY <1>2, <1>6, <2>1 DEF Settle
<1>7. ASSUME NEW c \in Bookings, NEW e \in Handlers, Deliver(c, e) PROVE Same
  BY <1>3, <1>7, <1>r, CommandFacts DEF Deliver
<1>8. ASSUME NEW c \in Bookings,
             CancelBooking(c) \/ UpdateBookingStatus(c) \/ CheckIn(c) \/ Lapse(c) \/ ListExpired(c)
      PROVE Same
  BY <1>1, <1>2, <1>8, <1>r DEF CancelBooking, UpdateBookingStatus, Ask, CheckIn, Lapse, ListExpired, Roles
<1>9. ASSUME NEW c \in Bookings, NEW r \in Roles, Read(c, r) \/ Write(c, r) \/ Refund(c, r) \/ Die(c, r)
      PROVE Same
  BY <1>3, <1>9, CommandFacts DEF Read, Write, Refund, Die
<1>15. ASSUME NEW c \in Bookings, NEW r \in Succeeded, MarkPaid(c, r) PROVE Same
  BY <1>3, <1>15, <1>r, CommandFacts DEF MarkPaid
<1>16. ASSUME NEW c \in Bookings, ReplayDispatch(c) PROVE Goal
  BY <1>1, <1>16, <1>r DEF ReplayDispatch
<1>17. ASSUME NEW c \in Bookings, ReplayRecorded(c) PROVE Same
  BY <1>2, <1>17 DEF ReplayRecorded
<1>18. ASSUME NEW c \in Bookings, DieReplaying(c) PROVE Same
  <2>1. CASE c = b /\ q = "replay"
    BY <1>18, <2>1, <1>r, SetOne DEF DieReplaying, Same
  <2>2. CASE ~(c = b /\ q = "replay")
    BY <1>1, <1>18, <2>2, <1>r DEF DieReplaying
  <2> QED
    BY <2>1, <2>2
<1>10. ASSUME NEW s \in Slots, LockExpires(s) PROVE Same
  BY <1>2, <1>10 DEF LockExpires
<1>11. CASE UNCHANGED vars
  BY <1>2, <1>11 DEF vars
<1>12. ASSUME NEW c \in Bookings, Settlement(c) PROVE Goal
  BY <1>5, <1>6, <1>7, <1>12, <1>16, <1>17, <1>18 DEF Settlement
<1>13. ASSUME NEW c \in Bookings, Transition(c) PROVE Same
  BY <1>8, <1>9, <1>13, <1>15 DEF Transition
<1>14. Goal
  BY <1>4, <1>10, <1>11, <1>12, <1>13 DEF Next
<1> QED
  BY <1>14 DEF Same

\* There is a job only when a linked payment is settled as paid.
LEMMA JobStep ==
  ASSUME TypeOK, [Next]_vars, NEW b \in Bookings, replay'[b].at # "none", replay[b].at = "none"
  PROVE  pay'[b] = "paid" /\ b \in linked
<1> DEFINE Goal == replay'[b] = replay[b] \/ (pay'[b] = "paid" /\ b \in linked)
<1>1. ASSUME UNCHANGED replay PROVE Goal
  BY <1>1
<1>2. ASSUME NEW c \in Bookings, NEW o \in Events, Settle(c, o) PROVE Goal
  <2>1. CASE c = b /\ o = "paid"
    BY <1>1, <1>2, <2>1 DEF Settle, Pay!Settle, TypeOK
  <2>2. CASE ~(c = b /\ o = "paid")
    BY <1>1, <1>2, <2>2 DEF Settle, JobAt, TypeOK
  <2> QED
    BY <2>1, <2>2
<1>3. ASSUME NEW c \in Bookings, ReplayDispatch(c) \/ ReplayRecorded(c) \/ DieReplaying(c) PROVE Goal
  <2>1. c # b
    BY <1>3 DEF ReplayDispatch, ReplayRecorded, DieReplaying
  <2> QED
    BY <1>3, <2>1 DEF ReplayDispatch, ReplayRecorded, DieReplaying, JobAt, TypeOK
<1> HIDE DEF Goal
<1>4. ASSUME NEW c \in Bookings, Create(c) PROVE Goal
  BY <1>1, <1>4 DEF Create, Prepare, Abandon, ConfirmPrepare, Link, ConfirmIfPaid, CreateBookingV2, Charge, DieCreating, payment
<1>5. ASSUME NEW c \in Bookings, NEW e \in Handlers, AnnounceExpiry(c) \/ Deliver(c, e) PROVE Goal
  BY <1>1, <1>5 DEF AnnounceExpiry, Deliver, payment
<1>6. ASSUME NEW c \in Bookings, Transition(c) PROVE Goal
  BY <1>1, <1>6 DEF Transition, MarkPaid, CancelBooking, UpdateBookingStatus, Ask, CheckIn, Lapse,
     ListExpired, Read, Write, Refund, Die, payment
<1>7. ASSUME NEW s \in Slots, LockExpires(s) PROVE Goal
  BY <1>1, <1>7 DEF LockExpires, payment
<1>8. ASSUME UNCHANGED vars PROVE Goal
  BY <1>1, <1>8 DEF vars
<1>9. ASSUME NEW c \in Bookings, Settlement(c) PROVE Goal
  <2>1. "paid" \in Handlers
    BY DEF Handlers, Events
  <2> QED
    BY <1>2, <1>3, <1>5, <1>9, <2>1 DEF Settlement
<1>10. Goal
  BY <1>4, <1>6, <1>7, <1>8, <1>9 DEF Next
<1> QED
  BY <1>10 DEF Goal

LEMMA PaidInvStep == PaidInv /\ [Next]_vars => PaidInv'
<1> SUFFICES ASSUME PaidInv, [Next]_vars PROVE PaidInv'
  OBVIOUS
<1>1. TypeOK'
  BY TypeStep DEF PaidInv
<1>2. HandledIsPaid'
  <2>1. ASSUME NEW b \in Bookings, replay'[b].at # "none" PROVE pay'[b] = "paid"
    BY <2>1, PayStep, JobStep DEF PaidInv, HandledIsPaid
  <2>2. ASSUME NEW b \in Bookings, NEW r \in Succeeded, cmd'[b][r] # Idle PROVE pay'[b] = "paid"
    BY <2>2, PayStep, HandlerStep DEF PaidInv, HandledIsPaid
  <2> QED
    BY <2>1, <2>2 DEF HandledIsPaid
<1>3. ASSUME NEW b \in Bookings, b \in paid' PROVE pay[b] = "paid"
  BY <1>3, MarkStep DEF PaidInv, HandledIsPaid, PaidWasPaid
<1>4. \A b \in paid' : b \in Bookings
  BY <1>1 DEF TypeOK
<1>5. PaidWasPaid'
  BY <1>3, <1>4, PayStep DEF PaidInv, PaidWasPaid
<1> QED
  BY <1>1, <1>2, <1>5 DEF PaidInv

\* A booking once begun stays so, and the other steps of its request are as before.
LEMMA BegunStep ==
  ASSUME TypeOK, [Next]_vars, NEW b \in Bookings, Begun(b)
  PROVE  step'[b] \notin {"new", "prepared"}
<1> DEFINE Goal == step'[b] \notin {"new", "prepared"}
<1>1. ASSUME UNCHANGED step PROVE Goal
  BY <1>1 DEF Begun
<1>2. ASSUME NEW c \in Bookings, NEW l \in {"prepared", "inserted", "linked", "refused", "unpaid", "done", "gone"}, Goto(c, l),
             l # "prepared" \/ step[c] = "new"
      PROVE Goal
  BY <1>2 DEF Begun, Goto, TypeOK
<1> HIDE DEF Goal
<1>3. ASSUME NEW c \in Bookings, Create(c) PROVE Goal
  BY <1>1, <1>2, <1>3 DEF Create, Prepare, Abandon, ConfirmPrepare, Link, ConfirmIfPaid, CreateBookingV2, Charge,
     DieCreating
<1>4. ASSUME NEW c \in Bookings, Settlement(c) PROVE Goal
  BY <1>1, <1>4 DEF Settlement, AnnounceExpiry, Settle, Deliver, ReplayDispatch, ReplayRecorded, DieReplaying
<1>9. ASSUME NEW c \in Bookings, NEW r \in Roles, Die(c, r) PROVE Goal
  BY <1>1, <1>2, <1>9 DEF Die, Goto
<1>5. ASSUME NEW c \in Bookings, Transition(c) PROVE Goal
  BY <1>1, <1>5, <1>9 DEF Transition, MarkPaid, CancelBooking, UpdateBookingStatus, Ask, CheckIn, Lapse,
     ListExpired, Read, Write, Refund
<1>6. ASSUME NEW s \in Slots, LockExpires(s) PROVE Goal
  BY <1>1, <1>6 DEF LockExpires
<1>7. ASSUME UNCHANGED vars PROVE Goal
  BY <1>1, <1>7 DEF vars
<1>8. Goal
  BY <1>3, <1>4, <1>5, <1>6, <1>7 DEF Next
<1> QED
  BY <1>8 DEF Goal

\* Only a request that has inserted its row links its payment to it.
LEMMA LinkStep ==
  ASSUME TypeOK, [Next]_vars, NEW b \in Bookings, b \in linked'
  PROVE  b \in linked \/ Begun(b)
<1> DEFINE Goal == b \in linked \/ Begun(b)
<1>1. ASSUME UNCHANGED linked PROVE Goal
  BY <1>1
<1>2. ASSUME NEW c \in Bookings, Begun(c), linked' \in {linked, linked \cup {c}} PROVE Goal
  BY <1>2
<1> HIDE DEF Goal
<1>3. ASSUME NEW c \in Bookings, Link(c) \/ Charge(c) PROVE Goal
  BY <1>2, <1>3 DEF Link, Charge, Begun
<1>4. ASSUME NEW c \in Bookings,
             \/ Prepare(c) \/ Abandon(c) \/ ConfirmPrepare(c) \/ CreateBookingV2(c)
             \/ ConfirmIfPaid(c) \/ DieCreating(c) \/ Settlement(c)
      PROVE Goal
  BY <1>1, <1>4 DEF ConfirmIfPaid, Prepare, Abandon, ConfirmPrepare, CreateBookingV2, DieCreating,
     Settlement, AnnounceExpiry, Settle, Deliver, ReplayDispatch, ReplayRecorded, DieReplaying, payment
<1>5. ASSUME NEW c \in Bookings, Transition(c) PROVE Goal
  BY <1>1, <1>5 DEF Transition, MarkPaid, CancelBooking, UpdateBookingStatus, Ask, CheckIn, Lapse,
     ListExpired, Read, Write, Refund, Die, payment
<1>6. ASSUME NEW s \in Slots, LockExpires(s) PROVE Goal
  BY <1>1, <1>6 DEF LockExpires, payment
<1>7. ASSUME UNCHANGED vars PROVE Goal
  BY <1>1, <1>7 DEF vars
<1>8. Goal
  BY <1>3, <1>4, <1>5, <1>6, <1>7 DEF Next, Create
<1> QED
  BY <1>8 DEF Goal

\* What a step does to a command: nothing, or it starts or continues one of a
\* booking that exists, and leaves it as it should be.
LEMMA CmdStep ==
  ASSUME IInv, Next, NEW d \in Bookings, NEW q \in Roles
  PROVE  \/ cmd'[d][q] = cmd[d][q]
         \/ Begun(d)' /\ CommandOK(cmd'[d][q], status'[d], version'[d], d \in paid', d \in revived')
<1> DEFINE Goal == \/ cmd'[d][q] = cmd[d][q]
                   \/ Begun(d)' /\ CommandOK(cmd'[d][q], status'[d], version'[d], d \in paid', d \in revived')
<1>t. TypeOK /\ Unbegun
  BY DEF IInv, PaidInv
<1>1. ASSUME UNCHANGED cmd PROVE Goal
  BY <1>1
<1>2. ASSUME NEW b \in Bookings, NEW r \in Roles, NEW c, Set(b, r, c), Begun(b)',
             CommandOK(c, status'[b], version'[b], b \in paid', b \in revived')
      PROVE Goal
  BY <1>2, <1>t, SetOne
<1> HIDE DEF Goal
<1>3. ASSUME NEW b \in Bookings, NEW r \in Roles,
             cmd[b][r] # Idle \/ b \in linked \/ status[b] # None \/ replay[b].at # "none"
      PROVE Begun(b)'
  <2>1. Begun(b)
    BY <1>3, <1>t DEF Unbegun, Begun
  <2> QED
    BY <1>t, <2>1, BegunStep DEF Begun
<1>4. ASSUME NEW s, NEW v, NEW m, NEW x
      PROVE  /\ CommandOK(Idle, s, v, m, x) /\ CommandOK(Event, s, v, m, x)
             /\ CommandOK([Idle EXCEPT !.at = "mark"], s, v, m, x)
             /\ \A t \in Statuses : CommandOK(Order(t), s, v, m, x)
  BY DEF CommandOK, Idle, Event, Order
<1>r. Events \subseteq Roles /\ Handlers \subseteq Roles /\ Succeeded \subseteq Roles
      /\ "replay" \in Roles /\ "creator" \in Roles /\ "worker" \in Roles
      /\ "player" \in Roles /\ "staff" \in Roles /\ "paid" \in Events /\ "expired" \in Events
      /\ {"confirmed", "completed", "no_show", "cancelled", "expired"} \subseteq Statuses
  BY DEF Roles, Handlers, Succeeded, Events, Statuses
<1>5. ASSUME NEW b \in Bookings, ConfirmIfPaid(b) \/ CreateBookingV2(b) PROVE Goal
  <2>1. ASSUME Goto(b, "done") PROVE Begun(b)'
    BY <1>t, <2>1 DEF Goto, TypeOK, Begun
  <2> QED
    BY <1>1, <1>2, <1>4, <1>5, <1>r, <2>1 DEF ConfirmIfPaid, CreateBookingV2
<1>6. ASSUME NEW b \in Bookings,
             \/ Prepare(b) \/ Abandon(b) \/ ConfirmPrepare(b) \/ Charge(b)
             \/ Link(b) \/ DieCreating(b) \/ CheckIn(b) \/ Lapse(b)
      PROVE Goal
  BY <1>1, <1>6 DEF Link, Prepare, Abandon, ConfirmPrepare, Charge, DieCreating,
     CheckIn, Lapse
<1>7. ASSUME NEW b \in Bookings, AnnounceExpiry(b) PROVE Goal
  BY <1>1, <1>2, <1>3, <1>4, <1>7, <1>r DEF AnnounceExpiry
<1>8. ASSUME NEW b \in Bookings, NEW e \in Events, Settle(b, e) PROVE Goal
  BY <1>1, <1>2, <1>3, <1>4, <1>8, <1>r DEF Settle
<1>20. ASSUME NEW b \in Bookings, ReplayDispatch(b) \/ ReplayRecorded(b) \/ DieReplaying(b) PROVE Goal
  BY <1>1, <1>2, <1>3, <1>4, <1>20, <1>r DEF ReplayDispatch, ReplayRecorded, DieReplaying
<1>9. ASSUME NEW b \in Bookings, NEW e \in Handlers, Deliver(b, e) PROVE Goal
  <2>1. PICK c \in {[Idle EXCEPT !.at = "mark"], Order("confirmed"), Order("cancelled"), Idle} :
          Set(b, e, c)
    BY <1>9 DEF Deliver
  <2>2. cmd[b][e] # Idle
    BY <1>9, CommandFacts DEF Deliver
  <2> QED
    BY <1>2, <1>3, <1>4, <1>r, <2>1, <2>2
<1>10. ASSUME NEW b \in Bookings, NEW r \in Roles, MarkPaid(b, r) \/ Refund(b, r) \/ Die(b, r)
       PROVE Goal
  BY <1>2, <1>3, <1>4, <1>10, <1>r, CommandFacts DEF MarkPaid, Refund, Die
<1>11. ASSUME NEW b \in Bookings, NEW r \in Roles, NEW s \in Statuses, Ask(b, r, s) PROVE Goal
  <2>1. CommandOK([Order(s) EXCEPT !.refund = (s = "cancelled" /\ b \in paid)],
                  status'[b], version'[b], b \in paid', b \in revived')
    BY <1>11 DEF Ask, CommandOK, Order, Idle, row
  <2> QED
    BY <1>2, <1>3, <1>11, <2>1 DEF Ask
<1>12. ASSUME NEW b \in Bookings, CancelBooking(b) \/ UpdateBookingStatus(b) PROVE Goal
  BY <1>11, <1>12, <1>r DEF CancelBooking, UpdateBookingStatus
<1>13. ASSUME NEW b \in Bookings, ListExpired(b) PROVE Goal
  BY <1>2, <1>3, <1>4, <1>13, <1>r DEF ListExpired, None
<1>14. ASSUME NEW b \in Bookings, NEW r \in Roles, Read(b, r) PROVE Goal
  <2> DEFINE c == [cmd[b][r] EXCEPT !.at = "write", !.version = version[b]]
  <2>1. cmd[b][r] # Idle /\ UNCHANGED row
    BY <1>14, CommandFacts DEF Read
  <2>2. cmd[b][r] \in Commands /\ version[b] \in Nat
    BY <1>t DEF TypeOK
  <2>3. CommandOK(cmd[b][r], status[b], version[b], b \in paid, b \in revived)
    BY DEF IInv, CommandsOK
  <2>4. c.at = "write" /\ c.version = version[b] /\ c.to = cmd[b][r].to /\ c.refund = cmd[b][r].refund
    BY <2>2 DEF Commands
  <2>5. CASE cmd[b][r].to \in ALLOWED_TRANSITIONS[status[b]]
    <3>1. CommandOK(c, status'[b], version'[b], b \in paid', b \in revived')
      <4>1. cmd[b][r].to \in Reachable(status[b])
        BY <1>t, <2>5, ReachableFacts DEF TypeOK
      <4> QED
        BY <2>1, <2>2, <2>3, <2>4, <4>1 DEF CommandOK, row
    <3>2. Set(b, r, c)
      BY <1>14, <2>5 DEF Read
    <3> QED
      BY <1>2, <1>3, <2>1, <3>1, <3>2
  <2>6. CASE cmd[b][r].to \notin ALLOWED_TRANSITIONS[status[b]]
    BY <1>2, <1>3, <1>4, <1>14, <2>1, <2>6 DEF Read
  <2> QED
    BY <2>5, <2>6
<1>15. ASSUME NEW b \in Bookings, NEW r \in Roles, Write(b, r) PROVE Goal
  <2>1. cmd[b][r] # Idle
    BY <1>15, CommandFacts DEF Write
  <2>2. CASE version[b] # cmd[b][r].version
    BY <1>2, <1>3, <1>4, <1>15, <2>1, <2>2 DEF Write
  <2>3. CASE version[b] = cmd[b][r].version
    <3>1. CommandOK(cmd[b][r], status[b], version[b], b \in paid, b \in revived)
      BY DEF IInv, CommandsOK
    <3>2. Set(b, r, After(cmd[b][r])) /\ status'[b] = cmd[b][r].to /\ (b \in paid => b \in paid')
      BY <1>15, <2>3, <1>t DEF Write, TypeOK
    <3>3. CommandOK(After(cmd[b][r]), status'[b], version'[b], b \in paid', b \in revived')
      BY <3>1, <3>2 DEF After, CommandOK, Idle
    <3> QED
      BY <1>2, <1>3, <2>1, <3>2, <3>3
  <2> QED
    BY <2>2, <2>3
<1>16. ASSUME NEW s \in Slots, LockExpires(s) PROVE Goal
  BY <1>1, <1>16 DEF LockExpires
<1>17. ASSUME NEW b \in Bookings, Settlement(b) PROVE Goal
  BY <1>7, <1>8, <1>9, <1>17, <1>20 DEF Settlement
<1>18. ASSUME NEW b \in Bookings, Transition(b) PROVE Goal
  BY <1>6, <1>10, <1>12, <1>13, <1>14, <1>15, <1>18, <1>r DEF Transition
<1>19. Goal
  BY <1>5, <1>6, <1>16, <1>17, <1>18 DEF Next, Create
<1> QED
  BY <1>19 DEF Goal

\* Money goes back only at the end of a cancellation that was written.
LEMMA RefundStep ==
  ASSUME TypeOK, [Next]_vars, NEW b \in Bookings, b \in refunded'
  PROVE  b \in refunded \/ \E r \in Roles : cmd[b][r].at = "refund"
<1> DEFINE Goal == b \in refunded \/ \E r \in Roles : cmd[b][r].at = "refund"
<1>1. ASSUME UNCHANGED refunded PROVE Goal
  BY <1>1
<1>2. ASSUME NEW c \in Bookings, NEW r \in Roles, Refund(c, r) PROVE Goal
  BY <1>2 DEF Refund
<1> HIDE DEF Goal
<1>3. ASSUME NEW c \in Bookings, Create(c) PROVE Goal
  BY <1>1, <1>3 DEF Create, Prepare, Abandon, ConfirmPrepare, Link, ConfirmIfPaid, CreateBookingV2, Charge,
     DieCreating
<1>4. ASSUME NEW c \in Bookings, Settlement(c) PROVE Goal
  BY <1>1, <1>4 DEF Settlement, AnnounceExpiry, Settle, Deliver, ReplayDispatch, ReplayRecorded, DieReplaying
<1>5. ASSUME NEW c \in Bookings,
             \/ (\E r \in Succeeded : MarkPaid(c, r)) \/ CancelBooking(c) \/ UpdateBookingStatus(c) \/ CheckIn(c)
             \/ Lapse(c) \/ ListExpired(c)
      PROVE Goal
  BY <1>1, <1>5 DEF MarkPaid, CancelBooking, UpdateBookingStatus, Ask, CheckIn, Lapse, ListExpired
<1>6. ASSUME NEW c \in Bookings, NEW r \in Roles, Read(c, r) \/ Write(c, r) \/ Die(c, r) PROVE Goal
  BY <1>1, <1>6 DEF Read, Write, Die
<1>7. ASSUME NEW s \in Slots, LockExpires(s) PROVE Goal
  BY <1>1, <1>7 DEF LockExpires
<1>8. ASSUME UNCHANGED vars PROVE Goal
  BY <1>1, <1>8 DEF vars
<1>9. ASSUME NEW c \in Bookings, Transition(c) PROVE Goal
  BY <1>2, <1>5, <1>6, <1>9 DEF Transition
<1>10. Goal
  BY <1>3, <1>4, <1>7, <1>8, <1>9 DEF Next
<1> QED
  BY <1>10 DEF Goal

-------------------------------------------------------------------------------
LEMMA UnbegunStep == IInv /\ Next => Unbegun'
<1> SUFFICES ASSUME IInv, Next, NEW b \in Bookings, step'[b] \in {"new", "prepared"}
             PROVE  /\ status'[b] = None /\ b \notin linked' /\ replay'[b].at = "none"
                    /\ \A r \in Roles : cmd'[b][r] = Idle
  BY DEF Unbegun
<1>t. TypeOK /\ Unbegun
  BY DEF IInv, PaidInv
<1>1. ~Begun(b)
  BY <1>t, BegunStep
<1>2. /\ status[b] = None /\ b \notin linked /\ replay[b].at = "none"
      /\ \A r \in Roles : cmd[b][r] = Idle
  BY <1>1, <1>t DEF Unbegun, Begun
<1>3. b \notin linked'
  BY <1>1, <1>2, <1>t, LinkStep
<1>4. \A r \in Roles : cmd'[b][r] = Idle
  <2>1. ~Begun(b)'
    BY DEF Begun
  <2> QED
    BY <1>2, <2>1, CmdStep
<1>5. status'[b] = None
  <2>1. ASSUME NEW c \in Bookings, NEW s \in Waiting, Inserts(c, s)
        PROVE status'[b] = None
    BY <2>1, <1>2, <1>t DEF Inserts, TypeOK
  <2>2. ASSUME NEW c \in Bookings, NEW s \in Statuses, Moves(c, s) PROVE status'[b] = None
    <3>1. c # b
      BY <2>2, <1>2, <1>t, ReachableFacts DEF Moves, Blocking, TypeOK
    <3> QED
      BY <2>2, <1>2, <1>t, <3>1 DEF Moves, TypeOK
  <2>3. ASSUME NEW c \in Bookings, ChecksIn(c) PROVE status'[b] = None
    BY <2>3, <1>2, <1>t DEF ChecksIn, TypeOK
  <2> QED
    BY <1>2, <2>1, <2>2, <2>3, StatusStep
<1>6. replay'[b].at = "none"
  BY <1>2, <1>t, JobStep
<1> QED
  BY <1>3, <1>4, <1>5, <1>6

LEMMA CommandsStep == IInv /\ Next => CommandsOK'
<1> SUFFICES ASSUME IInv, Next, NEW d \in Bookings, NEW q \in Roles
             PROVE  CommandOK(cmd'[d][q], status'[d], version'[d], d \in paid', d \in revived')
  BY DEF CommandsOK
<1>t. TypeOK /\ Unbegun
  BY DEF IInv, PaidInv
<1> DEFINE c == cmd[d][q]
<1>1. CommandOK(c, status[d], version[d], d \in paid, d \in revived)
  BY DEF IInv, CommandsOK
<1>2. c \in Commands /\ version[d] \in Nat /\ status[d] \in Statuses
  BY <1>t DEF TypeOK
<1>3. d \in paid => d \in paid'
  BY <1>t, MarkStep
<1>9. d \in revived => d \in revived'
  BY StatusStep DEF Inserts, Moves, ChecksIn
<1>4. SUFFICES CommandOK(c, status'[d], version'[d], d \in paid', d \in revived')
  BY <1>4, CmdStep
<1> HIDE DEF c
<1>5. CASE status'[d] = status[d] /\ version'[d] = version[d]
  BY <1>1, <1>3, <1>5, <1>9 DEF CommandOK
<1>6. ASSUME NEW b \in Bookings, NEW s \in Waiting, Inserts(b, s)
      PROVE CommandOK(c, status'[d], version'[d], d \in paid', d \in revived')
  <2>1. CASE b = d
    <3>1. c = Idle
      BY <1>6, <2>1, <1>t DEF Inserts, Unbegun, Begun, c
    <3> QED
      BY <3>1 DEF CommandOK, Idle
  <2>2. CASE b # d
    BY <1>5, <1>6, <2>2, <1>t DEF Inserts, TypeOK
  <2> QED
    BY <2>1, <2>2
<1>7. ASSUME NEW b \in Bookings, NEW s \in Statuses, Moves(b, s)
      PROVE CommandOK(c, status'[d], version'[d], d \in paid', d \in revived')
  <2>1. CASE b = d
    <3>1. status[d] # "cancelled" /\ version'[d] = version[d] + 1
      BY <1>7, <2>1, <1>t, ReachableFacts DEF Moves, TypeOK
    <3> QED
      BY <1>1, <1>2, <1>3, <1>9, <3>1 DEF CommandOK, Commands
  <2>2. CASE b # d
    BY <1>5, <1>7, <2>2, <1>t DEF Moves, TypeOK
  <2> QED
    BY <2>1, <2>2
<1>8. ASSUME NEW b \in Bookings, ChecksIn(b)
      PROVE CommandOK(c, status'[d], version'[d], d \in paid', d \in revived')
  <2>1. CASE b = d
    <3>1. status'[d] = "checked_in" /\ version'[d] = version[d]
      BY <1>8, <2>1, <1>t DEF ChecksIn, TypeOK
    <3>2. Reachable(status[d]) \subseteq Reachable("checked_in")
      BY <1>2, ReachableFacts
    <3>3. status[d] = "cancelled" => d \in revived'
      BY <1>8, <2>1 DEF ChecksIn, Blocking
    <3> QED
      BY <1>1, <1>3, <1>9, <3>1, <3>2, <3>3 DEF CommandOK
  <2>2. CASE b # d
    BY <1>5, <1>8, <2>2, <1>t DEF ChecksIn, TypeOK
  <2> QED
    BY <2>1, <2>2
<1> QED
  BY <1>5, <1>6, <1>7, <1>8, StatusStep

LEMMA NoDoubleBookingStep == IInv /\ Next => NoDoubleBooking'
<1> SUFFICES ASSUME IInv, Next PROVE NoDoubleBooking'
  OBVIOUS
<1>t. TypeOK /\ NoDoubleBooking
  BY DEF IInv, PaidInv
<1>1. CASE UNCHANGED <<status, revived>>
  BY <1>1, <1>t DEF NoDoubleBooking
<1>2. ASSUME NEW b \in Bookings, NEW s \in Waiting, Inserts(b, s)
      PROVE NoDoubleBooking'
  BY <1>2, <1>t DEF NoDoubleBooking, Inserts, Free, TypeOK
<1>3. ASSUME NEW b \in Bookings, NEW s \in Statuses, Moves(b, s) PROVE NoDoubleBooking'
  <2>1. Blocking(status[b])
    BY <1>3, <1>t, ReachableFacts DEF Moves, TypeOK
  <2>2. \A d \in Bookings : d # b => status'[d] = status[d]
    BY <1>3, <1>t DEF Moves, TypeOK
  <2>3. \A d \in Bookings : Blocking(status'[d]) => Blocking(status[d])
    BY <2>1, <2>2
  <2>4. UNCHANGED revived
    BY <1>3 DEF Moves
  <2> QED
    BY <2>3, <2>4, <1>t DEF NoDoubleBooking
<1>4. ASSUME NEW b \in Bookings, ChecksIn(b) PROVE NoDoubleBooking'
  <2>1. \A d \in Bookings : d # b => status'[d] = status[d]
    BY <1>4, <1>t DEF ChecksIn, TypeOK
  <2>2. revived \subseteq revived' /\ (Blocking(status[b]) \/ b \in revived')
    BY <1>4 DEF ChecksIn
  <2>3. \A d \in Bookings : Blocking(status'[d]) => Blocking(status[d]) \/ d \in revived'
    BY <2>1, <2>2
  <2> QED
    BY <2>2, <2>3, <1>t DEF NoDoubleBooking
<1> QED
  BY <1>1, <1>2, <1>3, <1>4, StatusStep

LEMMA RefundedStep == IInv /\ Next => RefundedIsCancelled'
<1> SUFFICES ASSUME IInv, Next PROVE RefundedIsCancelled'
  OBVIOUS
<1>t. TypeOK /\ PaidWasPaid /\ RefundedIsCancelled /\ TypeOK'
  BY TypeStep DEF IInv, PaidInv
<1>1. ASSUME NEW b \in Bookings, b \in refunded' PROVE pay[b] = "paid" /\ (status[b] = "cancelled" \/ b \in revived)
  <2>1. CASE b \in refunded
    BY <2>1, <1>t DEF RefundedIsCancelled
  <2>2. CASE b \notin refunded
    <3>1. PICK r \in Roles : cmd[b][r].at = "refund"
      BY <1>1, <1>t, <2>2, RefundStep
    <3>2. (status[b] = "cancelled" \/ b \in revived) /\ b \in paid
      BY <3>1 DEF IInv, CommandsOK, CommandOK
    <3> QED
      BY <3>2, <1>t DEF PaidWasPaid
  <2> QED
    BY <2>1, <2>2
<1>2. ASSUME NEW b \in Bookings, status[b] = "cancelled" \/ b \in revived
      PROVE  status'[b] = "cancelled" \/ b \in revived'
  <2>1. CASE b \in revived
    BY <2>1, StatusStep DEF Inserts, Moves, ChecksIn
  <2>2. CASE status[b] = "cancelled"
    <3>1. ASSUME NEW c \in Bookings, NEW s \in Waiting, Inserts(c, s) PROVE status'[b] = "cancelled"
      <4>1. c # b
        BY <2>2, <3>1 DEF Inserts, Begun, IInv, Unbegun, None
      <4> QED
        BY <1>t, <2>2, <3>1, <4>1 DEF Inserts, TypeOK
    <3>2. ASSUME NEW c \in Bookings, NEW s \in Statuses, Moves(c, s) PROVE status'[b] = "cancelled"
      <4>1. c # b
        BY <2>2, <3>2, ReachableFacts DEF Moves
      <4> QED
        BY <1>t, <2>2, <3>2, <4>1 DEF Moves, TypeOK
    <3>3. ASSUME NEW c \in Bookings, ChecksIn(c) PROVE status'[b] = "cancelled" \/ b \in revived'
      <4>1. CASE c = b
        BY <2>2, <3>3, <4>1 DEF ChecksIn, Blocking
      <4>2. CASE c # b
        BY <1>t, <2>2, <3>3, <4>2 DEF ChecksIn, TypeOK
      <4> QED
        BY <4>1, <4>2
    <3> QED
      BY <2>2, <3>1, <3>2, <3>3, StatusStep
  <2> QED
    BY <1>2, <2>1, <2>2
<1>3. \A b \in refunded' : b \in Bookings
  BY <1>t DEF TypeOK
<1> QED
  BY <1>1, <1>2, <1>3, <1>t, PayStep DEF RefundedIsCancelled

LEMMA NextInv == IInv /\ [Next]_vars => IInv'
<1> SUFFICES ASSUME IInv, [Next]_vars PROVE IInv'
  OBVIOUS
<1>1. CASE Next
  BY <1>1, PaidInvStep, UnbegunStep, CommandsStep, NoDoubleBookingStep, RefundedStep DEF IInv
<1>2. CASE UNCHANGED vars
  BY <1>2, PaidInvStep DEF IInv, vars, Unbegun, CommandsOK, NoDoubleBooking, RefundedIsCancelled
<1> QED
  BY <1>1, <1>2

-------------------------------------------------------------------------------
\* The type invariant holds, whoever acts.
THEOREM TypeCorrect == Spec => []TypeOK
<1>1. Init => TypeOK
  BY InitInv DEF IInv, PaidInv
<1> QED
  BY <1>1, TypeStep, PTL DEF Spec

\* A booking is marked paid only if its payment is, whoever acts: the check-in
\* desk does not touch payments.
THEOREM PaidWasPaidHolds == Spec => []PaidWasPaid
<1>1. Init => PaidInv
  BY InitInv DEF IInv
<1>2. PaidInv => PaidWasPaid
  BY DEF PaidInv
<1> QED
  BY <1>1, <1>2, PaidInvStep, PTL DEF Spec

\* The inductive invariant.
THEOREM InvHolds == Spec => []IInv
  BY InitInv, NextInv, PTL DEF Spec

\* No slot is booked twice, however locks expire or are not taken, requests
\* interleave and processes die (GOV-ADR-015), but for a check-in of a booking
\* that had given the slot up.
THEOREM NoDoubleBookingHolds == Spec => []NoDoubleBooking
  BY InvHolds, PTL DEF IInv

\* Money only goes back for a booking that was paid for and is cancelled, whatever
\* the desk has made of it since.
THEOREM RefundedIsCancelledHolds == Spec => []RefundedIsCancelled
  BY InvHolds, PTL DEF IInv

\* Optimistic locking on the aggregate version keeps every race of commands
\* inside the transition table of booking-aggregate.ts, until a check-in.
THEOREM OnlyAllowedTransitionsHolds == Spec => OnlyAllowedTransitions
<1> DEFINE A == \A b \in Bookings :
                  /\ status[b] \notin {None, "checked_in"}
                  /\ status'[b] \notin {status[b], "checked_in"}
                  => status'[b] \in ALLOWED_TRANSITIONS[status[b]]
<1>1. IInv /\ Next => A
  <2> SUFFICES ASSUME IInv, Next, NEW b \in Bookings,
                      status[b] \notin {None, "checked_in"},
                      status'[b] \notin {status[b], "checked_in"}
               PROVE  status'[b] \in ALLOWED_TRANSITIONS[status[b]]
    OBVIOUS
  <2>t. TypeOK /\ Unbegun
    BY DEF IInv, PaidInv
  <2>1. ASSUME NEW c \in Bookings, NEW s \in Waiting, Inserts(c, s)
        PROVE FALSE
    BY <2>1, <2>t DEF Inserts, Begun, Unbegun, TypeOK
  <2>2. ASSUME NEW c \in Bookings, NEW s \in Statuses, Moves(c, s)
        PROVE status'[b] \in ALLOWED_TRANSITIONS[status[b]]
    BY <2>2, <2>t DEF Moves, Reachable, TypeOK
  <2>3. ASSUME NEW c \in Bookings, ChecksIn(c) PROVE FALSE
    BY <2>3, <2>t DEF ChecksIn, TypeOK
  <2> QED
    BY <2>1, <2>2, <2>3, StatusStep
<1>2. UNCHANGED vars => A
  BY DEF vars
<1> HIDE DEF A
<1>3. IInv /\ [Next]_vars => [A]_vars
  BY <1>1, <1>2
<1>4. Spec => [][A]_vars
  BY <1>3, InvHolds, PTL DEF Spec
<1> QED
  BY <1>4 DEF A, OnlyAllowedTransitions

-------------------------------------------------------------------------------
(* Who cancels a booking whose payment is captured.                        *)

\* The transitions a role ever asks for.
Wants(r) ==
  CASE r \in Succeeded \cup {"creator"} -> {"confirmed"}
    [] r \in {"failed", "expired"}       -> {"cancelled"}
    [] r = "worker"                      -> {"expired"}
    [] r = "player"                      -> {"cancelled"}
    [] r = "staff"                       -> {"confirmed", "completed", "no_show"}

\* A handler of an unsuccessful outcome runs after that outcome.
Warranted(b, r) ==
  /\ cmd[b][r].to \in Wants(r) \cup {None}
  /\ r = "failed" /\ cmd[b][r] # Idle => pay[b] = "failed"
  /\ r = "expired" /\ cmd[b][r] # Idle => pay[b] \in {"failed", "expired"}

CauseInv == \A b \in Bookings : \A r \in Roles : Warranted(b, r)

LEMMA RoleFacts ==
  /\ Roles = {"paid", "failed", "expired", "replay", "creator", "worker", "player", "staff"}
  /\ Succeeded = {"paid", "replay"} /\ Handlers = {"paid", "failed", "expired", "replay"}
  /\ Wants("paid") = {"confirmed"} /\ Wants("replay") = {"confirmed"}
  /\ Wants("failed") = {"cancelled"} /\ Wants("expired") = {"cancelled"}
  /\ Wants("creator") = {"confirmed"} /\ Wants("worker") = {"expired"}
  /\ Wants("player") = {"cancelled"} /\ Wants("staff") = {"confirmed", "completed", "no_show"}
  BY DEF Roles, Handlers, Succeeded, Events, Wants

\* A command that is left alone is as warranted as it was.
LEMMA WarrantKept ==
  ASSUME TypeOK, [Next]_vars, NEW b \in Bookings, NEW r \in Roles,
         Warranted(b, r), cmd'[b][r] = cmd[b][r]
  PROVE  Warranted(b, r)'
  BY FinalStep DEF Warranted

LEMMA WarrantedStep ==
  ASSUME TypeOK, Next, CauseInv, NEW d \in Bookings, NEW q \in Roles
  PROVE  Warranted(d, q)'
<1> DEFINE Goal == Warranted(d, q)'
<1> USE RoleFacts
<1>1. ASSUME NEW b \in Bookings, NEW r \in Roles PROVE Warranted(b, r)
  BY DEF CauseInv
<1>2. ASSUME UNCHANGED cmd PROVE Goal
  BY <1>1, <1>2, WarrantKept
<1>3. ASSUME NEW b \in Bookings, NEW r \in Roles, NEW c, Set(b, r, c),
             cmd'[b][r] = c => Warranted(b, r)'
      PROVE  Goal
  BY <1>1, <1>3, SetOne, WarrantKept
<1> HIDE DEF Goal
<1>f. /\ Idle.to = None /\ Event.to = None /\ [Idle EXCEPT !.at = "mark"].to = None
      /\ \A s : Order(s).to = s
  BY DEF Idle, Event, Order
\* Nothing is planned, or what the role asks for, and it is nobody who needs a reason.
<1>4. ASSUME NEW b \in Bookings, NEW r \in Roles, NEW c, Set(b, r, c), c.to \in Wants(r) \cup {None},
             c = Idle \/ r \notin {"failed", "expired"}
      PROVE  Goal
  <2>1. cmd'[b][r] = c => Warranted(b, r)'
    BY <1>4, <1>f DEF Warranted, None
  <2> QED BY <1>3, <1>4, <2>1
\* A command goes on with its plan: its reason still holds.
<1>5. ASSUME NEW b \in Bookings, NEW r \in Roles, NEW c, Set(b, r, c), cmd[b][r] # Idle,
             \/ c.to \in {cmd[b][r].to, None}
             \/ r \in {"failed", "expired"} /\ c.to = "cancelled"
      PROVE  Goal
  <2>1. cmd'[b][r] = c => Warranted(b, r)'
    BY <1>1, <1>5, FinalStep DEF Warranted, None
  <2> QED BY <1>3, <1>5, <2>1
<1>6. ASSUME NEW b \in Bookings, Create(b) PROVE Goal
  <2>1. CASE ConfirmIfPaid(b) \/ CreateBookingV2(b)
    <3>1. ASSUME Set(b, "creator", Order("confirmed")) PROVE Goal
      BY <1>4, <1>f, <3>1
    <3> QED BY <1>2, <2>1, <3>1 DEF ConfirmIfPaid, CreateBookingV2
  <2>2. CASE \/ Prepare(b) \/ Abandon(b) \/ ConfirmPrepare(b) \/ Link(b)
             \/ Charge(b) \/ DieCreating(b)
    BY <1>2, <2>2 DEF Prepare, Abandon, ConfirmPrepare, Link, Charge, DieCreating
  <2> QED BY <1>6, <2>1, <2>2 DEF Create
<1>7. ASSUME NEW b \in Bookings, AnnounceExpiry(b) PROVE Goal
  <2>1. CASE Set(b, "expired", Event)
    <3>1. cmd'[b]["expired"] = Event => Warranted(b, "expired")'
      BY <1>7, <1>f DEF AnnounceExpiry, Pay!AnnounceExpiry, Warranted, None
    <3> QED BY <1>3, <2>1, <3>1
  <2> QED BY <1>2, <1>7, <2>1 DEF AnnounceExpiry
<1>8. ASSUME NEW b \in Bookings, NEW o \in Events, Settle(b, o) PROVE Goal
  <2>1. CASE Set(b, o, Event)
    <3>1. pay'[b] = o /\ o \in Roles
      BY <1>8 DEF Settle, Pay!Settle, TypeOK, Events
    <3>2. cmd'[b][o] = Event => Warranted(b, o)'
      BY <1>f, <3>1 DEF Warranted, None, Events
    <3> QED BY <1>3, <2>1, <3>1, <3>2
  <2> QED BY <1>2, <1>8, <2>1 DEF Settle
<1>9. ASSUME NEW b \in Bookings, ReplayDispatch(b) \/ ReplayRecorded(b) \/ DieReplaying(b) PROVE Goal
  BY <1>2, <1>4, <1>9, <1>f DEF ReplayDispatch, ReplayRecorded, DieReplaying
<1>10. ASSUME NEW b \in Bookings, NEW e \in Handlers, Deliver(b, e) PROVE Goal
  <2>1. cmd[b][e] # Idle
    BY <1>10, CommandFacts DEF Deliver
  <2>2. CASE e \in Succeeded
    <3>1. PICK c \in {[Idle EXCEPT !.at = "mark"], Order("confirmed"), Idle} : Set(b, e, c)
      BY <1>10, <2>2 DEF Deliver
    <3> QED BY <1>4, <1>f, <2>2, <3>1
  <2>3. CASE e \notin Succeeded
    <3>1. PICK c \in {Order("cancelled"), Idle} : Set(b, e, c)
      BY <1>10, <2>3 DEF Deliver
    <3> QED BY <1>5, <1>f, <2>1, <2>3, <3>1
  <2> QED BY <2>2, <2>3
<1>11. ASSUME NEW b \in Bookings, CancelBooking(b) \/ UpdateBookingStatus(b) PROVE Goal
  <2>1. ASSUME NEW r \in {"player", "staff"}, NEW s \in Wants(r), Ask(b, r, s) PROVE Goal
    <3>1. [Order(s) EXCEPT !.refund = (s = "cancelled" /\ b \in paid)].to = s
      BY DEF Order, Idle
    <3> QED BY <1>4, <2>1, <3>1 DEF Ask
  <2> QED BY <1>11, <2>1 DEF CancelBooking, UpdateBookingStatus
<1>12. ASSUME NEW b \in Bookings, CheckIn(b) \/ Lapse(b) \/ ListExpired(b) PROVE Goal
  BY <1>2, <1>4, <1>12, <1>f DEF CheckIn, Lapse, ListExpired
<1>13. ASSUME NEW b \in Bookings, NEW r \in Succeeded, MarkPaid(b, r) PROVE Goal
  BY <1>4, <1>13, <1>f DEF MarkPaid
<1>14. ASSUME NEW b \in Bookings, NEW r \in Roles, Read(b, r) PROVE Goal
  <2>1. cmd[b][r] # Idle /\ cmd[b][r] \in Commands
    BY <1>14, CommandFacts DEF Read, TypeOK
  <2>2. [cmd[b][r] EXCEPT !.at = "write", !.version = version[b]].to = cmd[b][r].to
    BY <2>1 DEF Commands
  <2> QED BY <1>5, <1>14, <1>f, <2>1, <2>2 DEF Read
<1>15. ASSUME NEW b \in Bookings, NEW r \in Roles, Write(b, r) \/ Refund(b, r) \/ Die(b, r) PROVE Goal
  <2>1. cmd[b][r] # Idle /\ After(cmd[b][r]).to = None
    BY <1>15, CommandFacts DEF Write, Refund, Die, After, Idle
  <2> QED BY <1>5, <1>15, <1>f, <2>1 DEF Write, Refund, Die
<1>16. ASSUME NEW s \in Slots, LockExpires(s) PROVE Goal
  BY <1>2, <1>16 DEF LockExpires
<1> HIDE RoleFacts
<1>17. ASSUME NEW b \in Bookings, Settlement(b) PROVE Goal
  BY <1>7, <1>8, <1>9, <1>10, <1>17 DEF Settlement
<1>18. ASSUME NEW b \in Bookings, Transition(b) PROVE Goal
  BY <1>11, <1>12, <1>13, <1>14, <1>15, <1>18 DEF Transition
<1>19. Goal
  BY <1>6, <1>16, <1>17, <1>18 DEF Next
<1> QED
  BY <1>19 DEF Goal

LEMMA CauseInvHolds == Spec => []CauseInv
<1>1. Init => CauseInv
  <2>1. Idle.to = None
    BY DEF Idle
  <2> QED
    BY <2>1 DEF Init, CauseInv, Warranted, None
<1>2. TypeOK /\ CauseInv /\ [Next]_vars => CauseInv'
  <2> SUFFICES ASSUME TypeOK, CauseInv, [Next]_vars PROVE CauseInv'
    OBVIOUS
  <2>1. CASE Next
    BY <2>1, WarrantedStep DEF CauseInv
  <2>2. CASE UNCHANGED vars
    BY <2>2, WarrantKept DEF CauseInv, vars
  <2> QED BY <2>1, <2>2
<1> QED
  BY <1>1, <1>2, TypeCorrect, PTL DEF Spec

\* A booking is only cancelled by a command that writes that plan.
LEMMA CancelStep ==
  ASSUME TypeOK, [Next]_vars, NEW b \in Bookings, status[b] # "cancelled", status'[b] = "cancelled"
  PROVE  \E r \in Roles : /\ Write(b, r) /\ cmd[b][r].to = "cancelled"
                          /\ cmd'[b][r] # cmd[b][r]
<1> DEFINE Goal == \E r \in Roles : /\ Write(b, r) /\ cmd[b][r].to = "cancelled"
                                    /\ cmd'[b][r] # cmd[b][r]
<1>1. ASSUME UNCHANGED status PROVE FALSE
  BY <1>1
<1>2. ASSUME NEW c \in Bookings, NEW r \in Roles, Write(c, r) PROVE Goal
  <2>1. c = b /\ cmd[b][r].to = "cancelled"
    BY <1>1, <1>2 DEF Write, TypeOK
  <2>2. After(cmd[b][r]).at # "write" /\ Idle.at # "write"
    BY CommandFacts DEF After, Idle
  <2>3. cmd'[b][r] \in {After(cmd[b][r]), Idle}
    BY <1>2, <2>1, SetOne DEF Write
  <2> QED BY <1>2, <2>1, <2>2, <2>3 DEF Write
<1>3. ASSUME NEW c \in Bookings, NEW s \in Waiting, Insert(c, s) PROVE FALSE
  BY <1>3 DEF Insert, TypeOK, Waiting
<1> HIDE DEF Goal
<1>4. ASSUME NEW c \in Bookings, Create(c) PROVE FALSE
  BY <1>1, <1>3, <1>4 DEF Create, Prepare, Abandon, ConfirmPrepare, Link, ConfirmIfPaid, CreateBookingV2, Charge,
     DieCreating, row, Waiting
<1>5. ASSUME NEW c \in Bookings, Settlement(c) PROVE FALSE
  BY <1>1, <1>5 DEF Settlement, AnnounceExpiry, Settle, Deliver, ReplayDispatch, ReplayRecorded, DieReplaying, row
<1>6. ASSUME NEW c \in Bookings, CheckIn(c) PROVE FALSE
  BY <1>6 DEF CheckIn, TypeOK
<1>7. ASSUME NEW c \in Bookings, Transition(c) PROVE Goal
  BY <1>1, <1>2, <1>6, <1>7 DEF Transition, MarkPaid, CancelBooking, UpdateBookingStatus, Ask, Lapse,
     ListExpired, Read, Refund, Die, row
<1>8. ASSUME NEW s \in Slots, LockExpires(s) PROVE FALSE
  BY <1>1, <1>8 DEF LockExpires, row
<1>9. ASSUME UNCHANGED vars PROVE FALSE
  BY <1>1, <1>9 DEF vars
<1>10. Goal
  BY <1>4, <1>5, <1>7, <1>8, <1>9 DEF Next
<1> QED
  BY <1>10 DEF Goal

\* Neither a late failure or expiry event nor the expiry worker cancels a booking
\* that is paid for, whoever acts.
THEOREM PaidIsCancelledOnRequestHolds == Spec => PaidIsCancelledOnRequest
<1> DEFINE A == \A b \in Bookings :
                  pay[b] = "paid" /\ status[b] # "cancelled" /\ status'[b] = "cancelled"
                    => cmd[b]["player"].at = "write" /\ cmd'[b]["player"] # cmd[b]["player"]
<1>1. TypeOK /\ CauseInv /\ [Next]_vars => A
  <2> SUFFICES ASSUME TypeOK, CauseInv, [Next]_vars, NEW b \in Bookings,
                      pay[b] = "paid", status[b] # "cancelled", status'[b] = "cancelled"
               PROVE  cmd[b]["player"].at = "write" /\ cmd'[b]["player"] # cmd[b]["player"]
    OBVIOUS
  <2>1. PICK r \in Roles : Write(b, r) /\ cmd[b][r].to = "cancelled" /\ cmd'[b][r] # cmd[b][r]
    BY CancelStep
  <2>2. cmd[b][r] # Idle
    BY <2>1, CommandFacts DEF Write
  <2>3. r = "player"
    BY <2>1, <2>2, RoleFacts DEF CauseInv, Warranted, None
  <2> QED BY <2>1, <2>3 DEF Write
<1> HIDE DEF A
<1>2. TypeOK /\ CauseInv /\ [Next]_vars => [A]_vars
  BY <1>1
<1>3. Spec => [][A]_vars
  BY <1>2, TypeCorrect, CauseInvHolds, PTL DEF Spec
<1> QED
  BY <1>3 DEF A, PaidIsCancelledOnRequest

-------------------------------------------------------------------------------
(* BookingPayment implements SlotBooking.                                  *)

\* The values of the refinement mapping.
Staged == [b \in Bookings |-> Stage(status[b])]
Captured == {b \in Bookings : pay[b] = "paid"}

AbstractStep == [Abstract!Next]_<<Staged, Captured, paid, refunded, revived>>

LEMMA StageFacts ==
  /\ Stage(None) = "none"
  /\ \A s \in Statuses \ {None} : Stage(s) = IF Blocking(s) THEN "held" ELSE "over"
  /\ \A s \in Statuses : Stage(s) = "held" <=> Blocking(s)
  /\ Stage("cancelled") = "over" /\ Stage("confirmed") = "held" /\ Stage("checked_in") = "held"
  /\ \A s \in Waiting : Stage(s) = "held"
  BY DEF Stage, Blocking, Statuses, Waiting, None

\* Changing one status changes one stage.
LEMMA StageStep ==
  ASSUME TypeOK, NEW b \in Bookings, NEW s, status' = [status EXCEPT ![b] = s]
  PROVE  Staged' = [Staged EXCEPT ![b] = Stage(s)]
  BY DEF TypeOK, Staged

\* A step of a booking is a step of its slot, its payment or its refund, or none.
LEMMA ImplementsStep ==
  ASSUME IInv, CauseInv, Next
  PROVE  AbstractStep
<1>t. TypeOK /\ Unbegun /\ HandledIsPaid
  BY DEF IInv, PaidInv
<1>1. ASSUME UNCHANGED <<status, pay, paid, refunded, revived>> PROVE AbstractStep
  BY <1>1 DEF AbstractStep, Staged, Captured
<1>2. ASSUME NEW b \in Bookings, NEW s \in Waiting, Insert(b, s),
             step[b] \in {"new", "prepared"}, UNCHANGED <<pay, refunded>>
      PROVE  AbstractStep
  <2>1. status[b] = None
    BY <1>2, <1>t DEF Unbegun
  <2>2. Staged' = [Staged EXCEPT ![b] = "held"]
    <3>1. Staged' = [Staged EXCEPT ![b] = Stage(s)]
      BY <1>2, <1>t, StageStep DEF Insert
    <3> QED BY <3>1, StageFacts
  <2>3. \A c \in Bookings : Slot[c] = Slot[b] => Staged[c] # "held"
    BY <1>2, <1>t, StageFacts DEF Insert, Free, Staged, TypeOK
  <2>4. Staged[b] = "none" /\ UNCHANGED <<Captured, paid, refunded, revived>>
    BY <1>2, <2>1, StageFacts DEF Staged, Captured, Insert
  <2>5. Abstract!Take(b)
    BY <2>2, <2>3, <2>4 DEF Abstract!Take, Staged, Captured
  <2> QED BY <2>5 DEF AbstractStep, Abstract!Next
<1>3. ASSUME NEW b \in Bookings, NEW r \in Succeeded, cmd[b][r] # Idle, paid' = paid \cup {b},
             UNCHANGED <<pay, refunded, revived>>, UNCHANGED Staged
      PROVE  AbstractStep
  <2>1. b \in Captured /\ UNCHANGED Captured
    BY <1>3, <1>t DEF HandledIsPaid, Captured
  <2>2. Abstract!Mark(b)
    BY <1>3, <2>1 DEF Abstract!Mark, Staged, Captured
  <2> QED BY <2>2 DEF AbstractStep, Abstract!Next
<1>4. ASSUME NEW b \in Bookings, NEW r \in Roles, Write(b, r) PROVE AbstractStep
  <2> DEFINE to == cmd[b][r].to
  <2>0. UNCHANGED <<pay, refunded, revived>>
    BY <1>4 DEF Write, payment
  <2>1. CASE version[b] # cmd[b][r].version
    BY <1>1, <1>4, <2>0, <2>1 DEF Write
  <2>2. CASE version[b] = cmd[b][r].version
    <3>1. to \in Reachable(status[b]) /\ to \in Statuses /\ status[b] \in Statuses
      BY <1>4, <2>2, <1>t DEF Write, IInv, CommandsOK, CommandOK, TypeOK, Commands
    <3>2. to # None /\ Stage(status[b]) = "held"
      BY <3>1, ReachableFacts, StageFacts
    <3>3. Staged' = [Staged EXCEPT ![b] = Stage(to)] /\ Staged[b] = "held"
      BY <1>4, <2>2, <3>2, <1>t, StageStep DEF Write, Staged
    <3>4. CASE r \in Succeeded
      <4>1. to = "confirmed"
        BY <3>2, <3>4, RoleFacts DEF CauseInv, Warranted
      <4>2. UNCHANGED Staged
        BY <3>3, <4>1, StageFacts DEF Staged
      <4>3. cmd[b][r] # Idle /\ paid' = paid \cup {b}
        BY <1>4, <2>2, <3>4, CommandFacts DEF Write
      <4> QED BY <1>3, <2>0, <3>4, <4>2, <4>3
    <3>5. CASE r \notin Succeeded
      <4>1. UNCHANGED <<paid, Captured>>
        BY <1>4, <2>0, <2>2, <3>5 DEF Write, Captured
      <4>2. CASE Stage(to) = "held"
        <5>1. UNCHANGED Staged
          BY <3>3, <4>2 DEF Staged
        <5> QED BY <2>0, <4>1, <5>1 DEF AbstractStep
      <4>3. CASE Stage(to) # "held"
        <5>1. Stage(to) = "over"
          BY <3>1, <3>2, <4>3, StageFacts
        <5>2. Abstract!GiveUp(b)
          BY <2>0, <3>3, <4>1, <5>1 DEF Abstract!GiveUp, Staged, Captured
        <5> QED BY <5>2 DEF AbstractStep, Abstract!Next
      <4> QED BY <4>2, <4>3
    <3> QED BY <3>4, <3>5
  <2> QED BY <2>1, <2>2
<1>5. ASSUME NEW b \in Bookings, NEW o \in Events, Settle(b, o) PROVE AbstractStep
  <2>1. UNCHANGED <<Staged, paid, refunded, revived>>
    BY <1>5 DEF Settle, Staged, row
  <2>2. pay[b] = "pending" /\ pay' = [pay EXCEPT ![b] = o]
    BY <1>5 DEF Settle, Pay!Settle
  <2>3. CASE o = "paid"
    <3>1. Captured' = Captured \cup {b}
      BY <2>2, <2>3, <1>t DEF Captured, TypeOK
    <3>2. Abstract!Capture(b)
      BY <2>1, <3>1 DEF Abstract!Capture, Staged, Captured
    <3> QED BY <3>2 DEF AbstractStep, Abstract!Next
  <2>4. CASE o # "paid"
    <3>1. UNCHANGED Captured
      BY <2>2, <2>4, <1>t DEF Captured, TypeOK
    <3> QED BY <2>1, <3>1 DEF AbstractStep
  <2> QED BY <2>3, <2>4
<1>6. ASSUME NEW b \in Bookings, NEW r \in Succeeded, MarkPaid(b, r) PROVE AbstractStep
  <2>1. cmd[b][r] # Idle
    BY <1>6, CommandFacts DEF MarkPaid
  <2>2. UNCHANGED <<pay, status, refunded, revived>> /\ paid' = paid \cup {b}
    BY <1>6 DEF MarkPaid, payment
  <2> QED BY <1>3, <2>1, <2>2 DEF Staged
<1>7. ASSUME NEW b \in Bookings, NEW r \in Roles, Refund(b, r) PROVE AbstractStep
  <2>1. (status[b] = "cancelled" \/ b \in revived) /\ b \in paid
    BY <1>7 DEF Refund, IInv, CommandsOK, CommandOK
  <2>2. UNCHANGED <<status, paid, pay, revived>> /\ refunded' = refunded \cup {b}
    BY <1>7 DEF Refund, payment, row
  <2>3. (Staged[b] = "over" \/ b \in revived) /\ UNCHANGED <<Staged, Captured>>
    BY <2>1, <2>2, StageFacts DEF Staged, Captured
  <2>4. Abstract!Refund(b)
    BY <2>1, <2>2, <2>3 DEF Abstract!Refund, Staged, Captured
  <2> QED BY <2>4 DEF AbstractStep, Abstract!Next
<1> HIDE DEF AbstractStep
<1>8. ASSUME NEW b \in Bookings, Create(b) PROVE AbstractStep
  <2>1. CASE ConfirmPrepare(b) \/ CreateBookingV2(b)
    BY <1>1, <1>2, <2>1 DEF ConfirmPrepare, CreateBookingV2, payment, row, Waiting
  <2>2. CASE \/ Prepare(b) \/ Abandon(b) \/ Link(b) \/ ConfirmIfPaid(b)
             \/ Charge(b) \/ DieCreating(b)
    BY <1>1, <2>2 DEF Prepare, Abandon, Link, ConfirmIfPaid, Charge, DieCreating, payment, row
  <2> QED BY <1>8, <2>1, <2>2 DEF Create
<1>9. ASSUME NEW b \in Bookings, NEW e \in Handlers,
             \/ AnnounceExpiry(b) \/ Deliver(b, e)
             \/ ReplayDispatch(b) \/ ReplayRecorded(b) \/ DieReplaying(b)
      PROVE  AbstractStep
  BY <1>1, <1>9 DEF AnnounceExpiry, Pay!AnnounceExpiry, Deliver, ReplayDispatch, ReplayRecorded, DieReplaying,
     payment, row
<1>10. ASSUME NEW b \in Bookings, Settlement(b) PROVE AbstractStep
  <2>1. "paid" \in Handlers
    BY RoleFacts
  <2> QED BY <1>5, <1>9, <1>10, <2>1 DEF Settlement
<1>11. ASSUME NEW b \in Bookings, Transition(b) PROVE AbstractStep
  <2>1. CASE CheckIn(b)
    <3>1. Staged' = [Staged EXCEPT ![b] = "held"]
      <4>1. Staged' = [Staged EXCEPT ![b] = Stage("checked_in")]
        BY <2>1, <1>t, StageStep DEF CheckIn
      <4> QED BY <4>1, StageFacts
    <3>2. UNCHANGED <<Captured, paid, refunded>>
      BY <2>1 DEF CheckIn, Captured, payment
    <3>3. CASE Blocking(status[b])
      <4>1. Staged[b] = "held"
        BY <1>t, <3>3, StageFacts DEF Staged, TypeOK
      <4>2. UNCHANGED <<Staged, revived>>
        BY <2>1, <3>1, <3>3, <4>1 DEF CheckIn, Staged
      <4> QED BY <3>2, <4>2 DEF AbstractStep
    <3>4. CASE ~Blocking(status[b])
      <4>1. Staged[b] = "over" /\ revived' = revived \cup {b}
        BY <1>t, <2>1, <3>4, StageFacts DEF CheckIn, Staged, TypeOK
      <4>2. Abstract!Revive(b)
        BY <3>1, <3>2, <4>1 DEF Abstract!Revive, Staged, Captured
      <4> QED BY <4>2 DEF AbstractStep, Abstract!Next
    <3> QED BY <3>3, <3>4
  <2>2. CASE CancelBooking(b) \/ UpdateBookingStatus(b) \/ Lapse(b) \/ ListExpired(b)
    BY <1>1, <2>2 DEF CancelBooking, UpdateBookingStatus, Ask, Lapse, ListExpired, payment, row
  <2>3. CASE \E r \in Roles : Read(b, r) \/ Die(b, r)
    BY <1>1, <2>3 DEF Read, Die, payment, row
  <2> QED BY <1>4, <1>6, <1>7, <1>11, <2>1, <2>2, <2>3 DEF Transition
<1>12. ASSUME NEW s \in Slots, LockExpires(s) PROVE AbstractStep
  BY <1>1, <1>12 DEF LockExpires, payment, row
<1> QED
  BY <1>8, <1>10, <1>11, <1>12 DEF Next

\* Whoever relies on SlotBooking may rely on the commands, the listeners and the
\* worker, whatever goes wrong.
THEOREM ImplementsSlotBooking == Spec => Refines
<1>1. Init => Abstract!Init
  BY StageFacts DEF Init, Pay!Init, Abstract!Init
<1>2. IInv /\ CauseInv /\ [Next]_vars => AbstractStep
  <2>1. UNCHANGED vars => AbstractStep
    BY DEF vars, AbstractStep, Staged, Captured
  <2> QED BY <2>1, ImplementsStep
<1>3. IInv /\ CauseInv /\ [Next]_vars
        => [Abstract!Next]_<<Staged, Captured, paid, refunded, revived>>
  BY <1>2 DEF AbstractStep
<1>4. Spec => Abstract!Init /\ [][Abstract!Next]_<<Staged, Captured, paid, refunded, revived>>
  BY <1>1, <1>3, InvHolds, CauseInvHolds, PTL DEF Spec
<1> QED
  BY <1>4, PTL DEF Refines, Abstract!Spec, Staged, Captured

-------------------------------------------------------------------------------
\* The payments of the bookings are payments: nothing the bookings do settles one
\* in another way than PaymentOutcome, which Payment implements.
THEOREM PaymentsAreOutcomes == Spec => Pay!Spec
<1> DEFINE PayNext == [Pay!Next]_<<pay, emitted>>
<1>1. Init => Pay!Init
  BY DEF Init
<1>2. [Next]_vars => PayNext
  <2> SUFFICES ASSUME [Next]_vars PROVE PayNext
    OBVIOUS
  <2>1. ASSUME UNCHANGED <<pay, emitted>> PROVE PayNext
    BY <2>1
  <2>2. ASSUME NEW b \in Bookings, AnnounceExpiry(b) \/ \E o \in Events : Settle(b, o) PROVE PayNext
    BY <2>2 DEF AnnounceExpiry, Settle, Pay!Next, Pay!Finals, Pay!Outcomes, Events
  <2> HIDE DEF PayNext
  <2>3. ASSUME NEW b \in Bookings, Create(b) PROVE PayNext
    BY <2>1, <2>3 DEF Create, Prepare, Abandon, ConfirmPrepare, Link, ConfirmIfPaid, CreateBookingV2,
       Charge, DieCreating, payment
  <2>4. ASSUME NEW b \in Bookings, Settlement(b) PROVE PayNext
    BY <2>1, <2>2, <2>4 DEF Settlement, Deliver, ReplayDispatch, ReplayRecorded, DieReplaying, payment
  <2>5. ASSUME NEW b \in Bookings, Transition(b) PROVE PayNext
    BY <2>1, <2>5 DEF Transition, MarkPaid, CancelBooking, UpdateBookingStatus, Ask, CheckIn, Lapse,
       ListExpired, Read, Write, Refund, Die, payment
  <2>6. ASSUME NEW s \in Slots, LockExpires(s) PROVE PayNext
    BY <2>1, <2>6 DEF LockExpires, payment
  <2>7. CASE UNCHANGED vars
    BY <2>1, <2>7 DEF vars
  <2> QED BY <2>3, <2>4, <2>5, <2>6, <2>7 DEF Next
<1> QED
  BY <1>1, <1>2, PTL DEF Spec, Pay!Spec
=============================================================================
