------------------------------- MODULE SlotOverlap -------------------------------
(***************************************************************************)
(* The database-level guard of booking creation: which rows of one court's *)
(* calendar checkSlotAvailability of booking.repository.ts lets stand side *)
(* by side. The two-phase card flow splits the requested range into slots  *)
(* and tests each of them; createBookingV2 tests the range as it was asked *)
(* for, as one slot. The resource row is locked FOR UPDATE, so test and    *)
(* insert are one step. A row keeps a date and two local times of day;     *)
(* daylight saving is left out.                                            *)
(***************************************************************************)
EXTENDS Integers

CONSTANTS
  Bookings,         \* ids of the rows of bookings, for one resource
  Requests,         \* requested ranges [date, start, end], end = DAY for "24:00"
  Opening, Closing, \* opening_time and closing_time of the resource
  DAY,              \* length of a day, in the unit of all times
  SLOT              \* slot_duration

NoRow == [date |-> -1, start |-> 0, end |-> 0]

ASSUME ParametersAssumption ==
  /\ DAY \in Nat \ {0} /\ SLOT \in 1..DAY
  /\ Opening \in 0..DAY /\ Closing \in 0..DAY
  /\ \A q \in Requests : q \in [date : Nat, start : 0..(DAY - 1), end : 0..DAY]

VARIABLE calendar   \* calendar[b]: the row of b while its status blocks, or NoRow

\* An end not after the start is tomorrow's.
Wraps(r) == r.end <= r.start

EndOf(r) == IF Wraps(r) THEN r.end + DAY ELSE r.end

\* Faulty variant: the end is stored as splitTimeRange counts it.
Normal_Unwraps(q) == [q EXCEPT !.end = IF @ <= q.start THEN @ + DAY ELSE @]

\* The two-phase flow stores "24:00" as "00:00".
Normal(q) == [q EXCEPT !.end = IF @ = DAY THEN 0 ELSE @]

\* And at a court that closes after midnight an early start on the next date.
BookingDate(q) ==
  IF Closing < Opening /\ q.start < Opening THEN q.date + 1 ELSE q.date

\* The row of the two-phase flow; the one of createBookingV2 is the range asked for.
RowOf(q) == [Normal(q) EXCEPT !.date = BookingDate(q)]

\* Starts, counted from the midnight before r, of the slots that fit into r.
Starts(r) == {t \in r.start..(EndOf(r) - SLOT) : (t - r.start) % SLOT = 0}

\* splitTimeRange: every slot is put on the date of the range.
SplitTimeRange(r) ==
  {[start |-> t % DAY, end |-> (t + SLOT) % DAY] : t \in Starts(r)}

\* The slots cover the range exactly, or the request is refused.
Covered(r) == (EndOf(r) - r.start) % SLOT = 0

BookingSql(row, date, s) ==
  row.date = date /\ row.start < s.end /\ row.end > s.start

OvernightSql_SkipsWrapped(row, date, s) ==
  \/ row.date = date /\ row.end > s.start
  \/ row.date = date + 1 /\ row.start < s.end /\ row.end > 0

OvernightSql(row, date, s) ==
  \/ row.date = date /\ (row.end > s.start \/ row.end <= row.start)
  \/ row.date = date + 1 /\ row.start < s.end /\ row.end > 0

Hit_TouchingCounts(row, date, s) ==
  IF s.end > s.start
  THEN row.date = date /\ row.start <= s.end /\ row.end > s.start
  ELSE OvernightSql(row, date, s)

Hit(row, date, s) ==
  IF s.end > s.start THEN BookingSql(row, date, s) ELSE OvernightSql(row, date, s)

CheckSlotAvailability(date, slots) ==
  \A s \in slots : \A b \in Bookings : calendar[b] # NoRow => ~Hit(calendar[b], date, s)

Init == calendar = [b \in Bookings |-> NoRow]

\* _createFromPrepare, after prepareGatewayBooking has made the same test.
CreateFromPrepare(b, q) ==
  LET row == RowOf(q) IN
  /\ calendar[b] = NoRow /\ Covered(row)
  /\ CheckSlotAvailability(row.date, SplitTimeRange(row))
  /\ calendar' = [calendar EXCEPT ![b] = row]

\* Faulty variant: the old row is compared by its start alone.
CreateV2_IdenticalStart(b, q) ==
  /\ calendar[b] = NoRow
  /\ \A c \in Bookings : calendar[c].date = q.date => calendar[c].start # q.start
  /\ calendar' = [calendar EXCEPT ![b] = q]

\* createBookingV2: any range, tested and stored as it is.
CreateV2(b, q) ==
  /\ calendar[b] = NoRow
  /\ CheckSlotAvailability(q.date, {q})
  /\ calendar' = [calendar EXCEPT ![b] = q]

\* The booking is cancelled, expires or is a no-show: its row stops blocking.
Release(b) == calendar[b] # NoRow /\ calendar' = [calendar EXCEPT ![b] = NoRow]

Next ==
  \E b \in Bookings :
    Release(b) \/ \E q \in Requests : CreateFromPrepare(b, q) \/ CreateV2(b, q)

Spec == Init /\ [][Next]_calendar
-------------------------------------------------------------------------------
\* Type invariant of the calendar: times are times of day, or "24:00".
TypeOK ==
  calendar \in [Bookings -> [date : Nat, start : 0..(DAY - 1), end : 0..DAY] \cup {NoRow}]

\* Two ranges share an instant of real time.
Overlap(r, s) ==
  /\ r.date * DAY + r.start < s.date * DAY + EndOf(s)
  /\ s.date * DAY + s.start < r.date * DAY + EndOf(r)

\* create-booking.command.ts: overlaps are rejected before any row is persisted.
\* Not so: a row that ends at or after midnight is not seen from a range that ends
\* before it, or at "24:00".
NoOverlap ==
  \A a, b \in Bookings :
    a # b /\ calendar[a] # NoRow /\ calendar[b] # NoRow => ~Overlap(calendar[a], calendar[b])

\* What the guard does reject: on one date a new row overlaps an older one only if
\* the older one reaches midnight by its times and the new one does not, in
\* whichever way either was created.
OnlyLateRowsAreMissed ==
  [][\A a, b \in Bookings :
       /\ a # b /\ calendar[a] # NoRow
       /\ calendar[b] = NoRow /\ calendar'[b] # NoRow
       /\ calendar[a].date = calendar'[b].date /\ Overlap(calendar[a], calendar'[b])
       => Wraps(calendar[a]) /\ ~Wraps(calendar'[b])]_calendar

\* A refusal is justified: a range that overlaps no row is accepted, by the
\* two-phase flow if it is covered and ends by midnight.
FreeIsOffered ==
  \A q \in Requests :
    LET Apart(r) == \A b \in Bookings : calendar[b] # NoRow => ~Overlap(r, calendar[b]) IN
    /\ Covered(RowOf(q)) /\ EndOf(RowOf(q)) <= DAY /\ Apart(RowOf(q))
         => CheckSlotAvailability(RowOf(q).date, SplitTimeRange(RowOf(q)))
    /\ Apart(q) => CheckSlotAvailability(q.date, {q})
=============================================================================
