---------------------------- MODULE SlotOverlapProofs ----------------------------
(***************************************************************************)
(* What the guard rejects and what it accepts, for every calendar, day     *)
(* length, slot length, opening hours and requested ranges.                *)
(***************************************************************************)
EXTENDS SlotOverlap, SlotArithmetic, TLAPS

Range(r) == r \in [date : Nat, start : 0..(DAY - 1), end : 0..DAY]

LEMMA Parameters == DAY \in Nat \ {0} /\ SLOT \in 1..DAY
  BY ParametersAssumption

-------------------------------------------------------------------------------
(* Arithmetic of dates.                                                    *)

\* A time less than two days from midnight, as a time of day.
LEMMA TimeOfDay ==
  ASSUME NEW d \in Nat \ {0}, NEW t \in Nat, t < 2 * d
  PROVE  t % d = IF t < d THEN t ELSE t - d
<1> DEFINE q == t \div d
           m == t % d
<1>1. t = d * q + m /\ m \in 0..(d - 1) /\ q \in Int
  BY Division, Z3
<1> HIDE DEF q, m
<1>2. CASE q < 0
  <2>1. d * q + d <= d * 0 BY <1>2, <1>1, NextMultiple, Z3
  <2> QED BY <1>1, <2>1, Z3
<1>3. CASE q = 0
  <2>1. d * q = 0 BY <1>1, <1>3, Z3
  <2> QED BY <1>1, <2>1, Z3 DEF m
<1>4. CASE q = 1
  <2>1. d * q = d BY <1>1, <1>4, Z3
  <2> QED BY <1>1, <2>1, Z3 DEF m
<1>5. CASE q > 1
  <2>1. d * 1 + d <= d * q BY <1>5, <1>1, NextMultiple, Z3
  <2> QED BY <1>1, <2>1, Z3
<1> QED BY <1>1, <1>2, <1>3, <1>4, <1>5, Z3

\* On one date two ranges overlap if their times do.
LEMMA SameDate ==
  ASSUME NEW r, NEW s, Range(r), Range(s), r.date = s.date
  PROVE  Overlap(r, s) <=> r.start < EndOf(s) /\ s.start < EndOf(r)
<1>1. r.date * DAY \in Int BY Parameters DEF Range
<1>2. EndOf(r) \in Int /\ EndOf(s) \in Int BY Parameters DEF EndOf, Range
<1> QED BY <1>1, <1>2 DEF Overlap, Range

\* Tomorrow's small hours overlap a range that goes on beyond them.
LEMMA NextDate ==
  ASSUME NEW r, NEW s, Range(r), Range(s), s.date = r.date + 1, Wraps(r), s.start < r.end
  PROVE  Overlap(r, s)
<1>1. s.date * DAY = r.date * DAY + DAY /\ r.date * DAY \in Int
  <2>1. \A k, d \in Int : (k + 1) * d = k * d + d /\ k * d \in Int BY Z3
  <2>2. r.date \in Int /\ DAY \in Int BY Parameters DEF Range
  <2> QED BY <2>1, <2>2
<1>2. EndOf(r) = r.end + DAY /\ EndOf(s) \in Nat
  BY Parameters DEF EndOf, Wraps, Range
<1> QED BY <1>1, <1>2, Parameters DEF Overlap, Range

\* The row of a request is a range.
LEMMA RowType ==
  ASSUME NEW q \in Requests
  PROVE  Range(q) /\ q # NoRow /\ Range(RowOf(q)) /\ RowOf(q) # NoRow
<1>1. Range(q) /\ q # NoRow BY ParametersAssumption DEF Range, NoRow
<1>2. Normal(q) \in [date : Nat, start : 0..(DAY - 1), end : 0..DAY]
  BY <1>1, Parameters DEF Normal, Range
<1>3. BookingDate(q) \in Nat BY <1>1 DEF BookingDate, Range
<1> QED BY <1>1, <1>2, <1>3 DEF RowOf, Range, NoRow

-------------------------------------------------------------------------------
(* What the queries see of a row on the date of a slot.                    *)

\* The times of a slot of a range that starts before midnight.
LEMMA SlotTimes ==
  ASSUME NEW r, Range(r), NEW x \in Starts(r), x < DAY, NEW y, y = x + SLOT,
         NEW slot, slot = [start |-> x % DAY, end |-> y % DAY]
  PROVE  /\ slot \in SplitTimeRange(r) /\ slot.start = x
         /\ slot.end = IF y < DAY THEN y ELSE y - DAY
         /\ x \in Nat /\ slot.end \in Nat
<1>1. x \in Nat /\ r.start \in Nat /\ EndOf(r) \in Nat
  BY Parameters DEF Starts, Range, EndOf
<1>2. x < 2 * DAY /\ y \in Nat /\ y < 2 * DAY
  BY <1>1, Parameters
<1>3. \A u \in Nat : u < 2 * DAY => u % DAY = IF u < DAY THEN u ELSE u - DAY
  BY Parameters, TimeOfDay
<1>4. x % DAY = x /\ y % DAY = IF y < DAY THEN y ELSE y - DAY
  <2>1. x % DAY = x BY <1>1, <1>2, <1>3, Zenon
  <2>2. y % DAY = IF y < DAY THEN y ELSE y - DAY BY <1>2, <1>3, Zenon
  <2> QED BY <2>1, <2>2
<1>5. slot.start = x /\ slot.end = IF y < DAY THEN y ELSE y - DAY
  BY <1>4, Zenon
<1>6. slot \in SplitTimeRange(r)
  BY Zenon DEF SplitTimeRange
<1>7. slot.end \in Nat
  BY <1>2, <1>5, Parameters
<1> QED BY <1>1, <1>5, <1>6, <1>7

\* A slot with an instant of an older row in it is hit, unless that row reaches
\* midnight and the slot does not.
LEMMA InstantIsHit ==
  ASSUME NEW s, Range(s), NEW slot, slot.start \in Nat, slot.end \in Nat, slot.start < DAY,
         slot.end > slot.start => s.start < slot.end /\ s.end > slot.start,
         slot.end <= slot.start => s.end > slot.start \/ Wraps(s)
  PROVE  Hit(s, s.date, slot)
  BY DEF Hit, BookingSql, OvernightSql, Wraps, Range

\* What a query hits on one date does share an instant with the slot.
LEMMA HitIsOverlap ==
  ASSUME NEW s, Range(s), NEW date \in Nat, NEW slot, slot.start \in 0..(DAY - 1), slot.end \in 0..DAY,
         Hit(s, date, slot)
  PROVE  \/ s.date = date /\ slot.start < EndOf(s)
              /\ s.start < (IF slot.end > slot.start THEN slot.end ELSE slot.end + DAY)
         \/ s.date = date + 1 /\ slot.end <= slot.start /\ s.start < slot.end
<1>1. CASE slot.end > slot.start
  BY <1>1, Parameters DEF Hit, BookingSql, EndOf, Wraps, Range
<1>2. CASE slot.end <= slot.start
  BY <1>2, Parameters DEF Hit, OvernightSql, EndOf, Wraps, Range
<1> QED BY <1>1, <1>2

-------------------------------------------------------------------------------
(* The two ways to test a range.                                           *)

\* The slots of the two-phase flow miss nothing else.
LEMMA SplitGuard ==
  ASSUME NEW r, NEW s, Range(r), Range(s), Covered(r), r.date = s.date, Overlap(s, r),
         ~(Wraps(s) /\ ~Wraps(r))
  PROVE  \E slot \in SplitTimeRange(r) : Hit(s, r.date, slot)
<1> DEFINE t == IF Wraps(s) THEN DAY - 1 ELSE IF r.start > s.start THEN r.start ELSE s.start
<1>1. r.start < EndOf(s) /\ s.start < EndOf(r)
  BY SameDate
<1>2. t \in r.start..(EndOf(r) - 1) /\ t < DAY /\ s.start <= t /\ (~Wraps(s) => t < s.end)
  BY <1>1, Parameters DEF EndOf, Wraps, Range
<1>3. r.start \in Int /\ EndOf(r) \in Int /\ (EndOf(r) - r.start) % SLOT = 0 /\ SLOT \in Nat \ {0}
  BY Parameters DEF EndOf, Covered, Range
<1> DEFINE past == Wraps(s) => t = DAY - 1
<1>4. past OBVIOUS
<1> HIDE DEF t
<1>5. PICK x \in r.start..(EndOf(r) - SLOT) : (x - r.start) % SLOT = 0 /\ x <= t /\ t < x + SLOT
  BY <1>2, <1>3, SlotOfInstant
<1>6. x \in Starts(r) /\ x < DAY
  <2>1. x < DAY BY <1>2, <1>3, <1>5, Parameters
  <2> QED BY <1>5, <2>1 DEF Starts
<1> DEFINE y    == x + SLOT
           slot == [start |-> x % DAY, end |-> y % DAY]
<1>a. y = x + SLOT
  OBVIOUS
<1>b. slot = [start |-> x % DAY, end |-> y % DAY]
  OBVIOUS
<1> HIDE DEF y, slot
<1>7. /\ slot \in SplitTimeRange(r) /\ slot.start = x
      /\ slot.end = IF y < DAY THEN y ELSE y - DAY
      /\ x \in Nat /\ slot.end \in Nat
  BY <1>6, <1>a, <1>b, SlotTimes
<1>8. slot.end > slot.start => s.start < slot.end /\ s.end > slot.start
  BY <1>2, <1>4, <1>5, <1>7, <1>a, Parameters DEF Range, Wraps
<1>9. slot.end <= slot.start => s.end > slot.start \/ Wraps(s)
  BY <1>2, <1>5, <1>7, <1>a, Parameters DEF Range, Wraps
<1>10. Hit(s, s.date, slot)
  BY <1>6, <1>7, <1>8, <1>9, InstantIsHit
<1> QED BY <1>7, <1>10

\* Nor does the whole range of createBookingV2.
LEMMA WholeGuard ==
  ASSUME NEW r, NEW s, Range(r), Range(s), r.date = s.date, Overlap(s, r),
         ~(Wraps(s) /\ ~Wraps(r))
  PROVE  Hit(s, r.date, r)
<1>1. r.start < EndOf(s) /\ s.start < EndOf(r)
  BY SameDate
<1>2. r.start \in Nat /\ r.end \in Nat /\ r.start < DAY
  BY Parameters DEF Range
<1>3. r.end > r.start => s.start < r.end /\ s.end > r.start
  BY <1>1 DEF EndOf, Wraps, Range
<1>4. r.end <= r.start => s.end > r.start \/ Wraps(s)
  BY <1>1 DEF EndOf, Wraps, Range
<1> QED BY <1>2, <1>3, <1>4, InstantIsHit

\* What the slots of a range that ends by midnight hit, overlaps the range.
LEMMA SplitIsExact ==
  ASSUME NEW r, NEW s, Range(r), Range(s), EndOf(r) <= DAY,
         NEW slot \in SplitTimeRange(r), Hit(s, r.date, slot)
  PROVE  Overlap(r, s)
<1>1. PICK x \in Starts(r) : slot = [start |-> x % DAY, end |-> (x + SLOT) % DAY]
  BY DEF SplitTimeRange
<1>2. x \in Nat /\ x >= r.start /\ x + SLOT <= EndOf(r) /\ x < DAY /\ r.date \in Nat
  <2>1. r.start \in Nat /\ EndOf(r) \in Nat /\ r.date \in Nat
    BY Parameters DEF Range, EndOf
  <2>2. x \in r.start..(EndOf(r) - SLOT)
    BY <1>1 DEF Starts
  <2> QED BY <2>1, <2>2, Parameters
<1>3. slot.start = x /\ slot.end = IF x + SLOT < DAY THEN x + SLOT ELSE 0
  <2> DEFINE y == x + SLOT
  <2>2. y = x + SLOT /\ slot = [start |-> x % DAY, end |-> y % DAY] BY <1>1
  <2> HIDE DEF y
  <2>1. slot.start = x /\ slot.end = IF y < DAY THEN y ELSE y - DAY
    BY <1>2, <2>2, SlotTimes
  <2>3. y = x + SLOT BY <2>2
  <2> QED BY <1>2, <2>1, <2>3, Parameters DEF EndOf, Range
<1>4. slot.start \in 0..(DAY - 1) /\ slot.end \in 0..DAY
  BY <1>2, <1>3, Parameters
<1>5. \/ s.date = r.date /\ slot.start < EndOf(s)
           /\ s.start < (IF slot.end > slot.start THEN slot.end ELSE slot.end + DAY)
      \/ s.date = r.date + 1 /\ slot.end <= slot.start /\ s.start < slot.end
  BY <1>2, <1>4, HitIsOverlap
<1>6. s.date = r.date /\ r.start < EndOf(s) /\ s.start < EndOf(r)
  BY <1>2, <1>3, <1>5, Parameters DEF EndOf, Range
<1> QED BY <1>6, SameDate

\* And what a whole range hits, overlaps it.
LEMMA WholeIsExact ==
  ASSUME NEW r, NEW s, Range(r), Range(s), Hit(s, r.date, r)
  PROVE  Overlap(r, s)
<1>1. r.date \in Nat /\ r.start \in 0..(DAY - 1) /\ r.end \in 0..DAY
  BY DEF Range
<1>2. \/ s.date = r.date /\ r.start < EndOf(s)
           /\ s.start < (IF r.end > r.start THEN r.end ELSE r.end + DAY)
      \/ s.date = r.date + 1 /\ r.end <= r.start /\ s.start < r.end
  BY <1>1, HitIsOverlap
<1>3. CASE s.date = r.date
  BY <1>1, <1>2, <1>3, SameDate DEF EndOf, Wraps
<1>4. CASE s.date # r.date
  BY <1>2, <1>4, NextDate DEF Wraps
<1> QED BY <1>3, <1>4

-------------------------------------------------------------------------------
\* The calendar keeps its type, whatever is requested and however it is created.
THEOREM TypeCorrect == Spec => []TypeOK
<1>1. Init => TypeOK BY DEF Init, TypeOK
<1>2. TypeOK /\ [Next]_calendar => TypeOK'
  BY RowType DEF TypeOK, Next, CreateFromPrepare, CreateV2, Release, Range
<1> QED BY <1>1, <1>2, PTL DEF Spec

\* On one date the guard misses only rows that reach midnight, from a range that
\* does not.
THEOREM OnlyLateRowsAreMissedHolds == Spec => OnlyLateRowsAreMissed
<1> DEFINE A == \A a, b \in Bookings :
                  /\ a # b /\ calendar[a] # NoRow
                  /\ calendar[b] = NoRow /\ calendar'[b] # NoRow
                  /\ calendar[a].date = calendar'[b].date /\ Overlap(calendar[a], calendar'[b])
                  => Wraps(calendar[a]) /\ ~Wraps(calendar'[b])
<1>1. TypeOK /\ Next => A
  <2> SUFFICES ASSUME TypeOK, Next, NEW a \in Bookings, NEW b \in Bookings,
                      a # b, calendar[a] # NoRow, calendar[b] = NoRow, calendar'[b] # NoRow,
                      calendar[a].date = calendar'[b].date, Overlap(calendar[a], calendar'[b])
               PROVE  Wraps(calendar[a]) /\ ~Wraps(calendar'[b])
    OBVIOUS
  <2>1. Range(calendar[a])
    BY DEF TypeOK, Range
  <2>2. PICK q \in Requests : CreateFromPrepare(b, q) \/ CreateV2(b, q)
    BY DEF Next, CreateFromPrepare, CreateV2, Release, TypeOK
  <2>3. CASE CreateFromPrepare(b, q)
    <3>1. /\ calendar'[b] = RowOf(q) /\ Covered(RowOf(q))
          /\ \A slot \in SplitTimeRange(RowOf(q)) : ~Hit(calendar[a], RowOf(q).date, slot)
      BY <2>3 DEF CreateFromPrepare, CheckSlotAvailability, TypeOK
    <3> QED BY <2>1, <3>1, RowType, SplitGuard
  <2>4. CASE CreateV2(b, q)
    <3>1. calendar'[b] = q /\ ~Hit(calendar[a], q.date, q)
      BY <2>4 DEF CreateV2, CheckSlotAvailability, TypeOK
    <3> QED BY <2>1, <3>1, RowType, WholeGuard
  <2> QED BY <2>2, <2>3, <2>4
<1> HIDE DEF A
<1>2. TypeOK /\ [Next]_calendar => [A]_calendar
  BY <1>1
<1>3. Spec => [][A]_calendar
  BY <1>2, TypeCorrect, PTL DEF Spec
<1> QED BY <1>3 DEF A, OnlyLateRowsAreMissed

\* The guard refuses nothing that is free, for any range through createBookingV2
\* and for every covered one that ends by midnight through the two-phase flow.
THEOREM FreeIsOfferedHolds == Spec => []FreeIsOffered
<1>1. TypeOK => FreeIsOffered
  <2> SUFFICES ASSUME TypeOK, NEW q \in Requests PROVE
        LET Apart(r) == \A b \in Bookings : calendar[b] # NoRow => ~Overlap(r, calendar[b]) IN
        /\ Covered(RowOf(q)) /\ EndOf(RowOf(q)) <= DAY /\ Apart(RowOf(q))
             => CheckSlotAvailability(RowOf(q).date, SplitTimeRange(RowOf(q)))
        /\ Apart(q) => CheckSlotAvailability(q.date, {q})
    BY DEF FreeIsOffered
  <2>1. \A b \in Bookings : calendar[b] # NoRow => Range(calendar[b])
    BY DEF TypeOK, Range
  <2>2. ASSUME EndOf(RowOf(q)) <= DAY,
               \A b \in Bookings : calendar[b] # NoRow => ~Overlap(RowOf(q), calendar[b])
        PROVE  CheckSlotAvailability(RowOf(q).date, SplitTimeRange(RowOf(q)))
    BY <2>1, <2>2, RowType, SplitIsExact DEF CheckSlotAvailability
  <2>3. ASSUME \A b \in Bookings : calendar[b] # NoRow => ~Overlap(q, calendar[b])
        PROVE  CheckSlotAvailability(q.date, {q})
    BY <2>1, <2>3, RowType, WholeIsExact DEF CheckSlotAvailability
  <2> QED BY <2>2, <2>3
<1> QED BY <1>1, TypeCorrect, PTL
=============================================================================
