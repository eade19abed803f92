----------------------------- MODULE MCSlotOverlap -----------------------------
(* Small instances of SlotOverlap: a day of 12 units of two hours, slots of *)
(* two units, a court open from 4 to 2 on the next day.                     *)
EXTENDS SlotOverlap

CONSTANTS b1, b2, b3

Range(date, start, end) == [date |-> date, start |-> start, end |-> end]

\* The last slot of the evening.
MCLast == {Range(0, 10, 12)}

\* Ranges within a day, on and off the grid of slots, those that end at midnight in
\* either notation or after it, and those of the small hours; on two dates.
MCRanges ==
  {Range(0, 4, 8), Range(0, 7, 9), Range(0, 6, 10), Range(0, 8, 10),
   Range(0, 8, 12), Range(0, 10, 12), Range(0, 10, 0), Range(0, 10, 2), Range(0, 0, 2),
   Range(1, 0, 2), Range(1, 2, 4), Range(1, 4, 8), Range(1, 10, 12)}
=============================================================================
