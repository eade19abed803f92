------------------------- MODULE MCCourtReservation -------------------------
(* A small instance of CourtReservation: one court, slots of two units.    *)
EXTENDS CourtReservation

CONSTANTS m1, first, moved, release, prepare, direct, k1

At(from, to) == [court |-> k1, from |-> from, to |-> to]

\* A match is put at 0 and moved to 3 with an odd length, or the other way
\* round; one player prepares two slots that meet both, off the grid, another
\* one creates a booking of a range that starts with the moved match.
MCWant ==
    [c \in Call \ {release} |->
       CASE c = first   -> At(0, 2)
         [] c = moved   -> At(3, 6)
         [] c = prepare -> At(1, 5)
         [] c = direct  -> At(3, 5)]

MCKind ==
    [c \in Call |-> CASE c = release -> "release"
                      [] c = prepare -> "prepare"
                      [] c = direct  -> "create"
                      [] OTHER       -> "schedule"]

MCFor == [c \in {first, moved, release} |-> m1]
=============================================================================
