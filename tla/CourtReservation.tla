-------------------------- MODULE CourtReservation --------------------------
(***************************************************************************)
(* The courts of tournament matches (court-reservation.service.ts and      *)
(* match-schedule.service.ts) among the bookings of players: calls that    *)
(* schedule a match, release its court, or book a court.                   *)
(*                                                                         *)
(* A tournament call, and a player who pays while preparing a booking,     *)
(* holds Redis locks of its slots from before its transaction until after  *)
(* the commit.  The direct creation of a booking (createBookingV2) takes   *)
(* none, nor does it look at any.  Every transaction locks the row of the  *)
(* court, a tournament one the row of the match before; the one of         *)
(* rescheduleCourt reads the link of the match between the two locks, and  *)
(* a transaction sees the bookings as they were at its first read.         *)
(***************************************************************************)
EXTENDS Naturals

CONSTANTS
    Call,       \* calls of the services; a call creates one booking at most
    Match,      \* matches that have a place in a bracket
    Court,
    Kind,       \* Kind[c]: "schedule" (scheduleMatch), "release", or of a player
                \* "prepare" (two phases) or "create" (createBookingV2)
    For,        \* For[c]: the match of a call that schedules or releases
    Want,       \* Want[c]: court and time that a call asks for
    MatchSlot,  \* slot length of a tournament reservation (60 minutes)
    CourtSlot,  \* slot length of the court, the one players book by
    Hazards,    \* those of "lapse", "die", "cancel" that happen
    None

Schedules == {c \in Call : Kind[c] = "schedule"}
Releases  == {c \in Call : Kind[c] = "release"}
Prepares  == {c \in Call : Kind[c] = "prepare"}
Creates   == {c \in Call : Kind[c] = "create"}
Requests  == Schedules \cup Prepares \cup Creates

ASSUME CourtAssumption ==
    /\ Kind \in [Call -> {"schedule", "release", "prepare", "create"}]
    /\ For \in [Schedules \cup Releases -> Match]
    /\ Want \in [Requests -> [court : Court, from : Nat, to : Nat]]
    /\ \A c \in Requests : Want[c].from < Want[c].to
    /\ MatchSlot \in Nat \ {0} /\ CourtSlot \in Nat \ {0}
    /\ \A c \in Prepares : (Want[c].to - Want[c].from) % CourtSlot = 0
    /\ Hazards \subseteq {"lapse", "die", "cancel"}
    /\ None \notin Call \cup Court \cup {"active", "cancelled"}

VARIABLES
    pc,       \* pc[c]: where call c is
    existing, \* existing[c]: the reservation that scheduleMatch found
    still,    \* still[c]: rescheduleCourt found it still linked (stillLinked)
    snapshot, \* snapshot[c]: the bookings that the open transaction of c sees
    locks,    \* locks[c]: the Redis locks call c holds
    row,      \* row[c]: the booking made by call c
    link,     \* link[m]: matches.booking_id
    plan,     \* plan[m]: court and time shown in the bracket (tournament_matches)
    lapsed,   \* calls whose locks ran out before their commit
    raced,    \* matches with two scheduling calls at the same time
    disturbed,\* matches with calls at the same time or a cancelled booking
    unwritten \* matches with a call that died before it wrote the bracket

vars == <<pc, existing, still, snapshot, locks, row, link, plan, lapsed, raced, disturbed,
          unwritten>>

InFlight == {"read", "lock", "locked", "open", "show", "unshow"}
Ended    == {"done", "refused", "dead"}

Init ==
    /\ pc = [c \in Call |-> "idle"]
    /\ existing = [c \in Schedules |-> None]
    /\ still = [c \in Schedules |-> FALSE]
    /\ snapshot = [c \in Schedules |-> {}]
    /\ locks = [c \in Requests |-> {}]
    /\ row = [c \in Requests |-> None]
    /\ link = [m \in Match |-> None]
    /\ plan = [m \in Match |-> [court |-> None, from |-> None, to |-> None]]
    /\ lapsed = {} /\ raced = {} /\ disturbed = {} /\ unwritten = {}

Goto(c, label) == pc' = [pc EXCEPT ![c] = label]

Active == {d \in Requests : row[d] = "active"}

---------------------------------------------------------------------------
(* Slots                                                                   *)

Length(c) == IF Kind[c] = "schedule" THEN MatchSlot ELSE CourtSlot

\* slotGenerator.generate: the starts of the complete slots of a range.
Starts(c) ==
    {t \in Want[c].from .. Want[c].to :
        /\ (t - Want[c].from) % Length(c) = 0
        /\ t + Length(c) <= Want[c].to}

Keys(c) == {<<Want[c].court, t>> : t \in Starts(c)}

\* Faulty variant: slots are compared by their starts.
Available_SameStart(c, bookings) ==
    \A d \in bookings : Want[d].court = Want[c].court => Starts(d) \cap Starts(c) = {}

\* The parts that are tested: slots, or for createBookingV2 the range as one.
Parts(c) ==
    IF c \in Creates THEN {[from |-> Want[c].from, to |-> Want[c].to]}
    ELSE {[from |-> t, to |-> t + Length(c)] : t \in Starts(c)}

\* checkSlotAvailability, part by part, against the bookings it sees.
Available(c, bookings) ==
    \A d \in bookings :
        Want[d].court = Want[c].court =>
            \A p \in Parts(c) : ~(Want[d].from < p.to /\ Want[d].to > p.from)

---------------------------------------------------------------------------
(* Scheduling a match, and booking a court                                 *)

\* Ghosts: what a call of a match meets when it starts.
Meet(c) ==
    LET others == {d \in Schedules \cup Releases :
                      d # c /\ For[d] = For[c] /\ pc[d] \in InFlight}
    IN  /\ disturbed' = IF others = {} THEN disturbed ELSE disturbed \cup {For[c]}
        /\ raced' = IF c \in Schedules /\ others \cap Schedules # {}
                    THEN raced \cup {For[c]} ELSE raced

\* scheduleMatch reads the reservation of the match and asks for another one or
\* for the first.  It means to keep one of the same slot, but the date of a row
\* is a Date, whose string is never the date of the request.
Find(c) ==
    /\ c \in Schedules /\ pc[c] = "idle"
    /\ existing' = [existing EXCEPT ![c] = link[For[c]]]
    /\ Goto(c, IF link[For[c]] = None THEN "read" ELSE "lock")
    /\ Meet(c)
    /\ UNCHANGED <<still, snapshot, locks, row, link, plan, lapsed, unwritten>>

\* reserveCourt reads the link once more: a match that has one keeps it.
FindMatchBookingId(c) ==
    /\ pc[c] = "read"
    /\ Goto(c, IF link[For[c]] = None THEN "lock" ELSE "show")
    /\ UNCHANGED <<existing, still, snapshot, locks, row, link, plan, lapsed, raced, disturbed, unwritten>>

\* Faulty variant: the keys are the ends of the slots.
AcquireAll_Ends(c) ==
    /\ c \in Schedules \cup Prepares
    /\ pc[c] = IF c \in Prepares THEN "idle" ELSE "lock"
    /\ locks' = [locks EXCEPT ![c] = {<<k[1], k[2] + Length(c)>> : k \in Keys(c)}]
    /\ Goto(c, "locked")
    /\ UNCHANGED <<existing, still, snapshot, row, link, plan, lapsed, raced, disturbed, unwritten>>

\* Faulty variant: a refusal is lost on the way to scheduleMatch.
AcquireAll_Swallows(c) ==
    /\ c \in Schedules \cup Prepares
    /\ pc[c] = IF c \in Prepares THEN "idle" ELSE "lock"
    /\ IF Keys(c) # {} /\ \A d \in Requests : locks[d] \cap Keys(c) = {}
       THEN locks' = [locks EXCEPT ![c] = Keys(c)] /\ Goto(c, "locked")
       ELSE UNCHANGED locks /\ Goto(c, IF c \in Schedules THEN "show" ELSE "refused")
    /\ UNCHANGED <<existing, still, snapshot, row, link, plan, lapsed, raced, disturbed, unwritten>>

\* Faulty variant: a key that somebody holds is taken over.
AcquireAll_Steals(c) ==
    /\ c \in Schedules \cup Prepares
    /\ pc[c] = IF c \in Prepares THEN "idle" ELSE "lock"
    /\ locks' = [locks EXCEPT ![c] = Keys(c)]
    /\ Goto(c, "locked")
    /\ UNCHANGED <<existing, still, snapshot, row, link, plan, lapsed, raced, disturbed, unwritten>>

\* acquireAll, or acquireAllForPrepare: all locks, or the call is refused.
AcquireAll(c) ==
    /\ c \in Schedules \cup Prepares
    /\ pc[c] = IF c \in Prepares THEN "idle" ELSE "lock"
    /\ IF Keys(c) # {} /\ \A d \in Requests : locks[d] \cap Keys(c) = {}
       THEN locks' = [locks EXCEPT ![c] = Keys(c)] /\ Goto(c, "locked")
       ELSE UNCHANGED locks /\ Goto(c, "refused")
    /\ UNCHANGED <<existing, still, snapshot, row, link, plan, lapsed, raced, disturbed, unwritten>>

\* The row of a match is locked by the open transaction of a call.
Held(m) == \E c \in Schedules : For[c] = m /\ pc[c] = "open"

Unlock(c) == locks' = [locks EXCEPT ![c] = {}]

\* _createFromPrepare: check and insert in one transaction.  A first check, at
\* the time of prepareGatewayBooking, refuses as this one does.
CreateFromPrepare(c) ==
    /\ c \in Prepares /\ pc[c] = "locked"
    /\ IF Available(c, Active)
       THEN row' = [row EXCEPT ![c] = "active"] /\ Goto(c, "done")
       ELSE UNCHANGED row /\ Goto(c, "refused")
    /\ Unlock(c)
    /\ UNCHANGED <<existing, still, snapshot, link, plan, lapsed, raced, disturbed, unwritten>>

\* createBookingV2: check and insert in one transaction, whoever holds locks.
CreateV2(c) ==
    /\ c \in Creates /\ pc[c] = "idle"
    /\ IF Available(c, Active)
       THEN row' = [row EXCEPT ![c] = "active"] /\ Goto(c, "done")
       ELSE UNCHANGED row /\ Goto(c, "refused")
    /\ UNCHANGED <<existing, still, snapshot, locks, link, plan, lapsed, raced, disturbed, unwritten>>

\* reserveCourt, its transaction: the first read comes after both locks.
ReserveCourt(c) ==
    /\ c \in Schedules /\ pc[c] = "locked" /\ existing[c] = None /\ ~Held(For[c])
    /\ IF Available(c, Active)
       THEN /\ row' = [row EXCEPT ![c] = "active"]
            /\ link' = [link EXCEPT ![For[c]] = c]
            /\ Goto(c, "show")
       ELSE UNCHANGED <<row, link>> /\ Goto(c, "refused")
    /\ Unlock(c)
    /\ UNCHANGED <<existing, still, snapshot, plan, lapsed, raced, disturbed, unwritten>>

\* rescheduleCourt, up to the court's lock: the read of the link fixes what the
\* transaction sees of the bookings.
OpenReschedule(c) ==
    /\ c \in Schedules /\ pc[c] = "locked" /\ existing[c] # None /\ ~Held(For[c])
    /\ still' = [still EXCEPT ![c] = link[For[c]] = existing[c]]
    /\ snapshot' = [snapshot EXCEPT ![c] = Active]
    /\ Goto(c, "open")
    /\ UNCHANGED <<existing, locks, row, link, plan, lapsed, raced, disturbed, unwritten>>

\* The transaction of c ends, and with it what it has seen.
Close(c) ==
    /\ still' = [still EXCEPT ![c] = FALSE]
    /\ snapshot' = [snapshot EXCEPT ![c] = {}]

\* The rows after a swap: the old reservation goes if it was still the linked one.
Swapped(c) ==
    [d \in Requests |->
        IF d = c THEN "active"
        ELSE IF still[c] /\ d = existing[c] /\ row[d] = "active" THEN "cancelled"
        ELSE row[d]]

\* Faulty variant: the old reservation is left to others.
RescheduleCourt_KeepsOld(c) ==
    /\ c \in Schedules /\ pc[c] = "open"
    /\ IF Available(c, snapshot[c])
       THEN /\ row' = [row EXCEPT ![c] = "active"]
            /\ link' = [link EXCEPT ![For[c]] = c]
            /\ Goto(c, "show")
       ELSE UNCHANGED <<row, link>> /\ Goto(c, "refused")
    /\ Unlock(c) /\ Close(c)
    /\ UNCHANGED <<existing, plan, lapsed, raced, disturbed, unwritten>>

\* rescheduleCourt, the rest: the court's lock, the check, the swap, the commit.
RescheduleCourt(c) ==
    /\ c \in Schedules /\ pc[c] = "open"
    /\ IF Available(c, snapshot[c])
       THEN /\ row' = Swapped(c)
            /\ link' = [link EXCEPT ![For[c]] = c]
            /\ Goto(c, "show")
       ELSE UNCHANGED <<row, link>> /\ Goto(c, "refused")
    /\ Unlock(c) /\ Close(c)
    /\ UNCHANGED <<existing, plan, lapsed, raced, disturbed, unwritten>>

\* scheduleMatch writes court and time into the bracket.
Show(c) ==
    /\ c \in Schedules /\ pc[c] = "show"
    /\ plan' = [plan EXCEPT ![For[c]] = Want[c]]
    /\ unwritten' = unwritten \ {For[c]}
    /\ Goto(c, "done")
    /\ UNCHANGED <<existing, still, snapshot, locks, row, link, lapsed, raced, disturbed>>

---------------------------------------------------------------------------
(* Releasing the court of a match                                          *)

\* releaseCourt: the link is cleared if its booking could be released.
ReleaseCourt(c) ==
    /\ c \in Releases /\ pc[c] = "idle" /\ ~Held(For[c])
    /\ LET b == link[For[c]]
       IN  IF b # None /\ row[b] = "active"
           THEN /\ row' = [row EXCEPT ![b] = "cancelled"]
                /\ link' = [link EXCEPT ![For[c]] = None]
                /\ Goto(c, "unshow")
           ELSE UNCHANGED <<row, link>> /\ Goto(c, "done")
    /\ Meet(c)
    /\ UNCHANGED <<existing, still, snapshot, locks, plan, lapsed, unwritten>>

\* releaseMatchCourt takes the court out of the bracket, and keeps the time.
Unshow(c) ==
    /\ c \in Releases /\ pc[c] = "unshow"
    /\ plan' = [plan EXCEPT ![For[c]].court = None]
    /\ unwritten' = unwritten \ {For[c]}
    /\ Goto(c, "done")
    /\ UNCHANGED <<existing, still, snapshot, locks, row, link, lapsed, raced, disturbed>>

---------------------------------------------------------------------------
\* cancelBooking by the owner, for a tournament the one who created it: the
\* link of the match stays.
CancelBooking(d) ==
    /\ "cancel" \in Hazards /\ row[d] = "active"
    /\ row' = [row EXCEPT ![d] = "cancelled"]
    /\ disturbed' = IF d \in Schedules THEN disturbed \cup {For[d]} ELSE disturbed
    /\ UNCHANGED <<pc, existing, still, snapshot, locks, link, plan, lapsed, raced, unwritten>>

\* The locks of a call run out (LOCK_TTL_MS), of a dead one in any case.
Lapse(c) ==
    /\ locks[c] # {}
    /\ pc[c] = "dead" \/ "lapse" \in Hazards
    /\ locks' = [locks EXCEPT ![c] = {}]
    /\ lapsed' = IF pc[c] = "dead" THEN lapsed ELSE lapsed \cup {c}
    /\ UNCHANGED <<pc, existing, still, snapshot, row, link, plan, raced, disturbed, unwritten>>

\* A process dies: an open transaction rolls back, its locks stay for a while.
Die(c) ==
    /\ "die" \in Hazards /\ pc[c] \in {"locked", "open"}
    /\ Goto(c, "dead") /\ Close(c)
    /\ UNCHANGED <<existing, locks, row, link, plan, lapsed, raced, disturbed, unwritten>>

\* Or after its commit: what it booked or released stays, without its bracket.
\* Anywhere else a call that dies is one that does not go on.
DieCommitted(c) ==
    /\ c \in Schedules \cup Releases
    /\ "die" \in Hazards /\ pc[c] \in {"show", "unshow"}
    /\ unwritten' = unwritten \cup {For[c]}
    /\ Goto(c, "dead")
    /\ UNCHANGED <<existing, still, snapshot, locks, row, link, plan, lapsed, raced, disturbed>>

Next ==
    \/ \E c \in Call :
          \/ Find(c) \/ FindMatchBookingId(c) \/ AcquireAll(c) \/ CreateFromPrepare(c)
          \/ ReserveCourt(c) \/ OpenReschedule(c) \/ RescheduleCourt(c) \/ Show(c)
          \/ ReleaseCourt(c) \/ Unshow(c) \/ Die(c)
          \/ DieCommitted(c) \/ CreateV2(c)
    \/ \E d \in Requests : CancelBooking(d) \/ Lapse(d)

Spec == Init /\ [][Next]_vars

---------------------------------------------------------------------------
(* Properties                                                              *)

\* Calls, locks, bookings and links have their types.
TypeOK ==
    /\ pc \in [Call -> {"idle"} \cup InFlight \cup Ended]
    /\ existing \in [Schedules -> Schedules \cup {None}]
    /\ still \in [Schedules -> BOOLEAN]
    /\ snapshot \in [Schedules -> SUBSET Requests]
    /\ locks \in [Requests -> SUBSET (UNION {Keys(c) : c \in Requests})]
    /\ row \in [Requests -> {None, "active", "cancelled"}]
    /\ link \in [Match -> Schedules \cup {None}]
    /\ plan \in [Match -> [court : Court \cup {None}, from : Nat \cup {None}, to : Nat \cup {None}]]
    /\ lapsed \subseteq Requests
    /\ raced \subseteq Match /\ disturbed \subseteq Match /\ unwritten \subseteq Match

Shares(x, y) == Keys(x) \cap Keys(y) # {}

Overlaps(x, y) ==
    /\ Want[x].court = Want[y].court
    /\ Want[x].from < Want[y].to /\ Want[y].from < Want[x].to

\* The last slot of the range is not complete, so nobody tests or locks it.
Ragged(c) == c \notin Creates /\ (Want[c].to - Want[c].from) % Length(c) # 0

Swap(c) == c \in Schedules /\ existing[c] # None

\* Two bookings that start a slot at the same time are never both active, with
\* stale snapshots, swaps, deaths and cancellations, while locks outlast their
\* transactions: the Redis locks make up for the early read of rescheduleCourt,
\* but for a booking of createBookingV2, which takes none.
SharedSlotExcludes ==
    \A x, y \in Active :
        x # y /\ Shares(x, y) =>
            \/ lapsed \cap {x, y} # {}
            \/ \E c, d \in {x, y} : Swap(c) /\ d \in Creates

\* The same without the exception of createBookingV2.  Not so: a swap that has
\* read the bookings misses one that is created before it gets the court
\* (README, "Known to fail").
LocksExclude ==
    \A x, y \in Active : x # y /\ Shares(x, y) => lapsed \cap {x, y} # {}

\* Whatever happens to the Redis locks (and for slots on another grid, where
\* there are none in common), the check under the court's lock keeps bookings
\* apart, but for the stale check of a swap and the tail of a ragged range.
CheckExcludes ==
    \A x, y \in Active :
        x # y /\ Overlaps(x, y) =>
            \E c \in {x, y} : Ragged(c) \/ Swap(c)

\* court-reservation.service.ts:32-35: one authoritative reservation. A match
\* that was not scheduled by two calls at once blocks no court but its linked
\* one, with releases and cancellations at any time and calls that die.
OneReservation ==
    \A c \in Schedules \cap Active : For[c] \notin raced => link[For[c]] = c

\* The same without the exception. Not so: the loser of two calls leaves the
\* reservation of the winner active (README, "Known to fail").
OnlyOneReservation == \A c \in Schedules \cap Active : link[For[c]] = c

\* match-schedule.service.ts:392: the slot that a match has is kept when it is
\* asked for again.  Not so: the match is in its own way (README, "Known to
\* fail").
SameSlotIsKept ==
    \A c \in Schedules :
        pc[c] = "refused" /\ existing[c] # None => Want[existing[c]] # Want[c]

\* No court is booked twice. Not so (README, "Known to fail").
NoOverlap == \A x, y \in Active : x # y => ~Overlaps(x, y)

Quiet(m) == \A c \in Schedules \cup Releases : For[c] = m => pc[c] \notin InFlight

\* The bracket shows what is reserved: at rest, the court and time of a match
\* that was left in peace are those of its linked, active booking, or there is
\* neither court nor booking; refused and repeated calls included.  A call that
\* dies between its commit and the bracket breaks this until the next call that
\* writes the bracket.
ShownIsReserved ==
    \A m \in Match :
        Quiet(m) /\ m \notin disturbed \cup unwritten =>
            IF link[m] = None THEN plan[m].court = None
            ELSE plan[m] = Want[link[m]] /\ row[link[m]] = "active"
=============================================================================
