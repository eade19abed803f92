----------------------- MODULE CourtReservationProofs -----------------------
(***************************************************************************)
(* What keeps the courts of matches apart, for any number of calls,        *)
(* matches and courts and any lengths of slots: the Redis locks for slots  *)
(* that start together, the check under the court's lock for the others,   *)
(* and one scheduling call at a time for the link of a match.              *)
(***************************************************************************)
EXTENDS CourtReservation, SlotArithmetic, TLAPS

AllKeys == UNION {Keys(c) : c \in Requests}
Plans == [court : Court \cup {None}, from : Nat \cup {None}, to : Nat \cup {None}]

THEOREM TypeCorrect == Spec => []TypeOK
<1>1. Init => TypeOK
  BY CourtAssumption DEF Init, TypeOK
<1>2. TypeOK /\ [Next]_vars => TypeOK'
  <2> SUFFICES ASSUME TypeOK, [Next]_vars PROVE TypeOK'
    OBVIOUS
  <2>k. \A c \in Requests : Keys(c) \in SUBSET AllKeys
    BY DEF AllKeys
  <2>l. /\ locks \in [Requests -> SUBSET AllKeys]
        /\ (locks' \in [Requests -> SUBSET AllKeys] =>
               locks' \in [Requests -> SUBSET (UNION {Keys(c) : c \in Requests})])
    BY DEF TypeOK, AllKeys
  <2>w. \A c \in Schedules : Want[c] \in Plans
    BY CourtAssumption DEF Plans, Requests
  <2>p. /\ plan \in [Match -> Plans]
        /\ (plan' \in [Match -> Plans] =>
               plan' \in [Match -> [court : Court \cup {None}, from : Nat \cup {None},
                                   to : Nat \cup {None}]])
    BY DEF TypeOK, Plans
  <2>f. \A c \in Schedules \cup Releases : For[c] \in Match
    BY CourtAssumption
  <2>s. /\ Schedules \subseteq Call /\ Releases \subseteq Call /\ Requests \subseteq Call
        /\ Schedules \subseteq Requests /\ Prepares \subseteq Requests /\ Creates \subseteq Requests
    BY DEF Schedules, Releases, Requests, Prepares, Creates
  <2>m. ASSUME NEW c \in Schedules \cup Releases, Meet(c)
        PROVE  raced' \subseteq Match /\ disturbed' \subseteq Match
    BY <2>m, <2>f DEF Meet, TypeOK
  <2>1. ASSUME NEW c \in Call, Find(c) PROVE TypeOK'
    BY <2>1, <2>s, <2>f, <2>m DEF Find, Goto, TypeOK, InFlight, Ended
  <2>2. ASSUME NEW c \in Call, FindMatchBookingId(c) PROVE TypeOK'
    BY <2>2 DEF FindMatchBookingId, Goto, TypeOK, InFlight, Ended
  <2>3. ASSUME NEW c \in Call, AcquireAll(c) PROVE TypeOK'
    <3>1. locks' \in [Requests -> SUBSET AllKeys]
      BY <2>3, <2>k, <2>l DEF AcquireAll
    <3>2. pc' \in [Call -> {"idle"} \cup InFlight \cup Ended]
      BY <2>3 DEF AcquireAll, Goto, TypeOK, InFlight, Ended
    <3> QED
      BY <2>3, <3>1, <3>2, <2>l DEF AcquireAll, TypeOK
  <2>4. ASSUME NEW c \in Call, CreateFromPrepare(c) PROVE TypeOK'
    <3>1. locks' \in [Requests -> SUBSET AllKeys]
      BY <2>4, <2>l DEF CreateFromPrepare, Unlock
    <3>2. /\ pc' \in [Call -> {"idle"} \cup InFlight \cup Ended]
          /\ row' \in [Requests -> {None, "active", "cancelled"}]
      BY <2>4 DEF CreateFromPrepare, Goto, TypeOK, InFlight, Ended
    <3> QED
      BY <2>4, <3>1, <3>2, <2>l DEF CreateFromPrepare, TypeOK
  <2>v. ASSUME NEW c \in Call, CreateV2(c) PROVE TypeOK'
    BY <2>v DEF CreateV2, Goto, TypeOK, InFlight, Ended
  <2>5. ASSUME NEW c \in Call, ReserveCourt(c) PROVE TypeOK'
    <3>1. locks' \in [Requests -> SUBSET AllKeys]
      BY <2>5, <2>l DEF ReserveCourt, Unlock
    <3>2. /\ pc' \in [Call -> {"idle"} \cup InFlight \cup Ended]
          /\ row' \in [Requests -> {None, "active", "cancelled"}]
          /\ link' \in [Match -> Schedules \cup {None}]
      BY <2>5, <2>f DEF ReserveCourt, Goto, TypeOK, InFlight, Ended
    <3> QED
      BY <2>5, <3>1, <3>2, <2>l DEF ReserveCourt, TypeOK
  <2>6. ASSUME NEW c \in Call, OpenReschedule(c) PROVE TypeOK'
    <3>1. Active \subseteq Requests
      BY DEF Active
    <3> QED
      BY <2>6, <3>1 DEF OpenReschedule, Goto, TypeOK, InFlight, Ended
  <2>7. ASSUME NEW c \in Call, RescheduleCourt(c) PROVE TypeOK'
    <3>1. locks' \in [Requests -> SUBSET AllKeys]
      BY <2>7, <2>l DEF RescheduleCourt, Unlock
    <3>2. Swapped(c) \in [Requests -> {None, "active", "cancelled"}]
      BY DEF Swapped, TypeOK
    <3>3. /\ pc' \in [Call -> {"idle"} \cup InFlight \cup Ended]
          /\ row' \in [Requests -> {None, "active", "cancelled"}]
          /\ link' \in [Match -> Schedules \cup {None}]
      BY <2>7, <3>2, <2>f DEF RescheduleCourt, Goto, TypeOK, InFlight, Ended
    <3>4. still' \in [Schedules -> BOOLEAN] /\ snapshot' \in [Schedules -> SUBSET Requests]
      BY <2>7 DEF RescheduleCourt, Close, TypeOK
    <3> QED
      BY <2>7, <3>1, <3>3, <3>4, <2>l DEF RescheduleCourt, TypeOK
  <2>8. ASSUME NEW c \in Call, Show(c) PROVE TypeOK'
    <3>1. plan' \in [Match -> Plans]
      BY <2>8, <2>p, <2>w, <2>f DEF Show
    <3>2. pc' \in [Call -> {"idle"} \cup InFlight \cup Ended]
      BY <2>8 DEF Show, Goto, TypeOK, InFlight, Ended
    <3> QED
      BY <2>8, <3>1, <3>2, <2>p DEF Show, TypeOK
  <2>9. ASSUME NEW c \in Call, ReleaseCourt(c) PROVE TypeOK'
    <3>1. /\ pc' \in [Call -> {"idle"} \cup InFlight \cup Ended]
          /\ row' \in [Requests -> {None, "active", "cancelled"}]
          /\ link' \in [Match -> Schedules \cup {None}]
      BY <2>9, <2>f, <2>s DEF ReleaseCourt, Goto, TypeOK, InFlight, Ended
    <3> QED
      BY <2>9, <3>1, <2>m DEF ReleaseCourt, TypeOK
  <2>10. ASSUME NEW c \in Call, Unshow(c) PROVE TypeOK'
    <3>1. plan' \in [Match -> Plans]
      BY <2>10, <2>p, <2>f DEF Unshow, Plans
    <3>2. pc' \in [Call -> {"idle"} \cup InFlight \cup Ended]
      BY <2>10 DEF Unshow, Goto, TypeOK, InFlight, Ended
    <3> QED
      BY <2>10, <3>1, <3>2, <2>p DEF Unshow, TypeOK
  <2>11. ASSUME NEW c \in Call, Die(c) PROVE TypeOK'
    BY <2>11 DEF Die, Goto, Close, TypeOK, InFlight, Ended
  <2>u. ASSUME NEW c \in Call, DieCommitted(c) PROVE TypeOK'
    BY <2>u, <2>f DEF DieCommitted, Goto, TypeOK, InFlight, Ended
  <2>12. ASSUME NEW d \in Requests, CancelBooking(d) PROVE TypeOK'
    BY <2>12, <2>f DEF CancelBooking, TypeOK
  <2>13. ASSUME NEW d \in Requests, Lapse(d) PROVE TypeOK'
    <3>1. locks' \in [Requests -> SUBSET AllKeys]
      BY <2>13, <2>l DEF Lapse
    <3> QED
      BY <2>13, <3>1, <2>l DEF Lapse, TypeOK
  <2>14. CASE UNCHANGED vars
    BY <2>14 DEF vars, TypeOK
  <2> QED
    BY <2>1, <2>2, <2>3, <2>4, <2>v, <2>5, <2>6, <2>7, <2>8, <2>9, <2>10, <2>11, <2>u, <2>12,
       <2>13, <2>14 DEF Next
<1> QED
  BY <1>1, <1>2, PTL DEF Spec

---------------------------------------------------------------------------
(* Where calls of each kind can be, and what they have done by then.       *)

PcInv ==
    /\ \A c \in Releases : pc[c] \in {"idle", "unshow", "done", "dead"}
    /\ \A c \in Prepares \cup Creates :
          pc[c] \in {"idle", "locked", "done", "refused", "dead"}
    /\ \A c \in Schedules : pc[c] # "unshow"
    /\ \A c \in Schedules : pc[c] = "open" => existing[c] # None
    /\ \A c \in Schedules : pc[c] = "read" => existing[c] = None

RowInv ==
    /\ \A c \in Requests :
          pc[c] \in {"idle", "read", "lock", "locked", "open"} => row[c] = None
    /\ \A m \in Match : link[m] # None => For[link[m]] = m
    /\ \A c \in Schedules : existing[c] # None => For[existing[c]] = For[c]

LEMMA Kinds ==
    /\ Schedules \subseteq Call /\ Releases \subseteq Call
    /\ Prepares \subseteq Call /\ Creates \subseteq Call
    /\ Requests = Schedules \cup Prepares \cup Creates
    /\ Schedules \cap Releases = {} /\ Prepares \cap Creates = {}
    /\ (Schedules \cup Releases) \cap (Prepares \cup Creates) = {}
    /\ \A c \in Schedules \cup Releases : For[c] \in Match
    /\ None \notin Call \cup {"active", "cancelled"}
  BY CourtAssumption DEF Schedules, Releases, Prepares, Creates, Requests

LEMMA PcInvKept ==
    ASSUME TypeOK, PcInv, [Next]_vars
    PROVE  PcInv'
<1> USE Kinds DEF TypeOK, PcInv, Goto
<1>1. ASSUME NEW c \in Call, Find(c) PROVE PcInv'
  BY <1>1 DEF Find
<1>2. ASSUME NEW c \in Call, FindMatchBookingId(c) PROVE PcInv'
  BY <1>2 DEF FindMatchBookingId
<1>3. ASSUME NEW c \in Call, AcquireAll(c) PROVE PcInv'
  BY <1>3 DEF AcquireAll
<1>4. ASSUME NEW c \in Call, CreateFromPrepare(c) PROVE PcInv'
  BY <1>4 DEF CreateFromPrepare
<1>v. ASSUME NEW c \in Call, CreateV2(c) PROVE PcInv'
  BY <1>v DEF CreateV2
<1>5. ASSUME NEW c \in Call, ReserveCourt(c) PROVE PcInv'
  BY <1>5 DEF ReserveCourt
<1>6. ASSUME NEW c \in Call, OpenReschedule(c) PROVE PcInv'
  BY <1>6 DEF OpenReschedule
<1>7. ASSUME NEW c \in Call, RescheduleCourt(c) PROVE PcInv'
  BY <1>7 DEF RescheduleCourt
<1>8. ASSUME NEW c \in Call, Show(c) PROVE PcInv'
  BY <1>8 DEF Show
<1>9. ASSUME NEW c \in Call, ReleaseCourt(c) PROVE PcInv'
  BY <1>9 DEF ReleaseCourt
<1>10. ASSUME NEW c \in Call, Unshow(c) PROVE PcInv'
  BY <1>10 DEF Unshow
<1>11. ASSUME NEW c \in Call, Die(c) PROVE PcInv'
  BY <1>11 DEF Die
<1>u. ASSUME NEW c \in Call, DieCommitted(c) PROVE PcInv'
  BY <1>u DEF DieCommitted
<1>12. ASSUME NEW d \in Requests, CancelBooking(d) PROVE PcInv'
  BY <1>12 DEF CancelBooking
<1>13. ASSUME NEW d \in Requests, Lapse(d) PROVE PcInv'
  BY <1>13 DEF Lapse
<1>14. CASE UNCHANGED vars
  BY <1>14 DEF vars
<1> QED
  BY <1>1, <1>2, <1>3, <1>4, <1>v, <1>5, <1>6, <1>7, <1>8, <1>9, <1>10, <1>11, <1>u, <1>12,
     <1>13, <1>14 DEF Next

LEMMA RowInvKept ==
    ASSUME TypeOK, PcInv, RowInv, [Next]_vars
    PROVE  RowInv'
<1> USE Kinds DEF TypeOK, RowInv, Goto
<1>1. ASSUME NEW c \in Call, Find(c) PROVE RowInv'
  BY <1>1 DEF Find
<1>2. ASSUME NEW c \in Call, FindMatchBookingId(c) PROVE RowInv'
  BY <1>2 DEF FindMatchBookingId
<1>3. ASSUME NEW c \in Call, AcquireAll(c) PROVE RowInv'
  BY <1>3 DEF AcquireAll
<1>4. ASSUME NEW c \in Call, CreateFromPrepare(c) PROVE RowInv'
  BY <1>4 DEF CreateFromPrepare
<1>v. ASSUME NEW c \in Call, CreateV2(c) PROVE RowInv'
  BY <1>v DEF CreateV2
<1>5. ASSUME NEW c \in Call, ReserveCourt(c) PROVE RowInv'
  <2>1. /\ c \in Schedules /\ pc'[c] \in {"show", "refused"} /\ UNCHANGED existing
        /\ \A d \in Call : d # c => pc'[d] = pc[d]
        /\ row' = row \/ row' = [row EXCEPT ![c] = "active"]
        /\ link' = link \/ link' = [link EXCEPT ![For[c]] = c]
    BY <1>5 DEF ReserveCourt
  <2> QED
    BY <2>1
<1>6. ASSUME NEW c \in Call, OpenReschedule(c) PROVE RowInv'
  BY <1>6 DEF OpenReschedule
<1>7. ASSUME NEW c \in Call, RescheduleCourt(c) PROVE RowInv'
  <2>1. \A d \in Requests : row[d] = None => d = c \/ Swapped(c)[d] = None
    BY DEF Swapped
  <2>2. \A d \in Requests : pc'[d] = pc[d] \/ d = c
    BY <1>7 DEF RescheduleCourt
  <2>3. \A d \in Requests : row'[d] = Swapped(c)[d] \/ row'[d] = row[d]
    BY <1>7 DEF RescheduleCourt
  <2>4. /\ c \in Schedules /\ pc'[c] \in {"show", "refused"} /\ UNCHANGED existing
        /\ link' = link \/ link' = [link EXCEPT ![For[c]] = c]
    BY <1>7 DEF RescheduleCourt
  <2>5. \A d \in Requests :
           pc'[d] \in {"idle", "read", "lock", "locked", "open"} => row'[d] = None
    BY <2>1, <2>2, <2>3, <2>4
  <2>6. \A m \in Match : link'[m] # None => For[link'[m]] = m
    BY <2>4
  <2> QED
    BY <2>4, <2>5, <2>6
<1>8. ASSUME NEW c \in Call, Show(c) PROVE RowInv'
  BY <1>8 DEF Show
<1>9. ASSUME NEW c \in Call, ReleaseCourt(c) PROVE RowInv'
  BY <1>9 DEF ReleaseCourt
<1>10. ASSUME NEW c \in Call, Unshow(c) PROVE RowInv'
  BY <1>10 DEF Unshow
<1>11. ASSUME NEW c \in Call, Die(c) PROVE RowInv'
  BY <1>11 DEF Die
<1>u. ASSUME NEW c \in Call, DieCommitted(c) PROVE RowInv'
  BY <1>u DEF DieCommitted
<1>12. ASSUME NEW d \in Requests, CancelBooking(d) PROVE RowInv'
  BY <1>12 DEF CancelBooking
<1>13. ASSUME NEW d \in Requests, Lapse(d) PROVE RowInv'
  BY <1>13 DEF Lapse
<1>14. CASE UNCHANGED vars
  BY <1>14 DEF vars
<1> QED
  BY <1>1, <1>2, <1>3, <1>4, <1>v, <1>5, <1>6, <1>7, <1>8, <1>9, <1>10, <1>11, <1>u, <1>12,
     <1>13, <1>14 DEF Next

LEMMA CallInvHolds == Spec => [](TypeOK /\ PcInv /\ RowInv)
<1>1. Init => PcInv /\ RowInv
  BY Kinds DEF Init, PcInv, RowInv
<1>2. TypeOK /\ PcInv /\ RowInv /\ [Next]_vars => PcInv' /\ RowInv'
  BY PcInvKept, RowInvKept
<1> QED
  BY <1>1, <1>2, TypeCorrect, PTL DEF Spec

---------------------------------------------------------------------------
(* The two tests.                                                          *)

LEMMA SlotLengths ==
    \A c \in Requests :
        /\ Length(c) \in Nat \ {0}
        /\ Want[c].from \in Nat /\ Want[c].to \in Nat /\ Want[c].from < Want[c].to
  BY CourtAssumption DEF Length

\* A call whose test succeeds overlaps no booking it sees in any part.
LEMMA PartsAreFree ==
    ASSUME NEW c \in Requests, NEW seen, NEW x \in seen, Available(c, seen),
           Want[x].court = Want[c].court
    PROVE  /\ c \in Creates => ~(Want[x].from < Want[c].to /\ Want[x].to > Want[c].from)
           /\ c \notin Creates =>
                 \A t \in Starts(c) : ~(Want[x].from < t + Length(c) /\ Want[x].to > t)
<1>1. ASSUME c \in Creates
      PROVE  ~(Want[x].from < Want[c].to /\ Want[x].to > Want[c].from)
  <2>1. [from |-> Want[c].from, to |-> Want[c].to] \in Parts(c)
    BY <1>1 DEF Parts
  <2> QED
    BY <2>1 DEF Available
<1>2. ASSUME c \notin Creates, NEW t \in Starts(c)
      PROVE  ~(Want[x].from < t + Length(c) /\ Want[x].to > t)
  <2>1. [from |-> t, to |-> t + Length(c)] \in Parts(c)
    BY <1>2 DEF Parts
  <2> QED
    BY <2>1 DEF Available
<1> QED
  BY <1>1, <1>2

\* A call that shares a slot with a booking it sees is refused.
LEMMA SharedIsSeen ==
    ASSUME NEW c \in Requests, NEW seen, NEW x \in seen, x \in Requests,
           Available(c, seen)
    PROVE  ~Shares(x, c)
<1> SUFFICES ASSUME Shares(x, c) PROVE FALSE
  OBVIOUS
<1>1. PICK k \in Keys(x) : k \in Keys(c)
  BY DEF Shares
<1>2. PICK t \in Starts(x) : k = <<Want[x].court, t>>
  BY <1>1 DEF Keys
<1>3. PICK u \in Starts(c) : k = <<Want[c].court, u>>
  BY <1>1 DEF Keys
<1>4. Want[x].court = Want[c].court /\ t \in Starts(c)
  BY <1>2, <1>3
<1>5. t \in Nat /\ Want[x].from <= t /\ t + Length(x) <= Want[x].to
  BY <1>2, SlotLengths DEF Starts
<1>6. Want[c].from <= t /\ t + Length(c) <= Want[c].to
  BY <1>4 DEF Starts
<1> QED
  BY <1>4, <1>5, <1>6, PartsAreFree, SlotLengths

\* A call of whole slots, or of one range, that overlaps a booking it sees is
\* refused.
LEMMA OverlapIsSeen ==
    ASSUME NEW c \in Requests, NEW seen, NEW x \in seen, x \in Requests,
           Available(c, seen), ~Ragged(c)
    PROVE  ~Overlaps(x, c)
<1> SUFFICES ASSUME Overlaps(x, c), c \notin Creates PROVE FALSE
  BY PartsAreFree DEF Overlaps
<1> DEFINE L == Length(c)
           f == Want[c].from
           u == Want[c].to
           p == IF Want[x].from < f THEN f ELSE Want[x].from
<1>1. L \in Nat \ {0} /\ f \in Nat /\ u \in Nat /\ Want[x].from \in Nat /\ Want[x].to \in Nat
  BY SlotLengths
<1>2. p \in f .. (u - 1) /\ Want[x].from <= p /\ p < Want[x].to
  BY <1>1, SlotLengths DEF Overlaps
<1>3. (u - f) % L = 0
  BY DEF Ragged
<1>4. PICK t \in f .. (u - L) : (t - f) % L = 0 /\ t <= p /\ p < t + L
  <2>1. f \in Int /\ u \in Int /\ L \in Nat \ {0} /\ p \in f .. (u - 1)
    BY <1>1, <1>2
  <2> HIDE DEF L, f, u, p
  <2> QED
    BY <2>1, <1>3, SlotOfInstant, Zenon
<1>5. t \in Starts(c)
  BY <1>1, <1>4 DEF Starts
<1>6. Want[x].from < t + L /\ Want[x].to > t
  BY <1>1, <1>2, <1>4
<1> QED
  BY <1>5, <1>6, PartsAreFree DEF Overlaps

---------------------------------------------------------------------------
(* Locks                                                                   *)

\* Locks that have not lapsed are those of the call's slots, and nobody else's.
LockInv ==
    /\ \A c, d \in Requests : c # d => locks[c] \cap locks[d] = {}
    /\ \A c \in Requests : pc[c] \in {"locked", "open"} /\ c \notin lapsed => locks[c] = Keys(c)

\* What an open transaction does not see, nobody booked under a common lock.
SeenInv ==
    \A c \in Schedules : \A x \in Active \ Creates :
        pc[c] = "open" /\ c \notin lapsed /\ Shares(x, c) => x \in snapshot[c] \/ x \in lapsed

LEMMA LockInvKept ==
    ASSUME TypeOK, PcInv, LockInv, [Next]_vars
    PROVE  LockInv'
<1> USE Kinds DEF TypeOK, LockInv, Goto
<1>1. ASSUME NEW c \in Call, Find(c) PROVE LockInv'
  BY <1>1 DEF Find
<1>2. ASSUME NEW c \in Call, FindMatchBookingId(c) PROVE LockInv'
  BY <1>2 DEF FindMatchBookingId
<1>3. ASSUME NEW c \in Call, AcquireAll(c) PROVE LockInv'
  <2>1. /\ c \in Requests /\ lapsed' = lapsed
        /\ \A d \in Requests : d # c => locks'[d] = locks[d] /\ pc'[d] = pc[d]
    BY <1>3 DEF AcquireAll
  <2>2. \/ /\ locks'[c] = Keys(c)
           /\ \A d \in Requests : locks[d] \cap Keys(c) = {}
        \/ locks'[c] = locks[c] /\ pc'[c] = "refused"
    BY <1>3, <2>1 DEF AcquireAll
  <2> QED
    BY <2>1, <2>2
<1>4. ASSUME NEW c \in Call, CreateFromPrepare(c) PROVE LockInv'
  BY <1>4 DEF CreateFromPrepare, Unlock
<1>v. ASSUME NEW c \in Call, CreateV2(c) PROVE LockInv'
  BY <1>v DEF CreateV2
<1>5. ASSUME NEW c \in Call, ReserveCourt(c) PROVE LockInv'
  BY <1>5 DEF ReserveCourt, Unlock
<1>6. ASSUME NEW c \in Call, OpenReschedule(c) PROVE LockInv'
  BY <1>6 DEF OpenReschedule
<1>7. ASSUME NEW c \in Call, RescheduleCourt(c) PROVE LockInv'
  BY <1>7 DEF RescheduleCourt, Unlock
<1>8. ASSUME NEW c \in Call, Show(c) PROVE LockInv'
  BY <1>8 DEF Show
<1>9. ASSUME NEW c \in Call, ReleaseCourt(c) PROVE LockInv'
  BY <1>9 DEF ReleaseCourt
<1>10. ASSUME NEW c \in Call, Unshow(c) PROVE LockInv'
  BY <1>10 DEF Unshow
<1>11. ASSUME NEW c \in Call, Die(c) PROVE LockInv'
  BY <1>11 DEF Die
<1>u. ASSUME NEW c \in Call, DieCommitted(c) PROVE LockInv'
  BY <1>u DEF DieCommitted
<1>12. ASSUME NEW d \in Requests, CancelBooking(d) PROVE LockInv'
  BY <1>12 DEF CancelBooking
<1>13. ASSUME NEW d \in Requests, Lapse(d) PROVE LockInv'
  BY <1>13 DEF Lapse
<1>14. CASE UNCHANGED vars
  BY <1>14 DEF vars
<1> QED
  BY <1>1, <1>2, <1>3, <1>4, <1>v, <1>5, <1>6, <1>7, <1>8, <1>9, <1>10, <1>11, <1>u, <1>12,
     <1>13, <1>14 DEF Next

\* Only the calls that commit make a booking active, one each.
LEMMA ActiveGrows ==
    ASSUME TypeOK, [Next]_vars
    PROVE  \/ Active' \subseteq Active
           \/ \E c \in Call :
                 /\ CreateFromPrepare(c) \/ CreateV2(c) \/ ReserveCourt(c) \/ RescheduleCourt(c)
                 /\ Active' \subseteq Active \cup {c}
<1> USE Kinds DEF TypeOK, Active
<1>1. ASSUME NEW c \in Call, Find(c) \/ FindMatchBookingId(c) \/ AcquireAll(c)
             \/ OpenReschedule(c) \/ Show(c) \/ Unshow(c) \/ Die(c) \/ DieCommitted(c)
      PROVE  Active' \subseteq Active
  BY <1>1 DEF Find, FindMatchBookingId, AcquireAll, OpenReschedule, Show, Unshow, Die, DieCommitted
<1>2. ASSUME NEW c \in Call, ReleaseCourt(c) PROVE Active' \subseteq Active
  BY <1>2 DEF ReleaseCourt
<1>3. ASSUME NEW d \in Requests, CancelBooking(d) \/ Lapse(d) PROVE Active' \subseteq Active
  BY <1>3 DEF CancelBooking, Lapse
<1>4. ASSUME NEW c \in Call, CreateFromPrepare(c) PROVE Active' \subseteq Active \cup {c}
  BY <1>4 DEF CreateFromPrepare
<1>v. ASSUME NEW c \in Call, CreateV2(c) PROVE Active' \subseteq Active \cup {c}
  BY <1>v DEF CreateV2
<1>5. ASSUME NEW c \in Call, ReserveCourt(c) PROVE Active' \subseteq Active \cup {c}
  BY <1>5 DEF ReserveCourt
<1>6. ASSUME NEW c \in Call, RescheduleCourt(c) PROVE Active' \subseteq Active \cup {c}
  BY <1>6 DEF RescheduleCourt, Swapped
<1>7. CASE UNCHANGED vars
  BY <1>7 DEF vars
<1> QED
  BY <1>1, <1>2, <1>3, <1>4, <1>v, <1>5, <1>6, <1>7 DEF Next

\* A transaction that is open has just been opened, or sees what it saw.
LEMMA OpenKept ==
    ASSUME TypeOK, [Next]_vars
    PROVE  /\ lapsed \subseteq lapsed'
           /\ \A c \in Schedules : pc'[c] = "open" =>
                 OpenReschedule(c) \/ (pc[c] = "open" /\ snapshot'[c] = snapshot[c])
<1> DEFINE Good == /\ lapsed \subseteq lapsed'
                   /\ \A c \in Schedules : pc'[c] = "open" =>
                         OpenReschedule(c) \/ (pc[c] = "open" /\ snapshot'[c] = snapshot[c])
<1> USE Kinds DEF TypeOK, Goto
<1>1. ASSUME NEW c \in Call, Find(c) PROVE Good
  BY <1>1 DEF Find
<1>2. ASSUME NEW c \in Call, FindMatchBookingId(c) PROVE Good
  BY <1>2 DEF FindMatchBookingId
<1>3. ASSUME NEW c \in Call, AcquireAll(c) PROVE Good
  BY <1>3 DEF AcquireAll
<1>4. ASSUME NEW c \in Call, CreateFromPrepare(c) PROVE Good
  BY <1>4 DEF CreateFromPrepare
<1>v. ASSUME NEW c \in Call, CreateV2(c) PROVE Good
  BY <1>v DEF CreateV2
<1>5. ASSUME NEW c \in Call, ReserveCourt(c) PROVE Good
  BY <1>5 DEF ReserveCourt
<1>6. ASSUME NEW c \in Call, OpenReschedule(c) PROVE Good
  <2>1. \A d \in Schedules : d # c => pc'[d] = pc[d] /\ snapshot'[d] = snapshot[d]
    BY <1>6 DEF OpenReschedule
  <2> QED
    BY <1>6, <2>1 DEF OpenReschedule
<1>7. ASSUME NEW c \in Call, RescheduleCourt(c) PROVE Good
  BY <1>7 DEF RescheduleCourt, Close
<1>8. ASSUME NEW c \in Call, Show(c) PROVE Good
  BY <1>8 DEF Show
<1>9. ASSUME NEW c \in Call, ReleaseCourt(c) PROVE Good
  BY <1>9 DEF ReleaseCourt
<1>10. ASSUME NEW c \in Call, Unshow(c) PROVE Good
  BY <1>10 DEF Unshow
<1>11. ASSUME NEW c \in Call, Die(c) PROVE Good
  BY <1>11 DEF Die, Close
<1>u. ASSUME NEW c \in Call, DieCommitted(c) PROVE Good
  BY <1>u DEF DieCommitted
<1>12. ASSUME NEW d \in Requests, CancelBooking(d) PROVE Good
  BY <1>12 DEF CancelBooking
<1>13. ASSUME NEW d \in Requests, Lapse(d) PROVE Good
  BY <1>13 DEF Lapse
<1>14. CASE UNCHANGED vars
  BY <1>14 DEF vars
<1> QED
  BY <1>1, <1>2, <1>3, <1>4, <1>v, <1>5, <1>6, <1>7, <1>8, <1>9, <1>10, <1>11, <1>u, <1>12,
     <1>13, <1>14 DEF Next

\* What a call does when it makes its booking active.
LEMMA Commits ==
    ASSUME TypeOK, NEW c \in Call,
           CreateFromPrepare(c) \/ CreateV2(c) \/ ReserveCourt(c) \/ RescheduleCourt(c)
    PROVE  /\ c \in Requests /\ pc'[c] # "open"
           /\ pc[c] \in {"locked", "open"} \/ c \in Creates
           /\ lapsed' = lapsed /\ existing' = existing
           /\ \/ Active' \subseteq Active
              \/ Available(c, Active)
              \/ c \in Schedules /\ pc[c] = "open" /\ Available(c, snapshot[c])
<1> USE Kinds DEF TypeOK, Goto
<1>0. row' = row => Active' \subseteq Active
  BY DEF Active
<1>1. CASE CreateFromPrepare(c)
  <2>1. ~Available(c, Active) => row' = row
    BY <1>1 DEF CreateFromPrepare
  <2> QED
    BY <1>0, <1>1, <2>1 DEF CreateFromPrepare
<1>2. CASE CreateV2(c)
  <2>1. ~Available(c, Active) => row' = row
    BY <1>2 DEF CreateV2
  <2> QED
    BY <1>0, <1>2, <2>1 DEF CreateV2
<1>3. CASE ReserveCourt(c)
  <2>1. ~Available(c, Active) => row' = row
    BY <1>3 DEF ReserveCourt
  <2> QED
    BY <1>0, <1>3, <2>1 DEF ReserveCourt
<1>4. CASE RescheduleCourt(c)
  <2>1. ~Available(c, snapshot[c]) => row' = row
    BY <1>4 DEF RescheduleCourt
  <2> QED
    BY <1>0, <1>4, <2>1 DEF RescheduleCourt
<1> QED
  BY <1>1, <1>2, <1>3, <1>4

LEMMA SeenInvKept ==
    ASSUME TypeOK, PcInv, RowInv, LockInv, SeenInv, [Next]_vars
    PROVE  SeenInv'
<1> SUFFICES ASSUME NEW c \in Schedules, NEW x \in Active', x \notin Creates,
                    pc'[c] = "open", c \notin lapsed', Shares(x, c)
             PROVE  x \in snapshot'[c] \/ x \in lapsed'
  BY DEF SeenInv
<1>0. c \in Requests /\ x \in Requests /\ lapsed \subseteq lapsed'
  BY Kinds, OpenKept DEF Active
<1>1. CASE OpenReschedule(c)
  BY <1>1 DEF OpenReschedule, TypeOK, Active
<1>2. CASE pc[c] = "open" /\ snapshot'[c] = snapshot[c]
  <2>1. CASE x \in Active
    BY <1>0, <1>2, <2>1 DEF SeenInv
  <2>2. CASE x \notin Active
    <3>1. PICK d \in Call : /\ CreateFromPrepare(d) \/ CreateV2(d) \/ ReserveCourt(d) \/ RescheduleCourt(d)
                            /\ Active' \subseteq Active \cup {d}
      BY <2>2, ActiveGrows
    <3>2. d = x
      BY <2>2, <3>1
    <3>3. pc[x] \in {"locked", "open"} /\ x # c
      BY <3>1, <3>2, Commits
    <3>4. ASSUME x \notin lapsed PROVE FALSE
      <4>1. locks[x] = Keys(x) /\ locks[c] = Keys(c)
        BY <1>0, <1>2, <3>3, <3>4 DEF LockInv
      <4> QED
        BY <4>1, <3>3, <1>0 DEF LockInv, Shares
    <3> QED
      BY <1>0, <3>4
  <2> QED
    BY <2>1, <2>2
<1> QED
  BY <1>1, <1>2, OpenKept

\* What an active booking was made from does not change.
LEMMA ExistingKept ==
    ASSUME TypeOK, RowInv, [Next]_vars
    PROVE  \A c \in Active : c \in Schedules => existing'[c] = existing[c]
<1>1. \A c \in Active : pc[c] # "idle"
  BY Kinds, CourtAssumption DEF Active, RowInv
<1>2. ASSUME NEW d \in Call, Find(d)
      PROVE  pc[d] = "idle" /\ \A c \in Schedules : c # d => existing'[c] = existing[c]
  BY <1>2 DEF Find, TypeOK
<1>3. UNCHANGED existing \/ \E d \in Call : Find(d)
  BY DEF Next, vars, FindMatchBookingId, AcquireAll, CreateFromPrepare, CreateV2, ReserveCourt,
     OpenReschedule, RescheduleCourt, Show, ReleaseCourt, Unshow, Die, DieCommitted,
     CancelBooking, Lapse
<1> QED
  BY <1>1, <1>2, <1>3

\* The pairs that the property excepts.
Excepted(x, y) == lapsed \cap {x, y} # {} \/ \E c, d \in {x, y} : Swap(c) /\ d \in Creates

LEMMA SharedSlotKept ==
    ASSUME TypeOK, PcInv, RowInv, LockInv, SeenInv, SharedSlotExcludes, [Next]_vars
    PROVE  SharedSlotExcludes'
<1>0. Active \subseteq Requests /\ lapsed \subseteq lapsed'
  BY OpenKept DEF Active
<1>1. \A x, y \in Active : x # y /\ Shares(x, y) => Excepted(x, y)
  BY DEF SharedSlotExcludes, Excepted
<1>2. \A x, y \in Active : Excepted(x, y) => Excepted(x, y)'
  <2>1. \A c \in Active : Swap(c) => Swap(c)'
    BY ExistingKept DEF Swap
  <2> QED
    BY <1>0, <2>1 DEF Excepted
<1>3. SUFFICES ASSUME NEW x \in Active', NEW y \in Active', x # y, Shares(x, y)
               PROVE  Excepted(x, y)'
  BY DEF SharedSlotExcludes, Excepted, Shares, Keys, Starts, Length
<1>4. CASE x \in Active /\ y \in Active
  BY <1>1, <1>2, <1>3, <1>4
<1>5. ASSUME NEW c \in Call, NEW z \in Active, z # c, Shares(z, c), c \notin Active,
             CreateFromPrepare(c) \/ CreateV2(c) \/ ReserveCourt(c) \/ RescheduleCourt(c),
             ~(Active' \subseteq Active)
      PROVE  Excepted(z, c)' /\ Excepted(c, z)'
  <2>1. /\ c \in Requests /\ lapsed' = lapsed /\ existing' = existing
        /\ \/ Available(c, Active)
           \/ c \in Schedules /\ pc[c] = "open" /\ Available(c, snapshot[c])
    BY <1>5, Commits
  <2>2. ~Available(c, Active)
    BY <1>0, <1>5, <2>1, SharedIsSeen
  <2>3. z \notin snapshot[c]
    BY <1>0, <1>5, <2>1, <2>2, SharedIsSeen
  <2>4. z \in lapsed \/ c \in lapsed \/ z \in Creates
    BY <1>5, <2>1, <2>2, <2>3 DEF SeenInv
  <2>5. Swap(c)'
    BY <2>1, <2>2 DEF Swap, PcInv
  <2> QED
    BY <2>1, <2>4, <2>5 DEF Excepted
<1>6. CASE ~(x \in Active /\ y \in Active)
  <2>1. PICK c \in Call :
           /\ CreateFromPrepare(c) \/ CreateV2(c) \/ ReserveCourt(c) \/ RescheduleCourt(c)
           /\ Active' \subseteq Active \cup {c}
    BY <1>6, ActiveGrows
  <2>2. Shares(x, y) <=> Shares(y, x)
    BY DEF Shares
  <2> QED
    BY <1>3, <1>5, <1>6, <2>1, <2>2
<1> QED
  BY <1>4, <1>6

\* Bookings that start a slot together are kept apart by the locks.
THEOREM SharedSlotExcludesHolds == Spec => []SharedSlotExcludes
<1>1. Init => LockInv /\ SeenInv /\ SharedSlotExcludes
  BY Kinds, CourtAssumption DEF Init, LockInv, SeenInv, SharedSlotExcludes, Active
<1>2. /\ TypeOK /\ PcInv /\ RowInv
      /\ LockInv /\ SeenInv /\ SharedSlotExcludes
      /\ [Next]_vars
      => LockInv' /\ SeenInv' /\ SharedSlotExcludes'
  BY LockInvKept, SeenInvKept, SharedSlotKept
<1> QED
  BY <1>1, <1>2, CallInvHolds, PTL DEF Spec

---------------------------------------------------------------------------
(* The check                                                               *)

\* A booking that was not made by a swap, of whole slots.
Tested(c) == ~Ragged(c) /\ (c \in Schedules => existing[c] = None)

LEMMA CheckKept ==
    ASSUME TypeOK, PcInv, RowInv, CheckExcludes, [Next]_vars
    PROVE  CheckExcludes'
<1>0. Active \subseteq Requests
  BY DEF Active
<1>1. \A x, y \in Active : x # y /\ Overlaps(x, y) => ~Tested(x) \/ ~Tested(y)
  BY DEF CheckExcludes, Tested, Swap
<1>2. \A c \in Active : c \in Schedules => existing'[c] = existing[c]
  BY ExistingKept
<1>3. \A c \in Active : Tested(c)' => Tested(c)
  BY <1>2 DEF Tested, Ragged
<1>4. CASE Active' \subseteq Active
  <2>1. \A x, y \in Active' : x # y /\ Overlaps(x, y) => ~Tested(x)' \/ ~Tested(y)'
    BY <1>1, <1>3, <1>4
  <2> QED
    BY <2>1 DEF CheckExcludes, Tested, Overlaps, Ragged, Swap
<1>5. ASSUME NEW c \in Call, CreateFromPrepare(c) \/ CreateV2(c) \/ ReserveCourt(c) \/ RescheduleCourt(c),
             Active' \subseteq Active \cup {c}, ~(Active' \subseteq Active)
      PROVE  CheckExcludes'
  <2>1. /\ c \in Requests /\ existing' = existing
        /\ \/ Available(c, Active)
           \/ c \in Schedules /\ pc[c] = "open"
    BY <1>5, Commits
  <2>2. ASSUME NEW x \in Active, Overlaps(x, c), Tested(c) PROVE FALSE
    <3>1. pc[c] = "open" /\ c \in Schedules => existing[c] # None
      BY DEF PcInv
    <3>2. Available(c, Active) /\ ~Ragged(c)
      BY <2>1, <2>2, <3>1 DEF Tested
    <3> QED
      BY <1>0, <2>1, <2>2, <3>2, OverlapIsSeen
  <2>3. \A x, y \in Requests : Overlaps(x, y) <=> Overlaps(y, x)
    BY DEF Overlaps
  <2>4. Tested(c)' => Tested(c)
    BY <2>1 DEF Tested, Ragged
  <2>5. \A x, y \in Active' : x # y /\ Overlaps(x, y) => ~Tested(x)' \/ ~Tested(y)'
    BY <1>0, <1>1, <1>3, <1>5, <2>1, <2>2, <2>3, <2>4
  <2> QED
    BY <2>5 DEF CheckExcludes, Tested, Overlaps, Ragged, Swap
<1> QED
  BY <1>4, <1>5, ActiveGrows

\* Bookings on different grids are kept apart by the check.
THEOREM CheckExcludesHolds == Spec => []CheckExcludes
<1>1. Init => CheckExcludes
  BY Kinds, CourtAssumption DEF Init, CheckExcludes, Active
<1>2. TypeOK /\ PcInv /\ RowInv /\ CheckExcludes /\ [Next]_vars => CheckExcludes'
  BY CheckKept
<1> QED
  BY <1>1, <1>2, CallInvHolds, PTL DEF Spec

---------------------------------------------------------------------------
(* The link of a match                                                     *)

MatchCalls == Schedules \cup Releases

\* Two calls of a match that run at the same time are remembered.
FlightInv ==
    /\ raced \subseteq disturbed
    /\ \A c, d \in Schedules :
          c # d /\ For[c] = For[d] /\ pc[c] \in InFlight /\ pc[d] \in InFlight => For[c] \in raced
    /\ \A c, d \in MatchCalls :
          c # d /\ For[c] = For[d] /\ pc[c] \in InFlight /\ pc[d] \in InFlight
              => For[c] \in disturbed

\* A call that schedules a match alone knows the link: nobody made one since it
\* looked, and its transaction keeps a release out.
LinkInv ==
    \A c \in Schedules :
        For[c] \notin raced =>
            /\ c \in Active => link[For[c]] = c
            /\ pc[c] \in {"read", "lock", "locked"} /\ existing[c] = None => link[For[c]] = None
            /\ pc[c] \in {"lock", "locked"} /\ existing[c] # None =>
                  link[For[c]] \in {existing[c], None}
            /\ pc[c] = "open" =>
                  /\ link[For[c]] \in {existing[c], None}
                  /\ still[c] <=> link[For[c]] = existing[c]

\* A call of a match takes off alone, or with a mark on the match.
LEMMA MeetMarks ==
    ASSUME TypeOK, FlightInv, NEW c \in MatchCalls, pc[c] = "idle", Meet(c),
           NEW l \in {"idle"} \cup InFlight \cup Ended, Goto(c, l)
    PROVE  FlightInv'
<1> DEFINE others == {d \in Schedules \cup Releases :
                         d # c /\ For[d] = For[c] /\ pc[d] \in InFlight}
<1>1. /\ disturbed' = IF others = {} THEN disturbed ELSE disturbed \cup {For[c]}
      /\ raced' = IF c \in Schedules /\ others \cap Schedules # {}
                  THEN raced \cup {For[c]} ELSE raced
  BY DEF Meet
<1>2. \A d \in MatchCalls : d # c => pc'[d] = pc[d]
  BY DEF Goto, TypeOK
<1>3. ASSUME NEW d \in MatchCalls, d # c, For[d] = For[c], pc[d] \in InFlight
      PROVE  /\ For[c] \in disturbed'
             /\ c \in Schedules /\ d \in Schedules => For[c] \in raced'
  BY <1>1, <1>3 DEF MatchCalls
<1>4. raced' \subseteq disturbed' /\ raced \subseteq raced' /\ disturbed \subseteq disturbed'
  BY <1>1 DEF FlightInv
<1>5. Schedules \subseteq MatchCalls
  BY DEF MatchCalls
<1> HIDE DEF others
<1> QED
  BY <1>2, <1>3, <1>4, <1>5 DEF FlightInv

LEMMA FlightInvKept ==
    ASSUME TypeOK, PcInv, FlightInv, [Next]_vars
    PROVE  FlightInv'
<1> USE Kinds DEF TypeOK, FlightInv, Goto, InFlight, MatchCalls
<1>1. ASSUME NEW c \in Call, Find(c) PROVE FlightInv'
  <2>1. c \in MatchCalls /\ pc[c] = "idle" /\ Meet(c)
    BY <1>1 DEF Find
  <2>2. \E l \in {"read", "show", "lock"} : Goto(c, l)
    BY <1>1 DEF Find
  <2> QED
    BY <2>1, <2>2, MeetMarks
<1>2. ASSUME NEW c \in Call, FindMatchBookingId(c) PROVE FlightInv'
  BY <1>2 DEF FindMatchBookingId
<1>3. ASSUME NEW c \in Call, AcquireAll(c) PROVE FlightInv'
  BY <1>3 DEF AcquireAll, PcInv
<1>4. ASSUME NEW c \in Call, CreateFromPrepare(c) PROVE FlightInv'
  BY <1>4 DEF CreateFromPrepare, PcInv
<1>v. ASSUME NEW c \in Call, CreateV2(c) PROVE FlightInv'
  BY <1>v DEF CreateV2
<1>5. ASSUME NEW c \in Call, ReserveCourt(c) PROVE FlightInv'
  BY <1>5 DEF ReserveCourt
<1>6. ASSUME NEW c \in Call, OpenReschedule(c) PROVE FlightInv'
  BY <1>6 DEF OpenReschedule
<1>7. ASSUME NEW c \in Call, RescheduleCourt(c) PROVE FlightInv'
  BY <1>7 DEF RescheduleCourt
<1>8. ASSUME NEW c \in Call, Show(c) PROVE FlightInv'
  BY <1>8 DEF Show
<1>9. ASSUME NEW c \in Call, ReleaseCourt(c) PROVE FlightInv'
  <2>1. c \in MatchCalls /\ pc[c] = "idle" /\ Meet(c)
    BY <1>9 DEF ReleaseCourt
  <2>2. \E l \in {"unshow", "done"} : Goto(c, l)
    BY <1>9 DEF ReleaseCourt
  <2> QED
    BY <2>1, <2>2, MeetMarks DEF Ended
<1>10. ASSUME NEW c \in Call, Unshow(c) PROVE FlightInv'
  BY <1>10 DEF Unshow
<1>11. ASSUME NEW c \in Call, Die(c) PROVE FlightInv'
  BY <1>11 DEF Die
<1>u. ASSUME NEW c \in Call, DieCommitted(c) PROVE FlightInv'
  BY <1>u DEF DieCommitted
<1>12. ASSUME NEW d \in Requests, CancelBooking(d) PROVE FlightInv'
  BY <1>12 DEF CancelBooking
<1>13. ASSUME NEW d \in Requests, Lapse(d) PROVE FlightInv'
  BY <1>13 DEF Lapse
<1>14. CASE UNCHANGED vars
  BY <1>14 DEF vars
<1> QED
  BY <1>1, <1>2, <1>3, <1>4, <1>v, <1>5, <1>6, <1>7, <1>8, <1>9, <1>10, <1>11, <1>u, <1>12,
     <1>13, <1>14 DEF Next

LEMMA LinkInvKept ==
    ASSUME TypeOK, PcInv, RowInv, FlightInv, LinkInv, [Next]_vars
    PROVE  LinkInv'
<1> USE Kinds DEF TypeOK, LinkInv, Goto, Active
<1>1. ASSUME NEW c \in Call, Find(c) PROVE LinkInv'
  BY <1>1 DEF Find, RowInv, Meet
<1>2. ASSUME NEW c \in Call, FindMatchBookingId(c) PROVE LinkInv'
  BY <1>2 DEF FindMatchBookingId
<1>3. ASSUME NEW c \in Call, AcquireAll(c) PROVE LinkInv'
  BY <1>3 DEF AcquireAll
<1>4. ASSUME NEW c \in Call, CreateFromPrepare(c) PROVE LinkInv'
  BY <1>4 DEF CreateFromPrepare
<1>v. ASSUME NEW c \in Call, CreateV2(c) PROVE LinkInv'
  BY <1>v DEF CreateV2
<1>5. ASSUME NEW c \in Call, ReserveCourt(c) PROVE LinkInv'
  <2>1. \A d \in Schedules : d # c /\ For[d] = For[c] /\ pc[d] \in InFlight => For[d] \in raced
    BY <1>5 DEF ReserveCourt, FlightInv, InFlight
  <2>2. ASSUME For[c] \notin raced, NEW d \in Schedules, d # c, For[d] = For[c] PROVE d \notin Active
    BY <1>5, <2>2 DEF ReserveCourt
  <2> QED
    BY <1>5, <2>1, <2>2 DEF ReserveCourt, InFlight
<1>6. ASSUME NEW c \in Call, OpenReschedule(c) PROVE LinkInv'
  BY <1>6 DEF OpenReschedule
<1>7. ASSUME NEW c \in Call, RescheduleCourt(c) PROVE LinkInv'
  <2>1. \A d \in Schedules : d # c /\ For[d] = For[c] /\ pc[d] \in InFlight => For[d] \in raced
    BY <1>7 DEF RescheduleCourt, FlightInv, InFlight
  <2>2. ASSUME For[c] \notin raced, NEW d \in Schedules, d # c, For[d] = For[c] PROVE Swapped(c)[d] # "active"
    BY <1>7, <2>2 DEF RescheduleCourt, Swapped
  <2>3. \A d \in Schedules : d # c /\ Swapped(c)[d] = "active" => row[d] = "active"
    BY DEF Swapped
  <2>4. \A d \in Schedules : For[d] # For[c] => (row'[d] = "active" => row[d] = "active")
    BY <1>7, <2>3 DEF RescheduleCourt
  <2> QED
    BY <1>7, <2>1, <2>2, <2>4 DEF RescheduleCourt, InFlight, Close
<1>8. ASSUME NEW c \in Call, Show(c) PROVE LinkInv'
  BY <1>8 DEF Show
<1>9. ASSUME NEW c \in Call, ReleaseCourt(c) PROVE LinkInv'
  <2>1. raced \subseteq raced'
    BY <1>9 DEF ReleaseCourt, Meet
  <2>2. \A d \in Schedules : For[d] = For[c] => pc[d] # "open"
    BY <1>9 DEF ReleaseCourt, Held
  <2>3. \A d \in Schedules : pc'[d] = pc[d]
    BY <1>9 DEF ReleaseCourt
  <2> QED
    BY <1>9, <2>1, <2>2, <2>3 DEF ReleaseCourt
<1>10. ASSUME NEW c \in Call, Unshow(c) PROVE LinkInv'
  BY <1>10 DEF Unshow
<1>11. ASSUME NEW c \in Call, Die(c) PROVE LinkInv'
  BY <1>11 DEF Die, Close
<1>u. ASSUME NEW c \in Call, DieCommitted(c) PROVE LinkInv'
  BY <1>u DEF DieCommitted
<1>12. ASSUME NEW d \in Requests, CancelBooking(d) PROVE LinkInv'
  BY <1>12 DEF CancelBooking
<1>13. ASSUME NEW d \in Requests, Lapse(d) PROVE LinkInv'
  BY <1>13 DEF Lapse
<1>14. CASE UNCHANGED vars
  BY <1>14 DEF vars
<1> QED
  BY <1>1, <1>2, <1>3, <1>4, <1>v, <1>5, <1>6, <1>7, <1>8, <1>9, <1>10, <1>11, <1>u, <1>12,
     <1>13, <1>14 DEF Next

\* One authoritative reservation for a match that is scheduled by one call at a
\* time, with releases and cancellations at any moment.
THEOREM OneReservationHolds == Spec => []OneReservation
<1>1. Init => FlightInv /\ LinkInv
  BY Kinds DEF Init, FlightInv, LinkInv, InFlight, Active, MatchCalls
<1>2. TypeOK /\ PcInv /\ RowInv /\ FlightInv /\ LinkInv /\ [Next]_vars => FlightInv' /\ LinkInv'
  BY FlightInvKept, LinkInvKept
<1>3. LinkInv => OneReservation
  BY DEF LinkInv, OneReservation
<1> QED
  BY <1>1, <1>2, <1>3, CallInvHolds, PTL DEF Spec

---------------------------------------------------------------------------
(* The bracket                                                             *)

Shown(m) ==
    IF link[m] = None THEN plan[m].court = None
    ELSE plan[m] = Want[link[m]] /\ row[link[m]] = "active"

\* A match in peace shows what is reserved, but between the commit of its call
\* and the write of the bracket, where the call knows what it will show.
ShownInv ==
    \A m \in Match : m \notin disturbed =>
        /\ m \notin unwritten
              /\ (\A c \in MatchCalls : For[c] = m => pc[c] \notin {"show", "unshow"})
           => Shown(m)
        /\ \A c \in Schedules : For[c] = m /\ pc[c] = "show" =>
              link[m] # None /\ Want[link[m]] = Want[c] /\ row[link[m]] = "active"
        /\ \A c \in Releases : For[c] = m /\ pc[c] = "unshow" => link[m] = None

\* The calls of a match in peace run one by one.
LEMMA Alone ==
    ASSUME FlightInv, NEW c \in MatchCalls, NEW d \in MatchCalls, c # d, For[c] = For[d],
           pc[c] \in InFlight, For[c] \notin disturbed
    PROVE  pc[d] \notin InFlight
  BY DEF FlightInv

\* A call that starts on a match in peace finds no other, and the bracket shown.
LEMMA StartsAlone ==
    ASSUME ShownInv, NEW c \in MatchCalls, pc[c] = "idle", Meet(c), For[c] \notin disturbed'
    PROVE  /\ For[c] \notin disturbed /\ (For[c] \notin unwritten => Shown(For[c]))
           /\ \A d \in MatchCalls : d # c /\ For[d] = For[c] => pc[d] \notin InFlight
<1>1. /\ For[c] \notin disturbed
      /\ \A d \in MatchCalls : d # c /\ For[d] = For[c] => pc[d] \notin InFlight
  BY DEF Meet, MatchCalls
<1> QED
  BY <1>1, Kinds DEF ShownInv, InFlight, MatchCalls

LEMMA ShownInvKept ==
    ASSUME TypeOK, PcInv, RowInv, FlightInv, LinkInv, ShownInv, [Next]_vars
    PROVE  ShownInv'
<1> USE Kinds DEF TypeOK, ShownInv, Shown, Goto, MatchCalls
<1>1. ASSUME NEW c \in Call, Find(c) PROVE ShownInv'
  <2>1. c \in MatchCalls /\ pc[c] = "idle" /\ Meet(c) /\ disturbed \subseteq disturbed'
    BY <1>1 DEF Find, Meet
  <2>2. ASSUME For[c] \notin disturbed'
        PROVE  /\ For[c] \notin disturbed /\ (For[c] \notin unwritten => Shown(For[c]))
               /\ \A d \in MatchCalls : d # c /\ For[d] = For[c] => pc[d] \notin InFlight
    BY <2>1, <2>2, StartsAlone
  <2> QED
    BY <1>1, <2>1, <2>2 DEF Find, InFlight
<1>2. ASSUME NEW c \in Call, FindMatchBookingId(c) PROVE ShownInv'
  <2>1. For[c] \notin disturbed => link[For[c]] = None
    <3>1. c \in Schedules /\ existing[c] = None
      BY <1>2, CourtAssumption DEF FindMatchBookingId, PcInv, Schedules, Releases, Prepares, Creates
    <3> QED
      BY <1>2, <3>1 DEF FindMatchBookingId, LinkInv, FlightInv
  <2> QED
    BY <1>2, <2>1 DEF FindMatchBookingId, PcInv
<1>3. ASSUME NEW c \in Call, AcquireAll(c) PROVE ShownInv'
  BY <1>3 DEF AcquireAll, PcInv
<1>4. ASSUME NEW c \in Call, CreateFromPrepare(c) PROVE ShownInv'
  <2>1. \A m \in Match : link[m] # c
    BY <1>4 DEF CreateFromPrepare
  <2> QED
    BY <1>4, <2>1 DEF CreateFromPrepare, PcInv
<1>v. ASSUME NEW c \in Call, CreateV2(c) PROVE ShownInv'
  BY <1>v DEF CreateV2
<1>5. ASSUME NEW c \in Call, ReserveCourt(c) PROVE ShownInv'
  <2>1. For[c] \notin disturbed =>
           \A d \in MatchCalls : d # c /\ For[d] = For[c] => pc[d] \notin InFlight
    BY <1>5, Alone DEF ReserveCourt, InFlight
  <2>2. row[c] = None
    BY <1>5 DEF ReserveCourt, RowInv
  <2> QED
    BY <1>5, <2>1, <2>2 DEF ReserveCourt, InFlight
<1>6. ASSUME NEW c \in Call, OpenReschedule(c) PROVE ShownInv'
  BY <1>6 DEF OpenReschedule
<1>7. ASSUME NEW c \in Call, RescheduleCourt(c) PROVE ShownInv'
  <2>1. For[c] \notin disturbed =>
           \A d \in MatchCalls : d # c /\ For[d] = For[c] => pc[d] \notin InFlight
    BY <1>7, Alone DEF RescheduleCourt, InFlight
  <2>2. \A m \in Match : m # For[c] /\ link[m] # None /\ row[link[m]] = "active"
            => Swapped(c)[link[m]] = "active"
    BY <1>7 DEF RescheduleCourt, RowInv, Swapped, PcInv
  <2>3. Swapped(c)[c] = "active"
    BY <1>7 DEF RescheduleCourt, Swapped
  <2> QED
    BY <1>7, <2>1, <2>2, <2>3 DEF RescheduleCourt, InFlight
<1>8. ASSUME NEW c \in Call, Show(c) PROVE ShownInv'
  <2>1. For[c] \notin disturbed =>
           \A d \in MatchCalls : d # c /\ For[d] = For[c] => pc[d] \notin InFlight
    BY <1>8, Alone DEF Show, InFlight
  <2> QED
    BY <1>8, <2>1 DEF Show, InFlight
<1>9. ASSUME NEW c \in Call, ReleaseCourt(c) PROVE ShownInv'
  <2>1. c \in MatchCalls /\ pc[c] = "idle" /\ Meet(c) /\ disturbed \subseteq disturbed'
    BY <1>9 DEF ReleaseCourt, Meet
  <2>2. ASSUME For[c] \notin disturbed'
        PROVE  /\ For[c] \notin disturbed /\ (For[c] \notin unwritten => Shown(For[c]))
               /\ \A d \in MatchCalls : d # c /\ For[d] = For[c] => pc[d] \notin InFlight
    BY <2>1, <2>2, StartsAlone
  <2>3. \A m \in Match : m # For[c] /\ link[m] # None => link[m] # link[For[c]]
    BY <2>1 DEF RowInv
  <2> QED
    BY <1>9, <2>1, <2>2, <2>3 DEF ReleaseCourt, InFlight
<1>10. ASSUME NEW c \in Call, Unshow(c) PROVE ShownInv'
  <2>1. For[c] \notin disturbed =>
           \A d \in MatchCalls : d # c /\ For[d] = For[c] => pc[d] \notin InFlight
    BY <1>10, Alone DEF Unshow, InFlight
  <2> QED
    BY <1>10, <2>1 DEF Unshow, InFlight
<1>11. ASSUME NEW c \in Call, Die(c) PROVE ShownInv'
  BY <1>11 DEF Die
<1>u. ASSUME NEW c \in Call, DieCommitted(c) PROVE ShownInv'
  BY <1>u DEF DieCommitted
<1>12. ASSUME NEW d \in Requests, CancelBooking(d) PROVE ShownInv'
  <2>1. \A m \in Match : m \notin disturbed' /\ link[m] # None => link[m] # d
    BY <1>12 DEF CancelBooking, RowInv
  <2> QED
    BY <1>12, <2>1 DEF CancelBooking
<1>13. ASSUME NEW d \in Requests, Lapse(d) PROVE ShownInv'
  BY <1>13 DEF Lapse
<1>14. CASE UNCHANGED vars
  BY <1>14 DEF vars
<1> QED
  BY <1>1, <1>2, <1>3, <1>4, <1>v, <1>5, <1>6, <1>7, <1>8, <1>9, <1>10, <1>11, <1>u, <1>12,
     <1>13, <1>14 DEF Next

\* The bracket of a match in peace shows what is reserved.
THEOREM ShownIsReservedHolds == Spec => []ShownIsReserved
<1>1. Init => FlightInv /\ LinkInv /\ ShownInv
  BY Kinds DEF Init, FlightInv, LinkInv, ShownInv, Shown, InFlight, Active, MatchCalls
<1>2. TypeOK /\ PcInv /\ RowInv /\ FlightInv /\ LinkInv /\ ShownInv /\ [Next]_vars
      => FlightInv' /\ LinkInv' /\ ShownInv'
  BY FlightInvKept, LinkInvKept, ShownInvKept
<1>3. ShownInv => ShownIsReserved
  BY DEF ShownInv, Shown, ShownIsReserved, Quiet, InFlight, MatchCalls
<1> QED
  BY <1>1, <1>2, <1>3, CallInvHolds, PTL DEF Spec
=============================================================================
