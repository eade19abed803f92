----------------------------- MODULE UserAccount -----------------------------
(***************************************************************************)
(* What a user may rely on of the money in a wallet: every reference moves *)
(* it once, a prize is taken back only from what is free, a withdrawal     *)
(* sets its money aside before anybody reviews it and either pays it out   *)
(* or gives it back, once, and a top-up never adds less than was paid.  It *)
(* may add more only after a slip: a withdrawal paid while a top-up was    *)
(* under way.  Wallet.tla implements it.                                   *)
(***************************************************************************)
EXTENDS Integers

CONSTANTS
    TopUp, Request, Clawback, Prize, \* what moves money
    PrizeOf,                         \* PrizeOf[c]: the prize that c takes back
    Amount,                          \* Amount[r]: how much
    Start                            \* the money at first

VARIABLES
    free,     \* money that can be spent: available_balance of getMyWallet
    aside,    \* withdrawals whose money is set aside
    returned, \* withdrawals that were given up
    booked,   \* references that have moved money
    slipped   \* whether a top-up may have been computed from an old balance

Init ==
    /\ free = Start /\ aside = {} /\ returned = {} /\ booked = {}
    /\ slipped = FALSE

Deposit(t) ==
    /\ t \notin booked /\ booked' = booked \cup {t}
    /\ free' >= free + Amount[t]
    /\ ~slipped => free' = free + Amount[t]
    /\ UNCHANGED <<aside, returned, slipped>>

Receive(c) ==
    /\ c \notin booked /\ booked' = booked \cup {c}
    /\ free' = free + Amount[c]
    /\ UNCHANGED <<aside, returned, slipped>>

TakeBack(c) ==
    /\ PrizeOf[c] \in booked /\ c \notin booked /\ booked' = booked \cup {c}
    /\ Amount[c] <= free /\ free' = free - Amount[c]
    /\ UNCHANGED <<aside, returned, slipped>>

SetAside(r) ==
    /\ r \notin aside \cup returned \cup booked
    /\ Amount[r] <= free /\ free' = free - Amount[r]
    /\ aside' = aside \cup {r}
    /\ UNCHANGED <<returned, booked, slipped>>

PayOut(r) ==
    /\ r \in aside /\ aside' = aside \ {r}
    /\ r \notin booked /\ booked' = booked \cup {r}
    /\ slipped' \in {slipped, TRUE}
    /\ UNCHANGED <<free, returned>>

GiveBack(r) ==
    /\ r \in aside /\ aside' = aside \ {r}
    /\ free' = free + Amount[r]
    /\ returned' = returned \cup {r}
    /\ UNCHANGED <<booked, slipped>>

Next ==
    \/ \E t \in TopUp : Deposit(t)
    \/ \E c \in Prize : Receive(c)
    \/ \E c \in Clawback : TakeBack(c)
    \/ \E r \in Request : SetAside(r) \/ PayOut(r) \/ GiveBack(r)

Spec == Init /\ [][Next]_<<free, aside, returned, booked, slipped>>
=============================================================================
