------------------------------- MODULE Wallet -------------------------------
(***************************************************************************)
(* The wallet of a user and everything that moves its money: card top-ups  *)
(* (wallet-payment.listener.ts), withdrawals (withdrawal.service.ts), and  *)
(* prizes of tournaments, given and taken back.                              *)
(*                                                                         *)
(* Three ways of writing meet on one row.  Prizes lock it,                 *)
(* withdrawals change it relatively and leave its version, and a top-up    *)
(* writes the balance it computed from an unlocked read, if the version is *)
(* the one it read.                                                        *)
(***************************************************************************)
EXTENDS Integers, FiniteSets

CONSTANTS
    TopUp,    \* card payments for the wallet that succeeded
    Delivery, \* deliveries of payment:succeeded to the listener
    Of,       \* Of[d]: the top-up that delivery d is about
    Request,  \* withdrawals
    Prize,    \* prizes credited to the wallet
    Clawback, \* prizes taken back
    PrizeOf,  \* PrizeOf[c]: the prize that c takes back
    Amount,   \* Amount[r]: the money that each of them moves
    Start     \* the balance at first

Reference == TopUp \cup Request \cup Clawback \cup Prize

ASSUME WalletAssumption ==
    /\ IsFiniteSet(Reference)
    /\ (TopUp \cup Prize) \cap (Request \cup Clawback) = {}
    /\ TopUp \cap Prize = {} /\ Request \cap Clawback = {}
    /\ Of \in [Delivery -> TopUp]
    /\ PrizeOf \in [Clawback -> Prize]
    /\ Amount \in [Reference -> Nat \ {0}]
    /\ \A c \in Clawback : Amount[c] = Amount[PrizeOf[c]]
    /\ Start \in Nat

VARIABLES
    balance,  \* user_wallets.balance
    reserved, \* user_wallets.reserved_balance
    version,  \* user_wallets.version
    history,  \* references with a row in wallet_transactions
    status,   \* status[r]: of withdrawal r; "none" before it is submitted
    pc,       \* pc[d]: where delivery d is
    seen,     \* seen[d]: balance and version that its transaction read
    raced     \* a withdrawal was paid while a top-up held a balance it had read

vars == <<balance, reserved, version, history, status, pc, seen, raced>>

Open == {"pending", "under_review", "approved", "processing"}

\* VALID_TRANSITIONS of withdrawals.
ValidTransitions ==
    [pending      |-> {"under_review", "cancelled"},
     under_review |-> {"approved", "rejected", "cancelled"},
     approved     |-> {"processing", "cancelled"},
     processing   |-> {"completed", "cancelled"}]

Init ==
    /\ balance = Start /\ reserved = 0 /\ version = 1
    /\ history = {}
    /\ status = [r \in Request |-> "none"]
    /\ pc = [d \in Delivery |-> "idle"]
    /\ seen = [d \in Delivery |-> [balance |-> 0, version |-> 0]]
    /\ raced = FALSE

---------------------------------------------------------------------------
(* Top-ups: the listener of payment:succeeded                              *)

\* A payment that is booked already is skipped; the question is asked outside
\* of the transaction.
FindBySource(d) ==
    /\ pc[d] = "idle"
    /\ pc' = [pc EXCEPT ![d] = IF Of[d] \in history THEN "done" ELSE "asked"]
    /\ UNCHANGED <<balance, reserved, version, history, status, seen, raced>>

\* The command's transaction reads the wallet, without a lock.
FindById(d) ==
    /\ pc[d] = "asked"
    /\ seen' = [seen EXCEPT ![d] = [balance |-> balance, version |-> version]]
    /\ pc' = [pc EXCEPT ![d] = "read"]
    /\ UNCHANGED <<balance, reserved, version, history, status, raced>>

\* Faulty variant: an older version will do.
Persists_Older(d) == version >= seen[d].version

\* persistBalanceUpdate: the row still has the version that was read.
Persists(d) == version = seen[d].version

\* Faulty variant: whether the payment is booked is not asked again.
Deposit_Again(d) ==
    /\ pc[d] = "read" /\ pc' = [pc EXCEPT ![d] = "done"]
    /\ IF Persists(d)
       THEN /\ balance' = seen[d].balance + Amount[Of[d]]
            /\ version' = version + 1
            /\ history' = history \cup {Of[d]}
       ELSE UNCHANGED <<balance, version, history>>
    /\ UNCHANGED <<reserved, status, seen, raced>>

\* The write, the rows and the commit.  A lost version or a payment that has its
\* row rolls back, and the listener swallows the error.
Deposit(d) ==
    /\ pc[d] = "read"
    /\ IF Persists(d) /\ Of[d] \notin history
       THEN /\ balance' = seen[d].balance + Amount[Of[d]]
            /\ version' = version + 1
            /\ history' = history \cup {Of[d]}
            /\ pc' = [pc EXCEPT ![d] = "done"]
       ELSE /\ UNCHANGED <<balance, version, history>>
            /\ pc' = [pc EXCEPT ![d] = "failed"]
    /\ UNCHANGED <<reserved, status, seen, raced>>

---------------------------------------------------------------------------
(* Withdrawals: relative changes, the version stays                        *)

\* Faulty variant: what other requests hold counts as available.
Submit_Spent(r) ==
    /\ status[r] = "none" /\ Amount[r] <= balance
    /\ reserved' = reserved + Amount[r]
    /\ status' = [status EXCEPT ![r] = "pending"]
    /\ UNCHANGED <<balance, version, history, pc, seen, raced>>

\* Faulty variant: the amount goes the wrong way.
Submit_Releases(r) ==
    /\ status[r] = "none" /\ Amount[r] <= balance - reserved
    /\ reserved' = reserved - Amount[r]
    /\ status' = [status EXCEPT ![r] = "pending"]
    /\ UNCHANGED <<balance, version, history, pc, seen, raced>>

\* submit, under the wallet's lock: only what is not reserved can be asked for.
Submit(r) ==
    /\ status[r] = "none" /\ Amount[r] <= balance - reserved
    /\ reserved' = reserved + Amount[r]
    /\ status' = [status EXCEPT ![r] = "pending"]
    /\ UNCHANGED <<balance, version, history, pc, seen, raced>>

\* transition under the request's lock, to a status that moves no money.
Review(r) ==
    /\ status[r] \in Open
    /\ \E to \in ValidTransitions[status[r]] \ {"completed", "rejected", "cancelled"} :
          status' = [status EXCEPT ![r] = to]
    /\ UNCHANGED <<balance, reserved, version, history, pc, seen, raced>>

\* transition to completed: the debit must find its reservation, and writes the
\* one row of the request.
Complete(r) ==
    /\ status[r] \in Open /\ "completed" \in ValidTransitions[status[r]]
    /\ Amount[r] <= reserved /\ r \notin history
    /\ balance' = balance - Amount[r]
    /\ reserved' = reserved - Amount[r]
    /\ history' = history \cup {r}
    /\ status' = [status EXCEPT ![r] = "completed"]
    /\ raced' = (raced \/ \E d \in Delivery : pc[d] = "read")
    /\ UNCHANGED <<version, pc, seen>>

\* transition to rejected or cancelled: the reservation is released.
GiveUp(r) ==
    /\ status[r] \in Open
    /\ \E to \in ValidTransitions[status[r]] \cap {"rejected", "cancelled"} :
          status' = [status EXCEPT ![r] = to]
    /\ Amount[r] <= reserved
    /\ reserved' = reserved - Amount[r]
    /\ UNCHANGED <<balance, version, history, pc, seen, raced>>

---------------------------------------------------------------------------
(* Prizes, under the wallet's lock; uq_wallet_txn_ref allows one row each   *)

\* creditWinnerWallet, in the transaction that makes the award.
CreditWinner(p) ==
    /\ p \notin history
    /\ balance' = balance + Amount[p]
    /\ version' = version + 1
    /\ history' = history \cup {p}
    /\ UNCHANGED <<reserved, status, pc, seen, raced>>

\* refundAward takes a credited prize back, whole or not at all: what withdrawals
\* reserve is not available to it.
RefundAward(c) ==
    /\ PrizeOf[c] \in history /\ c \notin history
    /\ Amount[c] <= balance - reserved
    /\ balance' = balance - Amount[c]
    /\ version' = version + 1
    /\ history' = history \cup {c}
    /\ UNCHANGED <<reserved, status, pc, seen, raced>>

Next ==
    \/ \E d \in Delivery : FindBySource(d) \/ FindById(d) \/ Deposit(d)
    \/ \E r \in Request : Submit(r) \/ Review(r) \/ Complete(r) \/ GiveUp(r)
    \/ \E p \in Prize : CreditWinner(p)
    \/ \E c \in Clawback : RefundAward(c)

Spec == Init /\ [][Next]_vars

---------------------------------------------------------------------------
(* Properties                                                              *)

\* Money, versions, statuses and places have their types: no balance is negative.
TypeOK ==
    /\ balance \in Nat /\ reserved \in Nat /\ version \in Nat
    /\ history \subseteq Reference
    /\ status \in [Request -> Open \cup {"none", "rejected", "completed", "cancelled"}]
    /\ pc \in [Delivery -> {"idle", "asked", "read", "done", "failed"}]
    /\ seen \in [Delivery -> [balance : Nat, version : Nat]]
    /\ raced \in BOOLEAN

\* The money of a set of references, unit by unit.
Total(S) == Cardinality(UNION {{r} \X (1 .. Amount[r]) : r \in S})

OpenRequests == {r \in Request : status[r] \in Open}

\* wallet-withdrawal-reconciliation.service.ts, C1, and that the money is there:
\* what is reserved is what the open withdrawals ask for, and neither clawbacks
\* nor top-ups computed from an old balance ever leave less than that.
ReservedIsBacked == reserved = Total(OpenRequests) /\ reserved <= balance

\* The balance that the rows of wallet_transactions stand for.
Booked == Start + Total(history \cap (TopUp \cup Prize)) - Total(history \cap (Request \cup Clawback))

\* No money of the user is ever lost, whatever overlaps; and none is made, by a
\* top-up delivered twice for instance, unless a withdrawal is paid while a
\* top-up holds the balance it has read.
LedgerParity == balance >= Booked /\ (~raced => balance = Booked)

\* What is free and what is set aside of the balance is UserAccount: each prize,
\* clawback, top-up and withdrawal counts once, whatever reads and versions overlap,
\* and a withdrawal's money is there until it is paid out or given back.
Abstract == INSTANCE UserAccount WITH
    free     <- balance - reserved,
    aside    <- OpenRequests,
    returned <- {r \in Request : status[r] \in {"rejected", "cancelled"}},
    booked   <- history,
    slipped  <- raced

Refines == Abstract!Spec

\* Without the exception. Not so: such a top-up writes the debit away, because
\* the debit leaves the version (README, "Known to fail").
LedgerExact == balance = Booked

\* wallet-payment.listener.ts:13: a top-up that succeeded is credited. Not so:
\* deliveries that lose the version give up (README, "Known to fail").
TopUpIsCredited ==
    \A t \in TopUp :
        (\A d \in Delivery : Of[d] = t => pc[d] \in {"done", "failed"}) => t \in history
=============================================================================
