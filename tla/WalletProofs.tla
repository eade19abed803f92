---------------------------- MODULE WalletProofs ----------------------------
(***************************************************************************)
(* Wallet for any users' references, amounts and deliveries: types, the    *)
(* money behind the reservations, the parity of balance and ledger, and    *)
(* that Wallet implements UserAccount.                                     *)
(*                                                                         *)
(* Sums are counted unit by unit (Total), so that the library's facts      *)
(* about cardinalities carry them.  The invariant adds to the three        *)
(* properties what a delivery that has read the wallet may believe of it.  *)
(***************************************************************************)
EXTENDS Wallet, FiniteSetTheorems, TLAPS

\* The units of money of one reference.
Unit(r) == {r} \X (1 .. Amount[r])

\* Amounts are positive, references finitely many.
LEMMA References ==
    /\ IsFiniteSet(Reference)
    /\ \A r \in Reference : Amount[r] \in Nat /\ Amount[r] > 0
BY WalletAssumption

\* A reference has as many units as it moves money.
LEMMA UnitOfOne ==
    ASSUME NEW r \in Reference
    PROVE  IsFiniteSet(Unit(r)) /\ Cardinality(Unit(r)) = Amount[r]
<1>1. Amount[r] \in Nat /\ Amount[r] > 0
  BY References
<1>2. IsFiniteSet({r}) /\ Cardinality({r}) = 1
  BY FS_Singleton
<1>3. IsFiniteSet(1 .. Amount[r]) /\ Cardinality(1 .. Amount[r]) = Amount[r]
  <2>1. IsFiniteSet(1 .. Amount[r])
        /\ Cardinality(1 .. Amount[r]) = IF 1 > Amount[r] THEN 0 ELSE Amount[r] - 1 + 1
    BY <1>1, FS_Interval
  <2> QED
    BY <1>1, <2>1
<1>4. IsFiniteSet(Unit(r)) /\ Cardinality(Unit(r)) = Cardinality({r}) * Cardinality(1 .. Amount[r])
  BY <1>2, <1>3, FS_Product DEF Unit
<1>5. 1 * Amount[r] = Amount[r]
  BY <1>1
<1> QED
  BY <1>2, <1>3, <1>4, <1>5

\* The units of some references are finitely many.
LEMMA UnitsFinite ==
    ASSUME NEW S \in SUBSET Reference
    PROVE  IsFiniteSet(UNION {Unit(r) : r \in S})
<1> DEFINE T == {Unit(r) : r \in S}
           f == [r \in S |-> Unit(r)]
<1>1. IsFiniteSet(S)
  BY References, FS_Subset
<1>2. f \in Surjection(S, T)
  BY DEF Surjection
<1>3. IsFiniteSet(T)
  <2> HIDE DEF f, T
  <2> QED
    BY <1>1, <1>2, FS_Surjection
<1>4. \A U \in T : IsFiniteSet(U)
  BY UnitOfOne
<1> QED
  BY <1>3, <1>4, FS_UNION

\* A total is a number, and nothing is nothing.
LEMMA TotalType ==
    /\ \A S \in SUBSET Reference : Total(S) \in Nat
    /\ Total({}) = 0
<1>1. ASSUME NEW S \in SUBSET Reference
      PROVE  Total(S) \in Nat
  BY UnitsFinite, FS_CardinalityType DEF Total, Unit
<1>2. UNION {Unit(r) : r \in {}} = {}
  OBVIOUS
<1>3. Total({}) = 0
  BY <1>2, FS_EmptySet DEF Total, Unit
<1> QED
  BY <1>1, <1>3

\* One more reference adds its amount.
LEMMA TotalAdd ==
    ASSUME NEW S \in SUBSET Reference, NEW r \in Reference, r \notin S
    PROVE  Total(S \cup {r}) = Total(S) + Amount[r]
<1> DEFINE A == UNION {Unit(x) : x \in S}
           All == UNION {Unit(x) : x \in S \cup {r}}
<1>1. IsFiniteSet(A)
  BY UnitsFinite
<1>2. IsFiniteSet(Unit(r)) /\ Cardinality(Unit(r)) = Amount[r]
  BY UnitOfOne
<1>3. All = A \cup Unit(r)
  OBVIOUS
<1>4. A \cap Unit(r) = {}
  <2>1. \A x \in S : Unit(x) \cap Unit(r) = {}
    BY DEF Unit
  <2> QED
    BY <2>1
<1>5. Cardinality(All) = Cardinality(A) + Cardinality(Unit(r)) - Cardinality({})
  <2> HIDE DEF A, All
  <2> QED
    BY <1>1, <1>2, <1>3, <1>4, FS_Union
<1>6. Cardinality({}) = 0 /\ Cardinality(A) \in Nat /\ Amount[r] \in Nat
  BY <1>1, FS_EmptySet, FS_CardinalityType, References
<1>7. Total(S) = Cardinality(A) /\ Total(S \cup {r}) = Cardinality(All)
  BY DEF Total, Unit
<1> QED
  BY <1>2, <1>5, <1>6, <1>7

\* One less takes it away.
LEMMA TotalRemove ==
    ASSUME NEW S \in SUBSET Reference, NEW r \in S
    PROVE  Total(S \ {r}) = Total(S) - Amount[r]
<1>1. (S \ {r}) \cup {r} = S
  OBVIOUS
<1>2. Total((S \ {r}) \cup {r}) = Total(S \ {r}) + Amount[r]
  BY TotalAdd
<1> QED
  BY <1>1, <1>2, TotalType, References

---------------------------------------------------------------------------
\* What a delivery in its transaction believes: the version it read is not of the
\* future, and if it still holds, only withdrawals have changed the balance, which
\* take money away and leave their mark.
SeenInv ==
    \A d \in Delivery :
        pc[d] = "read" =>
            /\ seen[d].version <= version
            /\ seen[d].version = version =>
                  /\ seen[d].balance >= balance
                  /\ ~raced => seen[d].balance = balance

Inv == TypeOK /\ ReservedIsBacked /\ LedgerParity /\ SeenInv

\* The rows of the ledger when one more is written.
LEMMA BookedAdds ==
    ASSUME TypeOK, NEW c \in Reference, c \notin history, history' = history \cup {c}
    PROVE  /\ Booked \in Int
           /\ c \in TopUp \cup Prize => Booked' = Booked + Amount[c]
           /\ c \in Request \cup Clawback => Booked' = Booked - Amount[c]
<1> DEFINE In(h) == h \cap (TopUp \cup Prize)
           Out(h) == h \cap (Request \cup Clawback)
<1>1. /\ In(history) \in SUBSET Reference /\ Out(history) \in SUBSET Reference
      /\ c \notin In(history) /\ c \notin Out(history)
  BY DEF Reference
<1>2. /\ Total(In(history)) \in Nat /\ Total(Out(history)) \in Nat
      /\ Amount[c] \in Nat /\ Start \in Nat
  BY <1>1, TotalType, References, WalletAssumption
<1>3. /\ Booked = Start + Total(In(history)) - Total(Out(history))
      /\ Booked' = Start + Total(In(history')) - Total(Out(history'))
  BY DEF Booked
<1>4. CASE c \in TopUp \cup Prize
  <2>1. In(history') = In(history) \cup {c} /\ Out(history') = Out(history)
    BY <1>4, WalletAssumption
  <2>2. Total(In(history) \cup {c}) = Total(In(history)) + Amount[c]
    BY <1>1, TotalAdd
  <2>3. c \notin Request \cup Clawback
    BY <1>4, WalletAssumption
  <2>4. Booked' = Start + (Total(In(history)) + Amount[c]) - Total(Out(history))
    BY <1>3, <2>1, <2>2
  <2>5. Booked \in Int /\ Booked' = Booked + Amount[c]
    <3> HIDE DEF In, Out
    <3> QED
      BY <1>2, <1>3, <2>4
  <2> QED
    BY <2>3, <2>5
<1>5. CASE c \in Request \cup Clawback
  <2>1. In(history') = In(history) /\ Out(history') = Out(history) \cup {c}
    BY <1>5, WalletAssumption
  <2>2. Total(Out(history) \cup {c}) = Total(Out(history)) + Amount[c]
    BY <1>1, TotalAdd
  <2>3. c \notin TopUp \cup Prize
    BY <1>5, WalletAssumption
  <2>4. Booked' = Start + Total(In(history)) - (Total(Out(history)) + Amount[c])
    BY <1>3, <2>1, <2>2
  <2>5. Booked \in Int /\ Booked' = Booked - Amount[c]
    <3> HIDE DEF In, Out
    <3> QED
      BY <1>2, <1>3, <2>4
  <2> QED
    BY <2>3, <2>5
<1> QED
  BY <1>2, <1>3, <1>4, <1>5 DEF Reference

\* What the open withdrawals ask for when one of them opens, closes or moves on.
LEMMA OpenTotal ==
    ASSUME TypeOK, NEW r \in Request, NEW to, status' = [status EXCEPT ![r] = to]
    PROVE  /\ Total(OpenRequests) \in Nat /\ Amount[r] \in Nat /\ Amount[r] > 0
           /\ status[r] \notin Open /\ to \in Open
                 => Total(OpenRequests') = Total(OpenRequests) + Amount[r]
           /\ status[r] \in Open /\ to \notin Open
                 => Total(OpenRequests') = Total(OpenRequests) - Amount[r]
           /\ status[r] \in Open /\ to \in Open => OpenRequests' = OpenRequests
<1>1. OpenRequests \in SUBSET Reference /\ r \in Reference
  BY DEF OpenRequests, Reference
<1>2. OpenRequests' = {x \in Request : IF x = r THEN to \in Open ELSE status[x] \in Open}
  BY DEF OpenRequests, TypeOK
<1>3. ASSUME status[r] \notin Open, to \in Open
      PROVE  Total(OpenRequests') = Total(OpenRequests) + Amount[r]
  <2>1. OpenRequests' = OpenRequests \cup {r} /\ r \notin OpenRequests
    BY <1>2, <1>3 DEF OpenRequests
  <2> QED
    BY <1>1, <2>1, TotalAdd
<1>4. ASSUME status[r] \in Open, to \notin Open
      PROVE  Total(OpenRequests') = Total(OpenRequests) - Amount[r]
  <2>1. OpenRequests' = OpenRequests \ {r} /\ r \in OpenRequests
    BY <1>2, <1>4 DEF OpenRequests
  <2> QED
    BY <1>1, <2>1, TotalRemove
<1>5. ASSUME status[r] \in Open, to \in Open
      PROVE  OpenRequests' = OpenRequests
  BY <1>2, <1>5 DEF OpenRequests
<1>6. Total(OpenRequests) \in Nat /\ Amount[r] \in Nat /\ Amount[r] > 0
  BY <1>1, TotalType, References
<1> QED
  BY <1>3, <1>4, <1>5, <1>6

---------------------------------------------------------------------------
\* The wallet is opened with its first balance and no reservation.
LEMMA InitInv == Init => Inv
<1> SUFFICES ASSUME Init PROVE Inv
  OBVIOUS
<1>1. TypeOK
  BY WalletAssumption DEF Init, TypeOK
<1>2. ReservedIsBacked
  <2>1. OpenRequests = {}
    BY DEF Init, OpenRequests, Open
  <2> QED
    BY <2>1, TotalType, WalletAssumption DEF Init, ReservedIsBacked
<1>3. LedgerParity
  <2>1. history \cap (TopUp \cup Prize) = {} /\ history \cap (Request \cup Clawback) = {}
    BY DEF Init
  <2>2. Booked = Start + 0 - 0
    BY <2>1, TotalType DEF Booked
  <2> QED
    BY <2>2, WalletAssumption DEF Init, LedgerParity
<1>4. SeenInv
  BY DEF Init, SeenInv
<1> QED
  BY <1>1, <1>2, <1>3, <1>4 DEF Inv

\* Asking whether a payment is booked touches no money.
LEMMA FindBySourceInv ==
    ASSUME Inv, NEW d \in Delivery, FindBySource(d)
    PROVE  Inv'
<1> USE DEF Inv, FindBySource
<1>1. TypeOK'
  BY DEF TypeOK
<1>2. ReservedIsBacked' /\ LedgerParity'
  BY DEF ReservedIsBacked, OpenRequests, LedgerParity, Booked
<1>3. SeenInv'
  BY DEF SeenInv, TypeOK
<1> QED
  BY <1>1, <1>2, <1>3

\* A delivery that reads believes what is so.
LEMMA FindByIdInv ==
    ASSUME Inv, NEW d \in Delivery, FindById(d)
    PROVE  Inv'
<1> USE DEF Inv, FindById
<1>1. TypeOK'
  BY DEF TypeOK
<1>2. ReservedIsBacked' /\ LedgerParity'
  BY DEF ReservedIsBacked, OpenRequests, LedgerParity, Booked
<1>3. SeenInv'
  BY DEF SeenInv, TypeOK
<1> QED
  BY <1>1, <1>2, <1>3

\* A top-up that finds its version computes from a balance not below the wallet's;
\* and no other delivery's version holds after it.
LEMMA DepositInv ==
    ASSUME Inv, NEW d \in Delivery, Deposit(d)
    PROVE  Inv'
<1> USE DEF Inv
<1> DEFINE t == Of[d]
<1>1. /\ t \in TopUp /\ t \in Reference /\ Amount[t] \in Nat /\ Amount[t] > 0
      /\ pc[d] = "read"
  BY WalletAssumption, References DEF Deposit, Reference
<1>2. CASE Persists(d) /\ t \notin history
  <2>1. /\ balance' = seen[d].balance + Amount[t] /\ version' = version + 1
        /\ history' = history \cup {t} /\ pc' = [pc EXCEPT ![d] = "done"]
        /\ UNCHANGED <<reserved, status, seen, raced>>
    BY <1>2 DEF Deposit
  <2>2. /\ seen[d].balance \in Nat /\ seen[d].balance >= balance
        /\ ~raced => seen[d].balance = balance
    BY <1>1, <1>2 DEF SeenInv, Persists, TypeOK
  <2>3. TypeOK'
    BY <1>1, <2>1, <2>2 DEF TypeOK
  <2>4. ReservedIsBacked'
    BY <1>1, <2>1, <2>2 DEF ReservedIsBacked, OpenRequests, TypeOK
  <2>5. LedgerParity'
    <3>1. Booked \in Int /\ Booked' = Booked + Amount[t]
      BY <1>1, <1>2, <2>1, BookedAdds
    <3> HIDE DEF t
    <3> QED
      BY <1>1, <2>1, <2>2, <3>1 DEF LedgerParity, TypeOK
  <2>6. SeenInv'
    BY <2>1 DEF SeenInv, TypeOK
  <2> QED
    BY <2>3, <2>4, <2>5, <2>6
<1>3. CASE ~(Persists(d) /\ t \notin history)
  <2>1. UNCHANGED <<balance, version, history, reserved, status, seen, raced>>
        /\ pc' = [pc EXCEPT ![d] = "failed"]
    BY <1>3 DEF Deposit
  <2>2. TypeOK'
    BY <2>1 DEF TypeOK
  <2>3. ReservedIsBacked' /\ LedgerParity'
    BY <2>1 DEF ReservedIsBacked, OpenRequests, LedgerParity, Booked
  <2>4. SeenInv'
    BY <2>1 DEF SeenInv, TypeOK
  <2> QED
    BY <2>2, <2>3, <2>4
<1> QED
  BY <1>2, <1>3

---------------------------------------------------------------------------
\* A request may reserve what no other one holds.
LEMMA SubmitInv ==
    ASSUME Inv, NEW r \in Request, Submit(r)
    PROVE  Inv'
<1> USE DEF Inv, Submit
<1>1. /\ Total(OpenRequests) \in Nat /\ Amount[r] \in Nat /\ Amount[r] > 0
      /\ Total(OpenRequests') = Total(OpenRequests) + Amount[r]
  BY OpenTotal DEF Open
<1>2. TypeOK'
  BY <1>1 DEF TypeOK, Open
<1>3. ReservedIsBacked'
  BY <1>1 DEF ReservedIsBacked, TypeOK
<1>4. LedgerParity'
  BY DEF LedgerParity, Booked
<1>5. SeenInv'
  BY DEF SeenInv
<1> QED
  BY <1>2, <1>3, <1>4, <1>5

\* A request under review keeps its reservation.
LEMMA ReviewInv ==
    ASSUME Inv, NEW r \in Request, Review(r)
    PROVE  Inv'
<1> USE DEF Inv
<1>1. PICK to \in Open : status' = [status EXCEPT ![r] = to]
  <2>1. PICK to \in ValidTransitions[status[r]] \ {"completed", "rejected", "cancelled"} :
               status' = [status EXCEPT ![r] = to]
    BY DEF Review
  <2>2. status[r] \in Open
    BY DEF Review
  <2>3. ValidTransitions[status[r]] \subseteq Open \cup {"completed", "rejected", "cancelled"}
    BY <2>2 DEF ValidTransitions, Open
  <2>4. to \in Open
    BY <2>1, <2>3
  <2> QED
    BY <2>1, <2>4
<1>2. status[r] \in Open /\ UNCHANGED <<balance, reserved, version, history, pc, seen, raced>>
  BY DEF Review
<1>3. OpenRequests' = OpenRequests
  BY <1>1, <1>2, OpenTotal
<1>4. TypeOK'
  BY <1>1, <1>2 DEF TypeOK
<1>5. ReservedIsBacked'
  BY <1>2, <1>3 DEF ReservedIsBacked
<1>6. LedgerParity' /\ SeenInv'
  BY <1>2 DEF LedgerParity, Booked, SeenInv
<1> QED
  BY <1>4, <1>5, <1>6

\* A request that is paid takes its reservation and its money, and marks what
\* overlapping top-ups have read as overtaken.
LEMMA CompleteInv ==
    ASSUME Inv, NEW r \in Request, Complete(r)
    PROVE  Inv'
<1> USE DEF Inv
<1>1. /\ status[r] \in Open /\ Amount[r] <= reserved /\ r \notin history
      /\ balance' = balance - Amount[r] /\ reserved' = reserved - Amount[r]
      /\ history' = history \cup {r} /\ status' = [status EXCEPT ![r] = "completed"]
      /\ raced' = (raced \/ \E d \in Delivery : pc[d] = "read")
      /\ UNCHANGED <<version, pc, seen>>
  BY DEF Complete
<1>2. /\ Total(OpenRequests) \in Nat /\ Amount[r] \in Nat /\ Amount[r] > 0
      /\ Total(OpenRequests') = Total(OpenRequests) - Amount[r]
  <2>1. "completed" \notin Open
    BY DEF Open
  <2> QED
    BY <1>1, <2>1, OpenTotal
<1>3. r \in Reference /\ r \in Request \cup Clawback
  BY DEF Reference
<1>4. TypeOK'
  BY <1>1, <1>2, <1>3 DEF TypeOK, ReservedIsBacked
<1>5. ReservedIsBacked'
  BY <1>1, <1>2 DEF ReservedIsBacked, TypeOK
<1>6. LedgerParity'
  <2>1. Booked \in Int /\ Booked' = Booked - Amount[r]
    BY <1>1, <1>3, BookedAdds
  <2>2. ~raced' => ~raced
    BY <1>1
  <2> QED
    BY <1>1, <1>2, <2>1, <2>2 DEF LedgerParity, TypeOK
<1>7. SeenInv'
  <2> SUFFICES ASSUME NEW d \in Delivery, pc[d] = "read"
               PROVE  /\ seen[d].version <= version
                      /\ seen[d].version = version =>
                            seen[d].balance >= balance' /\ raced'
    BY <1>1 DEF SeenInv
  <2>1. raced'
    BY <1>1
  <2>2. seen[d].balance \in Nat
    BY DEF TypeOK
  <2>3. seen[d].version = version => seen[d].balance >= balance
    BY DEF SeenInv
  <2> QED
    BY <1>1, <1>2, <2>1, <2>2, <2>3 DEF SeenInv, TypeOK
<1> QED
  BY <1>4, <1>5, <1>6, <1>7

\* A request that is given up releases its reservation.
LEMMA GiveUpInv ==
    ASSUME Inv, NEW r \in Request, GiveUp(r)
    PROVE  Inv'
<1> USE DEF Inv
<1>1. PICK to \in {"rejected", "cancelled"} : status' = [status EXCEPT ![r] = to]
  BY DEF GiveUp
<1>2. /\ status[r] \in Open /\ Amount[r] <= reserved /\ reserved' = reserved - Amount[r]
      /\ UNCHANGED <<balance, version, history, pc, seen, raced>>
  BY DEF GiveUp
<1>3. /\ Total(OpenRequests) \in Nat /\ Amount[r] \in Nat /\ Amount[r] > 0
      /\ Total(OpenRequests') = Total(OpenRequests) - Amount[r]
  BY <1>1, <1>2, OpenTotal DEF Open
<1>4. TypeOK'
  BY <1>1, <1>2, <1>3 DEF TypeOK
<1>5. ReservedIsBacked'
  BY <1>2, <1>3 DEF ReservedIsBacked, TypeOK
<1>6. LedgerParity' /\ SeenInv'
  BY <1>2 DEF LedgerParity, Booked, SeenInv
<1> QED
  BY <1>4, <1>5, <1>6

\* Taking a prize back leaves what is reserved, and its version overtakes every
\* read.
LEMMA RefundAwardInv ==
    ASSUME Inv, NEW c \in Clawback, RefundAward(c)
    PROVE  Inv'
<1> USE DEF Inv, RefundAward
<1>1. /\ c \in Reference /\ c \in Request \cup Clawback
      /\ Amount[c] \in Nat /\ Amount[c] > 0
  BY References DEF Reference
<1>2. TypeOK'
  BY <1>1 DEF TypeOK, ReservedIsBacked
<1>3. ReservedIsBacked'
  BY <1>1 DEF ReservedIsBacked, TypeOK, OpenRequests
<1>4. LedgerParity'
  <2>1. Booked \in Int /\ Booked' = Booked - Amount[c]
    BY <1>1, BookedAdds
  <2> QED
    BY <1>1, <2>1 DEF LedgerParity, TypeOK
<1>5. SeenInv'
  BY DEF SeenInv, TypeOK
<1> QED
  BY <1>2, <1>3, <1>4, <1>5

\* A prize only adds, and its version overtakes every read.
LEMMA CreditInv ==
    ASSUME Inv, NEW c \in Prize, CreditWinner(c)
    PROVE  Inv'
<1> USE DEF Inv, CreditWinner
<1>1. /\ c \in Reference /\ c \in TopUp \cup Prize
      /\ Amount[c] \in Nat /\ Amount[c] > 0
  BY References DEF Reference
<1>2. TypeOK'
  BY <1>1 DEF TypeOK
<1>3. ReservedIsBacked'
  BY <1>1 DEF ReservedIsBacked, TypeOK, OpenRequests
<1>4. LedgerParity'
  <2>1. Booked \in Int /\ Booked' = Booked + Amount[c]
    BY <1>1, BookedAdds
  <2> QED
    BY <1>1, <2>1 DEF LedgerParity, TypeOK
<1>5. SeenInv'
  BY DEF SeenInv, TypeOK
<1> QED
  BY <1>2, <1>3, <1>4, <1>5

\* A step that changes nothing.
LEMMA StutterInv ==
    ASSUME Inv, UNCHANGED vars
    PROVE  Inv'
BY DEF Inv, vars, TypeOK, ReservedIsBacked, OpenRequests, LedgerParity, Booked, SeenInv

---------------------------------------------------------------------------
\* The invariant holds in every state.
LEMMA Invariance == Spec => []Inv
<1>1. Inv /\ [Next]_vars => Inv'
  BY FindBySourceInv, FindByIdInv, DepositInv, SubmitInv, ReviewInv, CompleteInv,
     GiveUpInv, RefundAwardInv, CreditInv, StutterInv DEF Next
<1> QED
  BY InitInv, <1>1, PTL DEF Spec

\* Every variable keeps its type; no withdrawal, clawback or top-up makes the
\* balance or the reservation negative (wallet.repository.ts:31-43).
THEOREM TypeCorrect == Spec => []TypeOK
<1>1. Inv => TypeOK
  BY DEF Inv
<1> QED
  BY Invariance, <1>1, PTL

\* The reservation is what the open withdrawals ask for, and the balance covers
\* it (withdrawal.service.ts:34-79, tournament-prize-award.service.ts:413-461).
THEOREM ReservedIsBackedHolds == Spec => []ReservedIsBacked
<1>1. Inv => ReservedIsBacked
  BY DEF Inv
<1> QED
  BY Invariance, <1>1, PTL

\* The balance is never below what the rows of wallet_transactions stand for,
\* and equals it as long as no withdrawal is paid under a top-up that has read
\* (wallet-payment.listener.ts:67-122, withdrawal.service.ts:99-125).
THEOREM LedgerParityHolds == Spec => []LedgerParity
<1>1. Inv => LedgerParity
  BY DEF Inv
<1> QED
  BY Invariance, <1>1, PTL

---------------------------------------------------------------------------
(* Wallet implements UserAccount.                                          *)

\* A withdrawal has its row exactly when it was paid out.
PaidOutInv == \A r \in Request : r \in history <=> status[r] = "completed"

LEMMA PaidOutInvHolds == Spec => []PaidOutInv
<1>1. Init => PaidOutInv
  BY DEF Init, PaidOutInv
<1>2. ASSUME Inv, PaidOutInv, [Next]_vars PROVE PaidOutInv'
  <2> USE <1>2 DEF Inv, TypeOK, PaidOutInv
  <2>1. ASSUME UNCHANGED <<history, status>> PROVE PaidOutInv'
    BY <2>1
  <2>2. ASSUME NEW t \in TopUp \cup Clawback \cup Prize,
               history' = history \cup {t}, UNCHANGED status
        PROVE  PaidOutInv'
    BY <2>2, WalletAssumption
  <2>3. ASSUME NEW r \in Request, NEW to \in Open \cup {"rejected", "cancelled"},
               status[r] # "completed", status' = [status EXCEPT ![r] = to], UNCHANGED history
        PROVE  PaidOutInv'
    BY <2>3 DEF Open
  <2>4. ASSUME NEW d \in Delivery, FindBySource(d) \/ FindById(d) \/ Deposit(d) PROVE PaidOutInv'
    <3>1. Of[d] \in TopUp
      BY WalletAssumption
    <3> QED BY <2>1, <2>2, <2>4, <3>1 DEF FindBySource, FindById, Deposit
  <2>5. ASSUME NEW r \in Request, Submit(r) PROVE PaidOutInv'
    BY <2>3, <2>5 DEF Submit, Open
  <2>6. ASSUME NEW r \in Request, Review(r) PROVE PaidOutInv'
    BY <2>3, <2>6 DEF Review, Open, ValidTransitions
  <2>7. ASSUME NEW r \in Request, Complete(r) PROVE PaidOutInv'
    BY <2>7 DEF Complete
  <2>8. ASSUME NEW r \in Request, GiveUp(r) PROVE PaidOutInv'
    BY <2>3, <2>8 DEF GiveUp, Open
  <2>9. ASSUME NEW c \in Clawback \cup Prize, RefundAward(c) \/ CreditWinner(c) PROVE PaidOutInv'
    BY <2>2, <2>9 DEF RefundAward, CreditWinner
  <2> QED
    BY <2>1, <2>4, <2>5, <2>6, <2>7, <2>8, <2>9 DEF Next, vars
<1> QED
  BY <1>1, <1>2, Invariance, PTL DEF Spec

\* What UserAccount sees of the statuses.
Returned == {r \in Request : status[r] \in {"rejected", "cancelled"}}

AbstractStep ==
    [Abstract!Next]_<<balance - reserved, OpenRequests, Returned, history, raced>>

\* Each step moves what is free, set aside, given back or booked as UserAccount
\* says, or is not seen there.
LEMMA ImplementsStep ==
    ASSUME Inv, PaidOutInv, [Next]_vars
    PROVE  AbstractStep
<1> USE DEF Inv
<1>0. balance \in Nat /\ reserved \in Nat
  BY DEF TypeOK
<1>1. ASSUME UNCHANGED <<balance, reserved, history, status, raced>> PROVE AbstractStep
  BY <1>1 DEF AbstractStep, OpenRequests, Returned
<1>2. ASSUME NEW d \in Delivery, Deposit(d) PROVE AbstractStep
  <2>1. CASE Persists(d) /\ Of[d] \notin history
    <3>1. Of[d] \in TopUp /\ Amount[Of[d]] \in Nat
      BY WalletAssumption, References DEF Reference
    <3>2. /\ seen[d].balance \in Nat /\ seen[d].balance >= balance
          /\ ~raced => seen[d].balance = balance
      BY <1>2, <2>1 DEF SeenInv, Persists, TypeOK, Deposit
    <3>3. /\ balance' = seen[d].balance + Amount[Of[d]] /\ history' = history \cup {Of[d]}
          /\ UNCHANGED <<reserved, status, raced>>
      BY <1>2, <2>1 DEF Deposit
    <3>4. /\ balance' - reserved' >= (balance - reserved) + Amount[Of[d]]
          /\ ~raced => balance' - reserved' = (balance - reserved) + Amount[Of[d]]
      BY <1>0, <3>1, <3>2, <3>3
    <3>5. Abstract!Deposit(Of[d])
      BY <2>1, <3>3, <3>4 DEF Abstract!Deposit, OpenRequests
    <3> QED BY <3>1, <3>5 DEF AbstractStep, Abstract!Next
  <2>2. CASE ~(Persists(d) /\ Of[d] \notin history)
    BY <1>1, <1>2, <2>2 DEF Deposit
  <2> QED BY <2>1, <2>2
<1>3. ASSUME NEW d \in Delivery, FindBySource(d) \/ FindById(d) PROVE AbstractStep
  BY <1>1, <1>3 DEF FindBySource, FindById
<1>4. ASSUME NEW r \in Request, Submit(r) PROVE AbstractStep
  <2>1. /\ OpenRequests' = OpenRequests \cup {r} /\ UNCHANGED Returned
        /\ r \notin OpenRequests \cup Returned \cup history
    BY <1>4 DEF Submit, OpenRequests, Returned, Open, PaidOutInv, TypeOK
  <2>2. Amount[r] <= balance - reserved /\ balance' - reserved' = (balance - reserved) - Amount[r]
    BY <1>0, <1>4, References DEF Submit, Reference
  <2>3. Abstract!SetAside(r)
    BY <1>4, <2>1, <2>2 DEF Abstract!SetAside, Submit, Returned
  <2> QED BY <2>3 DEF AbstractStep, Abstract!Next
<1>5. ASSUME NEW r \in Request, Review(r) PROVE AbstractStep
  <2>1. PICK to \in Open : status' = [status EXCEPT ![r] = to] /\ status[r] \in Open
    <3>1. \A s \in Open : ValidTransitions[s] \ {"completed", "rejected", "cancelled"} \subseteq Open
      BY DEF Open, ValidTransitions
    <3> QED BY <1>5, <3>1 DEF Review
  <2>2. UNCHANGED <<OpenRequests, Returned>>
    BY <2>1 DEF OpenRequests, Returned, Open, TypeOK
  <2> QED BY <1>5, <2>2 DEF AbstractStep, Review
<1>6. ASSUME NEW r \in Request, Complete(r) PROVE AbstractStep
  <2>1. OpenRequests' = OpenRequests \ {r} /\ UNCHANGED Returned /\ r \in OpenRequests
    BY <1>6 DEF Complete, OpenRequests, Returned, Open, TypeOK
  <2>2. balance' - reserved' = balance - reserved
    BY <1>0, <1>6, References DEF Complete, Reference
  <2>3. raced' \in {raced, TRUE}
    BY <1>6 DEF Complete, TypeOK
  <2>4. Abstract!PayOut(r)
    BY <1>6, <2>1, <2>2, <2>3 DEF Abstract!PayOut, Complete, Returned
  <2> QED BY <2>4 DEF AbstractStep, Abstract!Next
<1>7. ASSUME NEW r \in Request, GiveUp(r) PROVE AbstractStep
  <2>1. PICK to \in {"rejected", "cancelled"} : status' = [status EXCEPT ![r] = to]
    BY <1>7 DEF GiveUp
  <2>2. /\ OpenRequests' = OpenRequests \ {r} /\ Returned' = Returned \cup {r}
        /\ r \in OpenRequests
    BY <1>7, <2>1 DEF GiveUp, OpenRequests, Returned, Open, TypeOK
  <2>3. balance' - reserved' = (balance - reserved) + Amount[r]
    BY <1>0, <1>7, References DEF GiveUp, Reference
  <2>4. Abstract!GiveBack(r)
    BY <1>7, <2>2, <2>3 DEF Abstract!GiveBack, GiveUp, Returned
  <2> QED BY <2>4 DEF AbstractStep, Abstract!Next
<1>8. ASSUME NEW c \in Clawback, RefundAward(c) PROVE AbstractStep
  <2>1. Amount[c] <= balance - reserved /\ balance' - reserved' = (balance - reserved) - Amount[c]
    BY <1>0, <1>8, References DEF RefundAward, Reference
  <2>2. Abstract!TakeBack(c)
    BY <1>8, <2>1 DEF Abstract!TakeBack, RefundAward, OpenRequests, Returned
  <2> QED BY <2>2 DEF AbstractStep, Abstract!Next
<1>9. ASSUME NEW c \in Prize, CreditWinner(c) PROVE AbstractStep
  <2>1. balance' - reserved' = (balance - reserved) + Amount[c]
    BY <1>0, <1>9, References DEF CreditWinner, Reference
  <2>2. Abstract!Receive(c)
    BY <1>9, <2>1 DEF Abstract!Receive, CreditWinner, OpenRequests, Returned
  <2> QED BY <2>2 DEF AbstractStep, Abstract!Next
<1> QED
  BY <1>1, <1>2, <1>3, <1>4, <1>5, <1>6, <1>7, <1>8, <1>9 DEF Next, vars

\* The user sees UserAccount: every reference counts once, withdrawals set their
\* money aside, top-ups never add too little (wallet-payment.listener.ts:67-122,
\* withdrawal.service.ts:34-144, tournament-prize-award.service.ts:413-461).
THEOREM ImplementsAccount == Spec => Refines
<1>1. Init => Abstract!Init
  BY WalletAssumption DEF Init, Abstract!Init, OpenRequests, Open
<1>2. Inv /\ PaidOutInv /\ [Next]_vars
        => [Abstract!Next]_<<balance - reserved, OpenRequests, Returned, history, raced>>
  BY ImplementsStep DEF AbstractStep
<1> QED
  BY <1>1, <1>2, Invariance, PaidOutInvHolds, PTL DEF Spec, Refines, Abstract!Spec, Returned
=============================================================================
