---------------------------- MODULE SlotArithmetic ----------------------------
(***************************************************************************)
(* Arithmetic of slots of equal length, used by the proofs about both      *)
(* checks of the availability of a court.                                  *)
(***************************************************************************)
EXTENDS Integers, TLAPS

\* Euclidean division.
LEMMA Division ==
  ASSUME NEW a \in Int, NEW d \in Int, d > 0
  PROVE  a = d * (a \div d) + (a % d) /\ a % d \in 0..(d - 1) /\ a \div d \in Int
  BY SMT

\* Multiples of d are at least d apart.
LEMMA NextMultiple ==
  ASSUME NEW i \in Int, NEW j \in Int, NEW d \in Nat \ {0}, d * i < d * j
  PROVE  d * i + d <= d * j
<1>1. i < j BY Z3
<1>2. \E k \in Nat : j = i + 1 + k BY <1>1, Z3
<1> QED BY <1>2, Z3

\* A multiple of d leaves no remainder.
LEMMA Multiple ==
  ASSUME NEW q \in Int, NEW d \in Nat \ {0}
  PROVE  (d * q) % d = 0
<1> DEFINE a == d * q
<1>1. a = d * (a \div d) + (a % d) /\ a % d \in 0..(d - 1) /\ a \div d \in Int
  BY Division, Z3
<1>2. a % d = d * (q - (a \div d)) BY <1>1, Z3
<1>3. q - (a \div d) = 0 BY <1>1, <1>2, Z3
<1> QED BY <1>2, <1>3, Z3

\* Every instant of a covered range lies in one of its slots.
LEMMA SlotOfInstant ==
  ASSUME NEW x \in Int, NEW y \in Int, NEW d \in Nat \ {0}, NEW t \in x..(y - 1),
         (y - x) % d = 0
  PROVE  \E s \in x..(y - d) : (s - x) % d = 0 /\ s <= t /\ t < s + d
<1> DEFINE i == (t - x) \div d
           j == (y - x) \div d
           s == x + d * i
<1>1. t - x = d * i + ((t - x) % d) /\ (t - x) % d \in 0..(d - 1) /\ i \in Int
  BY Division, Z3
<1>2. y - x = d * j /\ j \in Int BY Division, Z3
<1>3. i >= 0 BY <1>1, Z3
<1>4. d * i + d <= d * j BY <1>1, <1>2, NextMultiple, Z3
<1>5. s \in x..(y - d) /\ s <= t /\ t < s + d BY <1>1, <1>2, <1>3, <1>4, Z3
<1>6. s - x = d * i BY <1>1, Z3
<1>7. (s - x) % d = 0 BY <1>1, <1>6, Multiple
<1> QED BY <1>5, <1>7
=============================================================================
