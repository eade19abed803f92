--------------------------- MODULE CardRefundProofs ---------------------------
(***************************************************************************)
(* Theorems about CardRefund, for every number of callers, every amount,   *)
(* window and bound.                                                       *)
(***************************************************************************)
EXTENDS CardRefund, TLAPS

\* What a step of Next is, one disjunct per action.
LEMMA NextCases ==
  ASSUME Next
  PROVE  \/ \E c \in Callers : EnsureIntent(c)
         \/ \E c \in Callers : ReadRow(c)
         \/ \E c \in Callers : QueryGateway(c)
         \/ \E c \in Callers : Arm(c)
         \/ \E c \in Callers : Reply(c)
         \/ \E c \in Callers : ClearArm(c)
         \/ \E c \in Callers : Finalize(c)
         \/ \E c \in Callers : GatewayAccepts(c)
         \/ \E c \in Callers : GatewayRefuses(c)
         \/ \E c \in Callers : LoseReply(c)
         \/ \E c \in Callers : Crash(c)
         \/ Tick
  BY DEF Next, Step, Gateway

\* The history only grows, by callers that lose an answer or outlast the window.
LEMMA OutlivedGrows ==
  ASSUME outlived \subseteq Callers, [Next]_vars
  PROVE  outlived \subseteq outlived' /\ outlived' \subseteq Callers
<1>1. CASE UNCHANGED vars
  BY <1>1 DEF vars
<1>2. ASSUME NEW c \in Callers, LoseReply(c)
      PROVE  outlived \subseteq outlived' /\ outlived' \subseteq Callers
  BY <1>2 DEF LoseReply
<1>3. CASE Tick
  BY <1>3 DEF Tick
<1> QED
  BY <1>1, <1>2, <1>3 DEF Next

-------------------------------------------------------------------------------
(* Type correctness.                                                       *)

LEMMA TypeInit == Init => TypeOK
  BY ParametersAssumption
  DEF Init, TypeOK, Statuses, Intents, Requests, Active, Returned, Never

LEMMA TypeStep == TypeOK /\ [Next]_vars => TypeOK'
<1> SUFFICES ASSUME TypeOK, [Next]_vars PROVE TypeOK'
  OBVIOUS
<1>o. outlived' \subseteq Callers
  BY OutlivedGrows DEF TypeOK
<1> USE <1>o, ParametersAssumption
        DEF TypeOK, Statuses, Intents, Requests, Active, Returned, Never,
            row, gw, Goto
<1>1. CASE UNCHANGED vars
  BY <1>1 DEF vars
<1>2. ASSUME NEW c \in Callers, EnsureIntent(c) PROVE TypeOK'
  BY <1>2 DEF EnsureIntent
<1>3. ASSUME NEW c \in Callers, ReadRow(c) PROVE TypeOK'
  BY <1>3 DEF ReadRow, Defer
<1>4. ASSUME NEW c \in Callers, QueryGateway(c) PROVE TypeOK'
  BY <1>4 DEF QueryGateway
<1>5. ASSUME NEW c \in Callers, Arm(c) PROVE TypeOK'
  BY <1>5 DEF Arm, Defer
<1>6. ASSUME NEW c \in Callers, Reply(c) PROVE TypeOK'
  BY <1>6 DEF Reply
<1>7. ASSUME NEW c \in Callers, ClearArm(c) PROVE TypeOK'
  BY <1>7 DEF ClearArm
<1>8. ASSUME NEW c \in Callers, Finalize(c) PROVE TypeOK'
  BY <1>8 DEF Finalize
<1>9. ASSUME NEW c \in Callers, GatewayAccepts(c) PROVE TypeOK'
  BY <1>9 DEF GatewayAccepts
<1>10. ASSUME NEW c \in Callers, GatewayRefuses(c) PROVE TypeOK'
  BY <1>10 DEF GatewayRefuses
<1>11. ASSUME NEW c \in Callers, LoseReply(c) PROVE TypeOK'
  BY <1>11 DEF LoseReply
<1>12. ASSUME NEW c \in Callers, Crash(c) PROVE TypeOK'
  BY <1>12 DEF Crash
<1>13. CASE Tick
  BY <1>13 DEF Tick
<1> QED
  BY <1>1, <1>2, <1>3, <1>4, <1>5, <1>6, <1>7, <1>8, <1>9, <1>10, <1>11, <1>12,
     <1>13, NextCases

\* The refund protocol keeps its variables in their types.
THEOREM TypeCorrect == Spec => []TypeOK
  BY TypeInit, TypeStep, PTL DEF Spec

-------------------------------------------------------------------------------
(***************************************************************************)
(* What is booked did happen. These hold under every delay and with lost   *)
(* replies: each finalize is preceded by an acceptance that moved at least *)
(* the caller's amount, and the gateway's ledger never goes down.          *)
(***************************************************************************)
MovedFor(c) == request[c] = "accepted" \/ pc[c] = "finalize" \/ c \in reversal

\* A call that has not armed the row has no request at the gateway.
AskInv ==
  \A c \in Callers : pc[c] \in {"idle", "resolve", "query", "arm"} => request[c] = "none"

BookInv ==
  /\ TypeOK
  /\ AskInv
  /\ OneReversal
  /\ SuccessIsCommitted
  /\ \A c \in Callers : MovedFor(c) => Amount[c] <= ledger

LEMMA BookInit == Init => BookInv
  BY TypeInit DEF Init, BookInv, AskInv, OneReversal, SuccessIsCommitted, MovedFor

LEMMA BookStep == BookInv /\ [Next]_vars => BookInv'
<1> SUFFICES ASSUME BookInv, [Next]_vars PROVE BookInv'
  OBVIOUS
<1>t. TypeOK /\ TypeOK'
  BY TypeStep DEF BookInv
<1> USE <1>t, ParametersAssumption
        DEF BookInv, AskInv, OneReversal, SuccessIsCommitted, MovedFor, TypeOK,
            row, gw, Goto
<1>1. CASE UNCHANGED vars
  BY <1>1 DEF vars
<1>2. ASSUME NEW c \in Callers, EnsureIntent(c) PROVE BookInv'
  BY <1>2 DEF EnsureIntent
<1>3. ASSUME NEW c \in Callers, ReadRow(c) PROVE BookInv'
  BY <1>3 DEF ReadRow, Defer
<1>4. ASSUME NEW c \in Callers, QueryGateway(c) PROVE BookInv'
  BY <1>4 DEF QueryGateway
<1>5. ASSUME NEW c \in Callers, Arm(c) PROVE BookInv'
  BY <1>5 DEF Arm, Defer
<1>6. ASSUME NEW c \in Callers, Reply(c) PROVE BookInv'
  BY <1>6 DEF Reply
<1>7. ASSUME NEW c \in Callers, ClearArm(c) PROVE BookInv'
  BY <1>7 DEF ClearArm
<1>8. ASSUME NEW c \in Callers, Finalize(c) PROVE BookInv'
  BY <1>8 DEF Finalize
<1>9. ASSUME NEW c \in Callers, GatewayAccepts(c) PROVE BookInv'
  BY <1>9 DEF GatewayAccepts
<1>10. ASSUME NEW c \in Callers, GatewayRefuses(c) PROVE BookInv'
  BY <1>10 DEF GatewayRefuses
<1>11. ASSUME NEW c \in Callers, LoseReply(c) PROVE BookInv'
  BY <1>11 DEF LoseReply
<1>12. ASSUME NEW c \in Callers, Crash(c) PROVE BookInv'
  BY <1>12 DEF Crash
<1>13. CASE Tick
  BY <1>13 DEF Tick
<1> QED
  BY <1>1, <1>2, <1>3, <1>4, <1>5, <1>6, <1>7, <1>8, <1>9, <1>10, <1>11, <1>12,
     <1>13, NextCases

LEMMA BookInvariant == Spec => []BookInv
  BY BookInit, BookStep, PTL DEF Spec

\* One payment:refunded event per refunded row (_finalizeCardRefund).
THEOREM OneReversalHolds == Spec => []OneReversal
<1>1. BookInv => OneReversal
  BY DEF BookInv
<1> QED
  BY <1>1, BookInvariant, PTL

\* No refund is booked that the gateway did not make.
THEOREM NoFalseFinalizeHolds == Spec => []NoFalseFinalize
<1>1. BookInv => NoFalseFinalize
  BY DEF BookInv, TypeOK, MovedFor, NoFalseFinalize
<1> QED
  BY <1>1, BookInvariant, PTL

\* A caller is told "success" only of a committed reversal.
THEOREM SuccessIsCommittedHolds == Spec => []SuccessIsCommitted
<1>1. BookInv => SuccessIsCommitted
  BY DEF BookInv
<1> QED
  BY <1>1, BookInvariant, PTL

\* The row is frozen once 'refunded'.
THEOREM RefundedIsFinalHolds == Spec => RefundedIsFinal
<1>1. [Next]_vars => [status = "refunded" => UNCHANGED row]_vars
  <2> SUFFICES ASSUME Next, status = "refunded" PROVE UNCHANGED row
    OBVIOUS
  <2> QED
    BY NextCases
    DEF EnsureIntent, ReadRow, QueryGateway, Arm, Reply, ClearArm, Finalize,
        GatewayAccepts, GatewayRefuses, LoseReply, Crash, Tick, row
<1> QED
  BY <1>1, PTL DEF Spec, RefundedIsFinal

-------------------------------------------------------------------------------
(***************************************************************************)
(* At most one refund. The argument is that of a lease: an attempt is open *)
(* from its arm until the gateway's acceptance or the clear, an open       *)
(* attempt owns the arm on the row and the arm is fresh, so nobody else    *)
(* arms; what a caller concluded from the row in its loop is still true at *)
(* its T2, or somebody armed meanwhile and that arm is fresh. It holds     *)
(* until a stage outlasts the window or an answer is lost.                 *)
(***************************************************************************)
Open(c) ==
  \/ request[c] = "inflight"
  \/ pc[c] = "calling" /\ request[c] = "refused"
  \/ pc[c] = "clear"

\* No clock reading lies in the future.
ClockInv == executed <= now /\ \A c \in Callers : since[c] <= now

\* Where a caller is in its call agrees with what became of its request.
CallInv ==
  \A c \in Callers :
    /\ pc[c] = "clear" => request[c] = "refused"
    /\ pc[c] = "finalize" \/ request[c] = "accepted" => ledger > 0

\* An open attempt holds the arm, alone, within the window, before any money
\* moved.
LeaseInv ==
  \A c \in Callers : Open(c) =>
    /\ executed = since[c] /\ now - since[c] < WINDOW
    /\ ledger = 0
    /\ \A d \in Callers : Open(d) => d = c

\* Money moved leaves an arm on the row; a refunded row means money moved.
MovedInv ==
  /\ ledger > 0 => executed # Never
  /\ status = "refunded" => ledger > 0

\* What a caller concluded in its loop still holds or has been overtaken by an
\* arm that its T2 will see as fresh.
DecideInv ==
  \A c \in Callers : pc[c] \in {"query", "arm"} =>
    /\ now - since[c] < WINDOW
    /\ \/ executed >= since[c]
       \/ /\ \A d \in Callers : ~Open(d)
          /\ pc[c] = "arm" => ledger = 0

OneInv ==
  \A c, d \in Callers : request[c] = "accepted" /\ request[d] = "accepted" => c = d

LeaseIInv ==
  TypeOK /\ ClockInv /\ AskInv /\ CallInv /\ LeaseInv /\ MovedInv /\ DecideInv /\ OneInv

LEMMA LeaseInit == Init => LeaseIInv
  BY TypeInit, ParametersAssumption
  DEF Init, LeaseIInv, ClockInv, AskInv, CallInv, LeaseInv, MovedInv, DecideInv,
      OneInv, Open, Never

LEMMA LeaseStep ==
  ASSUME outlived' = {}, LeaseIInv, [Next]_vars
  PROVE  LeaseIInv'
<1>t. TypeOK /\ TypeOK'
  BY TypeStep DEF LeaseIInv
<1> USE <1>t, ParametersAssumption
        DEF LeaseIInv, TypeOK, ClockInv, AskInv, CallInv, LeaseInv, MovedInv, DecideInv,
            OneInv, Open, Never, row, gw, Goto
<1>1. CASE UNCHANGED vars
  BY <1>1 DEF vars
<1>2. ASSUME NEW c \in Callers, EnsureIntent(c) PROVE LeaseIInv'
  BY <1>2 DEF EnsureIntent
<1>3. ASSUME NEW c \in Callers, ReadRow(c) PROVE LeaseIInv'
  BY <1>3 DEF ReadRow, Defer, Fresh
<1>4. ASSUME NEW c \in Callers, QueryGateway(c) PROVE LeaseIInv'
  BY <1>4 DEF QueryGateway
<1>5. ASSUME NEW c \in Callers, Arm(c) PROVE LeaseIInv'
  BY <1>5 DEF Arm, Defer, Fresh
<1>6. ASSUME NEW c \in Callers, Reply(c) PROVE LeaseIInv'
  BY <1>6 DEF Reply
<1>7. ASSUME NEW c \in Callers, ClearArm(c) PROVE LeaseIInv'
  BY <1>7 DEF ClearArm
<1>8. ASSUME NEW c \in Callers, Finalize(c) PROVE LeaseIInv'
  BY <1>8 DEF Finalize
<1>9. ASSUME NEW c \in Callers, GatewayAccepts(c) PROVE LeaseIInv'
  BY <1>9 DEF GatewayAccepts
<1>10. ASSUME NEW c \in Callers, GatewayRefuses(c) PROVE LeaseIInv'
  BY <1>10 DEF GatewayRefuses
<1>11. ASSUME NEW c \in Callers PROVE ~LoseReply(c)
  BY DEF LoseReply
<1>12. ASSUME NEW c \in Callers, Crash(c) PROVE LeaseIInv'
  BY <1>12 DEF Crash, Active
<1>13. CASE Tick
  <2>1. \A c \in Callers : ~Overruns(c)
    BY <1>13 DEF Tick
  <2>2. \A c \in Callers :
           Open(c) \/ pc[c] \in {"query", "arm"} => now + 1 - since[c] < WINDOW
    BY <2>1 DEF Overruns, StagesOf, Stages
  <2> QED
    BY <1>13, <2>2 DEF Tick
<1> QED
  BY <1>1, <1>2, <1>3, <1>4, <1>5, <1>6, <1>7, <1>8, <1>9, <1>10, <1>11, <1>12,
     <1>13, NextCases

\* The lease argument holds as long as nobody outlived the window.
Lease == outlived = {} => LeaseIInv

LEMMA LeaseHolds == Spec => []Lease
<1>1. Init => Lease
  BY LeaseInit DEF Lease
<1>2. TypeOK /\ Lease /\ [Next]_vars => Lease'
  BY LeaseStep, OutlivedGrows DEF Lease, TypeOK
<1> QED
  BY <1>1, <1>2, TypeInit, TypeStep, PTL DEF Spec

\* The gateway refunds a payment at most once, for any number of concurrent and
\* retried calls, any crashes, delays and lost answers, unless one call outlived
\* the window or lost its answer.
THEOREM AtMostOneRefundHolds == Spec => []AtMostOneRefund
<1>1. Lease => AtMostOneRefund
  BY DEF Lease, LeaseIInv, OneInv, AtMostOneRefund
<1> QED
  BY <1>1, LeaseHolds, PTL

\* If no stage is slow and no answer is lost, nobody outlives the window.
LEMMA PromptHolds == Spec => [](Prompt => outlived = {})
<1>1. Init => (Prompt => outlived = {})
  BY DEF Init
<1>2. TypeOK /\ (Prompt => outlived = {}) /\ [Next]_vars => (Prompt => outlived = {})'
  <2> SUFFICES ASSUME TypeOK, Prompt, outlived = {}, [Next]_vars PROVE outlived' = {}
    BY DEF Prompt
  <2>1. CASE UNCHANGED vars
    BY <2>1 DEF vars
  <2>2. ASSUME NEW c \in Callers PROVE ~LoseReply(c)
    BY DEF LoseReply, Prompt
  <2>3. CASE Tick
    <3>1. \A c \in Callers : ~Overruns(c)
      BY <2>3 DEF Tick, Overruns, Prompt
    <3> QED
      BY <2>3, <3>1 DEF Tick
  <2> QED
    BY <2>1, <2>2, <2>3 DEF Next
<1> QED
  BY <1>1, <1>2, TypeInit, TypeStep, PTL DEF Spec

-------------------------------------------------------------------------------
(* CardRefund implements RefundOutcome.                                    *)

\* The values of the refinement mapping.
Moved == {c \in Callers : request[c] = "accepted"}
Told == {c \in Callers : pc[c] = "done"}

AbstractStep == [Abstract!Next]_<<Moved, ledger, reversal, Told>>

\* A step of a call or of the gateway moves the money, books it, tells a caller,
\* or is not seen.
LEMMA ImplementsStep ==
  ASSUME BookInv, Prompt => LeaseIInv, Next
  PROVE  AbstractStep
<1>t. TypeOK /\ OneReversal
  BY DEF BookInv
<1> USE <1>t DEF TypeOK
<1>1. ASSUME UNCHANGED <<request, ledger, reversal>>, UNCHANGED Told PROVE AbstractStep
  BY <1>1 DEF AbstractStep, Moved
<1>2. ASSUME NEW c \in Callers, NEW l, Goto(c, l), UNCHANGED ledger, UNCHANGED reversal, UNCHANGED Moved,
             pc[c] # "done", l = "done" => status = "refunded"
      PROVE  AbstractStep
  <2>1. CASE l = "done"
    <3>1. Told' = Told \cup {c} /\ reversal # {}
      BY <1>2, <2>1 DEF Goto, Told, OneReversal
    <3>2. Abstract!Tell(c)
      BY <1>2, <3>1 DEF Abstract!Tell, Moved, Told
    <3> QED BY <3>2 DEF AbstractStep, Abstract!Next
  <2>2. CASE l # "done"
    <3>1. UNCHANGED Told
      BY <1>2, <2>2 DEF Goto, Told
    <3> QED BY <1>2, <3>1 DEF AbstractStep
  <2> QED BY <2>1, <2>2
<1>3. ASSUME NEW c \in Callers, GatewayAccepts(c) PROVE AbstractStep
  <2>1. c \notin Moved /\ Moved' = Moved \cup {c}
    BY <1>3 DEF GatewayAccepts, Moved
  <2>2. Prompt => Moved = {}
    BY <1>3 DEF GatewayAccepts, LeaseIInv, LeaseInv, CallInv, Open, Moved
  <2>3. UNCHANGED <<reversal, Told>> /\ ledger' = ledger + Amount[c]
    BY <1>3 DEF GatewayAccepts, Told
  <2>4. Abstract!Move(c)
    BY <2>1, <2>2, <2>3 DEF Abstract!Move, Moved, Told
  <2> QED BY <2>4 DEF AbstractStep, Abstract!Next
<1>4. ASSUME NEW c \in Callers, Finalize(c) PROVE AbstractStep
  <2>0. pc[c] = "finalize" /\ Goto(c, "done") /\ UNCHANGED <<ledger, Moved>>
    BY <1>4 DEF Finalize, gw, Moved
  <2>1. CASE status = "refunded" /\ UNCHANGED reversal
    BY <1>2, <2>0, <2>1
  <2>2. CASE status = "paid" /\ reversal' = reversal \cup {c}
    <3>1. reversal = {} /\ reversal' = {c}
      BY <2>2 DEF OneReversal
    <3>2. Amount[c] <= ledger /\ Told' = Told \cup {c}
      BY <2>0 DEF BookInv, MovedFor, Goto, Told
    <3>3. Abstract!Book(c)
      BY <2>0, <3>1, <3>2 DEF Abstract!Book, Moved, Told
    <3> QED BY <3>3 DEF AbstractStep, Abstract!Next
  <2> QED BY <1>4, <2>1, <2>2 DEF Finalize
<1>5. ASSUME NEW c \in Callers, GatewayRefuses(c) PROVE AbstractStep
  BY <1>5 DEF GatewayRefuses, AbstractStep, Moved, Told
<1>6. CASE Tick
  BY <1>1, <1>6 DEF Tick, gw, Told
<1> HIDE DEF AbstractStep
<1>7. ASSUME NEW c \in Callers, EnsureIntent(c) \/ ReadRow(c) \/ QueryGateway(c) PROVE AbstractStep
  BY <1>2, <1>7 DEF EnsureIntent, ReadRow, QueryGateway, Defer, gw, Moved
<1>8. ASSUME NEW c \in Callers, Arm(c) PROVE AbstractStep
  <2>1. UNCHANGED Moved
    <3>1. request' = request \/ (request' = [request EXCEPT ![c] = "inflight"] /\ request[c] # "accepted")
      BY <1>8 DEF Arm, BookInv, AskInv
    <3> QED BY <3>1 DEF Moved
  <2> QED BY <1>2, <1>8, <2>1 DEF Arm, Defer
<1>9. ASSUME NEW c \in Callers, Reply(c) \/ LoseReply(c) \/ ClearArm(c) PROVE AbstractStep
  BY <1>2, <1>9 DEF Reply, LoseReply, ClearArm, gw, Moved
<1>10. ASSUME NEW c \in Callers, Crash(c) PROVE AbstractStep
  BY <1>2, <1>10 DEF Crash, Active, gw, Moved
<1> QED
  BY <1>3, <1>4, <1>5, <1>6, <1>7, <1>8, <1>9, <1>10, NextCases

\* Whatever is slow, lost or crashes, callers and accounting see RefundOutcome.
THEOREM ImplementsRefund == Spec => Refines
<1>1. Init => Abstract!Init
  BY DEF Init, Abstract!Init
<1>2. BookInv /\ (Prompt => LeaseIInv) /\ [Next]_vars => AbstractStep
  <2>1. UNCHANGED vars => AbstractStep
    BY DEF vars, AbstractStep, Moved, Told
  <2> QED BY <2>1, ImplementsStep
<1>3. Spec => [](Prompt => LeaseIInv)
  <2>1. Lease /\ (Prompt => outlived = {}) => (Prompt => LeaseIInv)
    BY DEF Lease
  <2> QED BY <2>1, LeaseHolds, PromptHolds, PTL
<1>4. BookInv /\ (Prompt => LeaseIInv) /\ [Next]_vars
        => [Abstract!Next]_<<Moved, ledger, reversal, Told>>
  BY <1>2 DEF AbstractStep
<1>5. Spec => Abstract!Init /\ [][Abstract!Next]_<<Moved, ledger, reversal, Told>>
  BY <1>1, <1>3, <1>4, BookInvariant, PTL DEF Spec
<1> QED
  BY <1>5, PTL DEF Refines, Abstract!Spec, Moved, Told
=============================================================================
