------------------------------ MODULE PaymentProofs ------------------------------
(***************************************************************************)
(* Theorems of Payment for any number of payments, webhook requests and    *)
(* polling jobs.                                                           *)
(***************************************************************************)
EXTENDS Payment, TLAPS

\* The verdicts are final, so what a notification or an answer says of a
\* payment stays true of it however late it is used.
MessageTrue(m, verdict) ==
  /\ m[2] = "paid" => verdict[m[1]] = "captured"
  /\ m[2] = "failed" => verdict[m[1]] = "declined"

Informed ==
  /\ \A m \in unacked : MessageTrue(m, gate)
  /\ \A h \in Handlers : hook[h] # "idle" => MessageTrue(msg[h], gate)
  /\ \A h \in Handlers : hook[h] = "settle" => msg[h][2] \in Outcomes
  /\ \A k \in Jobs : answer[k] = "paid" => gate[at[k]] = "captured"
  /\ \A k \in Jobs : answer[k] = "failed" => gate[at[k]] = "declined"

IInv ==
  /\ TypeOK
  /\ OneOutcome
  /\ ~Fallback => /\ Informed
                  /\ PaidWasCaptured
                  /\ NoExpiryOfCaptured

LEMMA InitInv == Init => IInv
  BY ParametersAssumption DEF Init, IInv, TypeOK, OneOutcome, Informed, MessageTrue,
     PaidWasCaptured, NoExpiryOfCaptured, Statuses, FINAL_STATES,
     Verdicts, Notifications, Outcomes, Answers, None, NoMessage

\* Notifications are pairs, and the empty one is none of them.
LEMMA NotificationFacts ==
  /\ NoMessage \notin Notifications
  /\ \A m \in Notifications : m[1] \in Payments /\ m[2] \in {"pending"} \cup Outcomes
  BY ParametersAssumption DEF Notifications, NoMessage, None

\* What the gateway says of a payment is one of the three answers.
LEMMA TruthFacts ==
  ASSUME TypeOK, NEW p \in Payments
  PROVE  /\ Truth(p) \in {"pending", "paid", "failed"}
         /\ Truth(p) = "paid" <=> gate[p] = "captured"
         /\ Truth(p) = "failed" <=> gate[p] = "declined"
  BY DEF TypeOK, Truth, Verdicts

\* Settling keeps the row in its types, and publishes with the status or not
\* at all.
LEMMA OutcomeType ==
  ASSUME TypeOK, NEW p \in Payments, NEW o \in Outcomes, Outcome(p, o)
  PROVE  /\ pay' \in [Payments -> Statuses]
         /\ emitted' \in [Payments -> [FINAL_STATES -> Nat]]
<1>1. CASE pay[p] \in FINAL_STATES
  BY <1>1 DEF TypeOK, Outcome
<1>2. CASE pay[p] \notin FINAL_STATES
  <2>1. emitted[p][o] + 1 \in Nat
    BY DEF TypeOK, Outcomes, FINAL_STATES
  <2>2. pay' = [pay EXCEPT ![p] = o] /\ o \in Statuses /\ o \in FINAL_STATES
    BY <1>2 DEF Outcome, Statuses, Outcomes, FINAL_STATES
  <2>3. emitted' = [emitted EXCEPT ![p] = [emitted[p] EXCEPT ![o] = emitted[p][o] + 1]]
    BY <1>2 DEF Outcome
  <2>4. [emitted[p] EXCEPT ![o] = emitted[p][o] + 1] \in [FINAL_STATES -> Nat]
    BY <2>1, <2>2 DEF TypeOK
  <2> QED
    BY <2>2, <2>3, <2>4 DEF TypeOK
<1> QED
  BY <1>1, <1>2

\* Type correctness first: every other step leans on it.
LEMMA TypeStep == TypeOK /\ [Next]_vars => TypeOK'
<1> SUFFICES ASSUME TypeOK, [Next]_vars PROVE TypeOK'
  OBVIOUS
<1> USE ParametersAssumption, NotificationFacts DEF TypeOK, row, gateway, hooks, polls
<1>1. ASSUME NEW p \in Payments, NEW o \in Outcomes, Verdict(p, o) PROVE TypeOK'
  <2>1. <<p, o>> \in Notifications
    BY DEF Notifications
  <2> QED
    BY <1>1, <2>1 DEF Verdict, Verdicts, Outcomes
<1>2. ASSUME NEW p \in Payments, NotifyPending(p) PROVE TypeOK'
  BY <1>2 DEF NotifyPending, Notifications
<1>3. ASSUME NEW m \in unacked, GiveUp(m) PROVE TypeOK'
  BY <1>3 DEF GiveUp
<1>4. ASSUME NEW h \in Handlers, NEW m \in unacked, Receive(h, m) PROVE TypeOK'
  <2>1. m \in Notifications /\ m # NoMessage
    OBVIOUS
  <2>2. CASE HookStarts(h, m, "claim") /\ UNCHANGED unacked
    BY <1>4, <2>1, <2>2 DEF Receive, HookStarts
  <2>3. CASE HookStarts(h, m, "correlate") /\ UNCHANGED unacked
    BY <1>4, <2>1, <2>3 DEF Receive, HookStarts
  <2>4. CASE unacked' = unacked \ {m} /\ UNCHANGED <<hook, msg>>
    BY <1>4, <2>4 DEF Receive
  <2> QED
    BY <1>4, <2>2, <2>3, <2>4 DEF Receive
<1>5. ASSUME NEW h \in Handlers, Claim(h) PROVE TypeOK'
  BY <1>5 DEF Claim, HookGoto
<1>6. ASSUME NEW h \in Handlers, Correlate(h) PROVE TypeOK'
  <2>1. msg[h] \in Notifications /\ msg[h][1] \in Payments
    BY <1>6 DEF Correlate
  <2>2. CASE msg[h][2] = "pending"
    <3>1. Acknowledge(h) /\ UNCHANGED <<pay, ref, emitted, gate, replay, polls>>
      BY <1>6, <2>2 DEF Correlate
    <3> QED
      BY <3>1 DEF Acknowledge, HookEnds
  <2>3. CASE msg[h][2] # "pending"
    <3>1. /\ HookGoto(h, "settle") /\ hook[h] # "idle"
          /\ UNCHANGED <<pay, emitted, gate, replay, unacked, polls>>
          /\ ref' = [ref EXCEPT ![msg[h][1]] = "order"]
      BY <1>6, <2>3 DEF Correlate
    <3> QED
      BY <2>1, <3>1 DEF HookGoto
  <2> QED
    BY <2>2, <2>3
<1>7. ASSUME NEW h \in Handlers, SettleWebhook(h) PROVE TypeOK'
  <2>1. msg[h] \in Notifications
    BY <1>7 DEF SettleWebhook
  <2>2. /\ pay' \in [Payments -> Statuses]
        /\ emitted' \in [Payments -> [FINAL_STATES -> Nat]]
    BY <1>7, <2>1, OutcomeType DEF SettleWebhook, Outcomes
  <2> QED
    BY <1>7, <2>2 DEF SettleWebhook, Acknowledge, HookEnds
<1>8. ASSUME NEW h \in Handlers, FailWebhook(h) PROVE TypeOK'
  BY <1>8 DEF FailWebhook, HookEnds
<1>9. ASSUME NEW k \in Jobs, NEW ps \in SUBSET Payments, StartJob(k, ps) PROVE TypeOK'
  BY <1>9 DEF StartJob
<1>10. ASSUME NEW k \in Jobs, Query(k) PROVE TypeOK'
  <2>1. PICK p \in todo[k] :
          /\ at' = [at EXCEPT ![k] = p]
          /\ todo' = [todo EXCEPT ![k] = @ \ {p}]
          /\ \/ answer' = [answer EXCEPT ![k] = Truth(p)]
             \/ \E q \in Payments : answer' = [answer EXCEPT ![k] = Truth(q)]
             \/ answer' = [answer EXCEPT ![k] = "error"]
    BY <1>10 DEF Query
  <2>2. p \in Payments /\ p # None
    BY <2>1
  <2>3. PICK a \in Answers \ {None} : answer' = [answer EXCEPT ![k] = a]
    BY <2>1, <2>2, TruthFacts DEF Answers, Outcomes, None
  <2> QED
    BY <1>10, <2>1, <2>2, <2>3 DEF Query
<1>11. ASSUME NEW k \in Jobs, SettlePoll(k) PROVE TypeOK'
  <2>1. /\ pay' \in [Payments -> Statuses]
        /\ emitted' \in [Payments -> [FINAL_STATES -> Nat]]
    BY <1>11, OutcomeType DEF SettlePoll, Outcomes
  <2> QED
    BY <1>11, <2>1 DEF SettlePoll, Leave, Answers
<1>12. ASSUME NEW k \in Jobs, SettleExpiry(k) PROVE TypeOK'
  <2>0. at[k] \in Payments
    BY <1>12 DEF SettleExpiry
  <2>1. CASE answer[k] # "failed"
    <3>1. /\ pay' \in [Payments -> Statuses]
          /\ emitted' \in [Payments -> [FINAL_STATES -> Nat]]
      BY <1>12, <2>0, <2>1, OutcomeType DEF SettleExpiry, Outcomes
    <3> QED
      BY <1>12, <3>1 DEF SettleExpiry, Leave, Answers
  <2>2. CASE answer[k] = "failed"
    <3>1. [emitted[at[k]] EXCEPT !["expired"] = @ + 1] \in [FINAL_STATES -> Nat]
      BY <2>0 DEF FINAL_STATES
    <3>2. /\ pay' \in [Payments -> Statuses]
          /\ emitted' = [emitted EXCEPT ![at[k]] = [emitted[at[k]] EXCEPT !["expired"] = @ + 1]]
      BY <1>12, <2>0, <2>2 DEF SettleExpiry, FINAL_STATES, Statuses
    <3> QED
      BY <1>12, <2>0, <3>1, <3>2 DEF SettleExpiry, Leave, Answers
  <2> QED
    BY <2>1, <2>2
<1>13. ASSUME NEW k \in Jobs, FailJob(k) PROVE TypeOK'
  BY <1>13 DEF FailJob, Leave, Answers
<1>14. CASE UNCHANGED vars
  BY <1>14 DEF vars
<1> HIDE ParametersAssumption, NotificationFacts DEF TypeOK
<1> QED
  BY <1>1, <1>2, <1>3, <1>4, <1>5, <1>6, <1>7, <1>8, <1>9, <1>10, <1>11, <1>12,
     <1>13, <1>14
     DEF Next, Gateway, Webhook, JobStep, ListPending, Confirm, Recover

-------------------------------------------------------------------------------
\* A job other than the expiry settles p without an answer from the gateway.
Blind(p) ==
  \E k \in Jobs : Kind[k] # "expiry" /\ at[k] = p /\ answer[k] = "error" /\ at'[k] = None

\* The steps that can change a row: a settlement, or the expiry of one.
SettlesWith(p, o) ==
  /\ Outcome(p, o)
  /\ o = "paid" /\ ~Fallback => gate[p] = "captured"
  /\ o = "failed" /\ ~Fallback => gate[p] = "declined" \/ Blind(p)

Expires(p) ==
  /\ ~Fallback => gate[p] = "declined"
  /\ pay' = IF pay[p] \in FINAL_STATES THEN pay ELSE [pay EXCEPT ![p] = "expired"]
  /\ emitted' = [emitted EXCEPT ![p]["expired"] = @ + 1]

\* A step leaves the rows alone, settles one, or expires one; what it does
\* besides only adds to what is known, and the verdicts only become final.
LEMMA RowStep ==
  ASSUME IInv, Next
  PROVE  \/ UNCHANGED <<pay, emitted>>
         \/ UNCHANGED gate /\ \E p \in Payments, o \in Outcomes : SettlesWith(p, o)
         \/ UNCHANGED gate /\ \E p \in Payments : Expires(p)
<1> DEFINE Goal == \/ UNCHANGED <<pay, emitted>>
                   \/ UNCHANGED gate /\ \E p \in Payments, o \in Outcomes : SettlesWith(p, o)
                   \/ UNCHANGED gate /\ \E p \in Payments : Expires(p)
<1>t. TypeOK
  BY DEF IInv
<1>1. ASSUME NEW h \in Handlers, SettleWebhook(h) PROVE Goal
  <2>1. /\ msg[h] \in Notifications /\ hook[h] = "settle"
        /\ msg[h][1] \in Payments
        /\ msg[h][2] \in {"pending"} \cup Outcomes
    BY <1>1, <1>t, NotificationFacts DEF SettleWebhook, TypeOK
  <2>2. ~Fallback => MessageTrue(msg[h], gate) /\ msg[h][2] \in Outcomes
    BY <2>1 DEF IInv, Informed
  <2>3. PICK o \in Outcomes :
          /\ Outcome(msg[h][1], o)
          /\ o = "paid" <=> msg[h][2] = "paid"
    BY <1>1 DEF SettleWebhook, Outcomes
  <2>4. SettlesWith(msg[h][1], o)
    BY <2>1, <2>2, <2>3 DEF SettlesWith, MessageTrue, Outcomes
  <2>5. UNCHANGED gate
    BY <1>1 DEF SettleWebhook
  <2> QED
    BY <2>1, <2>4, <2>5
<1>2. ASSUME NEW k \in Jobs, SettlePoll(k) PROVE Goal
  <2>1. /\ at[k] \in Payments /\ answer[k] \in Answers \ {None} /\ UNCHANGED gate
    BY <1>2, <1>t DEF SettlePoll, TypeOK, gateway
  <2>2. CASE answer[k] = "pending" \/ ~Found(k)
    BY <1>2, <2>2 DEF SettlePoll
  <2>3. CASE answer[k] # "pending" /\ Found(k)
    <3>1. PICK o \in Outcomes :
            /\ Outcome(at[k], o)
            /\ o = "paid" <=> answer[k] = "paid"
      BY <1>2, <2>3 DEF SettlePoll, Outcomes
    <3>2. SettlesWith(at[k], o)
      <4>1. answer[k] = "error" => Blind(at[k])
        BY <1>2, <1>t, <2>1 DEF Blind, SettlePoll, Leave, TypeOK
      <4> QED
        BY <2>1, <2>3, <3>1, <4>1 DEF SettlesWith, IInv, Informed, Answers, Outcomes
    <3> QED
      BY <2>1, <3>2
  <2> QED
    BY <2>2, <2>3
<1>3. ASSUME NEW k \in Jobs, SettleExpiry(k) PROVE Goal
  <2>1. /\ at[k] \in Payments /\ UNCHANGED gate
    BY <1>3, <1>t DEF SettleExpiry, TypeOK, gateway
  <2>2. CASE answer[k] = "paid"
    <3>1. Outcome(at[k], "paid")
      BY <1>3, <2>2 DEF SettleExpiry
    <3>2. SettlesWith(at[k], "paid")
      BY <2>2, <3>1 DEF SettlesWith, IInv, Informed
    <3> QED
      BY <2>1, <3>2 DEF Outcomes
  <2>3. CASE answer[k] = "failed"
    BY <1>3, <2>1, <2>3 DEF SettleExpiry, Expires, IInv, Informed
  <2>4. CASE answer[k] \notin {"paid", "failed"}
    BY <1>3, <2>4 DEF SettleExpiry
  <2> QED
    BY <2>2, <2>3, <2>4
<1>4. ASSUME UNCHANGED <<pay, emitted>> PROVE Goal
  BY <1>4
<1> HIDE DEF Goal
<1>5. Gateway => UNCHANGED <<pay, emitted>>
  BY DEF Gateway, Verdict, NotifyPending, GiveUp, row
<1>6. ASSUME NEW h \in Handlers, Claim(h) \/ Correlate(h) \/ FailWebhook(h)
                                 \/ \E m \in unacked : Receive(h, m)
      PROVE UNCHANGED <<pay, emitted>>
  BY <1>6 DEF Claim, Correlate, FailWebhook, Receive, row
<1>7. ASSUME NEW k \in Jobs, ListPending(k) \/ Confirm(k) \/ Recover(k) \/ Query(k) \/ FailJob(k)
      PROVE UNCHANGED <<pay, emitted>>
  BY <1>7 DEF ListPending, Confirm, Recover, Query, FailJob, StartJob, row
<1>8. Goal
  BY <1>1, <1>2, <1>3, <1>4, <1>5, <1>6, <1>7 DEF Next, Webhook, JobStep
<1> QED
  BY <1>8 DEF Goal

\* The status and its event change together.
LEMMA OneOutcomeStep == IInv /\ [Next]_vars => OneOutcome'
<1> SUFFICES ASSUME IInv, [Next]_vars PROVE OneOutcome'
  OBVIOUS
<1> USE DEF OneOutcome
<1>t. TypeOK /\ OneOutcome
  BY DEF IInv
<1>1. CASE UNCHANGED <<pay, emitted>>
  BY <1>t, <1>1
<1>2. ASSUME NEW p \in Payments, NEW o \in Outcomes, SettlesWith(p, o) PROVE OneOutcome'
  <2>1. CASE pay[p] \in FINAL_STATES
    BY <1>2, <1>t, <2>1 DEF SettlesWith, Outcome
  <2>2. CASE pay[p] \notin FINAL_STATES
    <3>1. pay' = [pay EXCEPT ![p] = o]
      BY <1>2, <2>2 DEF SettlesWith, Outcome
    <3>2. emitted' = [emitted EXCEPT ![p] = [emitted[p] EXCEPT ![o] = emitted[p][o] + 1]]
      BY <1>2, <2>2 DEF SettlesWith, Outcome
    <3>3. \A x \in Outcomes : emitted[p][x] = 0
      BY <1>t, <2>2 DEF Outcomes, FINAL_STATES
    <3> QED
      BY <1>t, <3>1, <3>2, <3>3 DEF TypeOK, Outcomes, FINAL_STATES
  <2> QED
    BY <2>1, <2>2
<1>3. ASSUME NEW p \in Payments, Expires(p) PROVE OneOutcome'
  <2>1. \A q \in Payments : \A x \in Outcomes : emitted'[q][x] = emitted[q][x]
    BY <1>3, <1>t DEF Expires, TypeOK, Outcomes, FINAL_STATES
  <2>2. \A q \in Payments : \A x \in Outcomes : pay'[q] = x <=> pay[q] = x
    BY <1>3, <1>t DEF Expires, TypeOK, Outcomes, FINAL_STATES
  <2> QED
    BY <1>t, <2>1, <2>2
<1>4. CASE UNCHANGED vars
  BY <1>t, <1>4 DEF vars
<1> QED
  BY <1>1, <1>2, <1>3, <1>4, RowStep

-------------------------------------------------------------------------------
\* A verdict stays, so everything that was true of a payment stays true.
LEMMA VerdictsAreFinal ==
  ASSUME TypeOK, [Next]_vars, NEW p \in Payments
  PROVE  gate[p] # "open" => gate'[p] = gate[p]
<1>1. ASSUME NEW q \in Payments, NEW o \in Outcomes, Verdict(q, o)
      PROVE gate[p] # "open" => gate'[p] = gate[p]
  BY <1>1 DEF Verdict, TypeOK
<1>2. ASSUME UNCHANGED gate PROVE gate[p] # "open" => gate'[p] = gate[p]
  BY <1>2
<1>3. \/ UNCHANGED gate
      \/ \E q \in Payments, o \in Outcomes : Verdict(q, o)
  BY DEF Next, Gateway, NotifyPending, GiveUp, Webhook, JobStep, Claim, Correlate,
         SettleWebhook, FailWebhook, Receive, ListPending, Confirm, Recover, StartJob,
         Query, SettlePoll, SettleExpiry, FailJob, gateway, vars
<1> QED
  BY <1>1, <1>2, <1>3

LEMMA StillTrue ==
  ASSUME TypeOK, [Next]_vars, NEW m \in Notifications, MessageTrue(m, gate)
  PROVE  MessageTrue(m, gate')
  BY VerdictsAreFinal, NotificationFacts DEF MessageTrue

\* What is under way stays well informed.
LEMMA InformedStep == TypeOK /\ ~Fallback /\ Informed /\ [Next]_vars => Informed'
<1> SUFFICES ASSUME TypeOK, ~Fallback, Informed, [Next]_vars PROVE Informed'
  OBVIOUS
<1> DEFINE Mail(u, hk, ms) ==
      /\ \A m \in u : m \in unacked
      /\ \A h \in Handlers : hk[h] # "idle" => \/ hook[h] # "idle" /\ ms[h] = msg[h]
                                               \/ ms[h] \in unacked
      /\ \A h \in Handlers : hk[h] = "settle" => ms[h][2] \in Outcomes
<1> DEFINE Polled == \A k \in Jobs :
      \/ answer'[k] = answer[k] /\ at'[k] = at[k]
      \/ answer'[k] = None
      \/ at'[k] \in Payments /\ answer'[k] \in {Truth(at'[k]), "error"}
<1>1. ASSUME Mail(unacked', hook', msg') PROVE
        /\ \A m \in unacked' : MessageTrue(m, gate')
        /\ \A h \in Handlers : hook'[h] # "idle" => MessageTrue(msg'[h], gate')
        /\ \A h \in Handlers : hook'[h] = "settle" => msg'[h][2] \in Outcomes
  <2>1. \A m \in unacked : MessageTrue(m, gate') /\ m \in Notifications
    BY StillTrue DEF TypeOK, Informed
  <2>2. \A h \in Handlers : hook[h] # "idle" => MessageTrue(msg[h], gate')
    BY StillTrue DEF TypeOK, Informed
  <2>3. ASSUME NEW h \in Handlers, hook'[h] # "idle" PROVE MessageTrue(msg'[h], gate')
    <3>1. CASE hook[h] # "idle" /\ msg'[h] = msg[h]
      BY <2>2, <3>1 DEF MessageTrue
    <3>2. CASE msg'[h] \in unacked
      BY <2>1, <3>2 DEF MessageTrue
    <3> QED
      BY <1>1, <2>3, <3>1, <3>2
  <2> QED
    BY <1>1, <2>1, <2>3
<1>2. ASSUME Polled PROVE
        /\ \A k \in Jobs : answer'[k] = "paid" => gate'[at'[k]] = "captured"
        /\ \A k \in Jobs : answer'[k] = "failed" => gate'[at'[k]] = "declined"
  <2> SUFFICES ASSUME NEW k \in Jobs
               PROVE  /\ answer'[k] = "paid" => gate'[at'[k]] = "captured"
                      /\ answer'[k] = "failed" => gate'[at'[k]] = "declined"
    OBVIOUS
  <2>1. CASE answer'[k] = answer[k] /\ at'[k] = at[k]
    <3>1. answer[k] \in {"paid", "failed"} => at[k] \in Payments
      BY DEF TypeOK, None
    <3> QED
      BY <2>1, <3>1, VerdictsAreFinal DEF Informed
  <2>2. CASE answer'[k] = None
    BY <2>2 DEF None
  <2>3. CASE at'[k] \in Payments /\ answer'[k] \in {Truth(at'[k]), "error"}
    BY <2>3, TruthFacts, VerdictsAreFinal
  <2> QED
    BY <1>2, <2>1, <2>2, <2>3
<1> HIDE DEF Mail, Polled
<1>3. ASSUME UNCHANGED <<hook, msg>>, unacked' \subseteq unacked PROVE Mail(unacked', hook', msg')
  BY <1>3 DEF Mail, Informed
<1>4. ASSUME UNCHANGED polls PROVE Polled
  BY <1>4 DEF Polled, polls
<1>5. ASSUME NEW p \in Payments, NEW o \in Outcomes, Verdict(p, o) PROVE Informed'
  <2>1. /\ UNCHANGED <<hook, msg, polls>>
        /\ unacked' = unacked \cup {<<p, o>>}
        /\ gate' = [gate EXCEPT ![p] = IF o = "paid" THEN "captured" ELSE "declined"]
    BY <1>5 DEF Verdict, hooks
  <2>2. MessageTrue(<<p, o>>, gate')
    BY <2>1 DEF MessageTrue, TypeOK, Outcomes
  <2>3. \A m \in unacked : MessageTrue(m, gate')
    BY StillTrue DEF TypeOK, Informed
  <2>4. \A h \in Handlers : hook[h] # "idle" => MessageTrue(msg[h], gate')
    BY StillTrue DEF TypeOK, Informed
  <2>5. \A h \in Handlers : hook'[h] # "idle" => MessageTrue(msg'[h], gate')
    BY <2>1, <2>4 DEF MessageTrue
  <2> QED
    BY <1>2, <1>4, <2>1, <2>2, <2>3, <2>5 DEF Informed
<1>6. ASSUME NEW p \in Payments, NotifyPending(p) PROVE Informed'
  <2>1. /\ UNCHANGED <<hook, msg, polls>> /\ unacked' = unacked \cup {<<p, "pending">>}
    BY <1>6 DEF NotifyPending, hooks
  <2>2. MessageTrue(<<p, "pending">>, gate')
    BY DEF MessageTrue
  <2>3. \A m \in unacked : MessageTrue(m, gate')
    BY StillTrue DEF TypeOK, Informed
  <2>4. \A h \in Handlers : hook[h] # "idle" => MessageTrue(msg[h], gate')
    BY StillTrue DEF TypeOK, Informed
  <2>5. \A h \in Handlers : hook'[h] # "idle" => MessageTrue(msg'[h], gate')
    BY <2>1, <2>4 DEF MessageTrue
  <2> QED
    BY <1>2, <1>4, <2>1, <2>2, <2>3, <2>5 DEF Informed
<1>7. ASSUME Mail(unacked', hook', msg'), Polled PROVE Informed'
  BY <1>1, <1>2, <1>7 DEF Informed
<1>8. ASSUME NEW m \in unacked, GiveUp(m) PROVE Informed'
  BY <1>3, <1>4, <1>7, <1>8 DEF GiveUp, hooks
<1>9. ASSUME NEW h \in Handlers, NEW m \in unacked, Receive(h, m) PROVE Informed'
  <2>1. Mail(unacked', hook', msg')
    <3>1. CASE UNCHANGED <<hook, msg>> /\ unacked' = unacked \ {m}
      BY <3>1 DEF Mail, Informed
    <3>2. ASSUME NEW l \in {"claim", "correlate"}, HookStarts(h, m, l), UNCHANGED unacked
          PROVE Mail(unacked', hook', msg')
      <4>1. msg'[h] = m /\ hook'[h] = l /\ l # "settle"
        BY <3>2 DEF HookStarts, TypeOK
      <4>2. \A g \in Handlers \ {h} : hook'[g] = hook[g] /\ msg'[g] = msg[g]
        BY <3>2 DEF HookStarts, TypeOK
      <4> QED
        BY <3>2, <4>1, <4>2 DEF Mail, Informed
    <3> QED
      BY <1>9, <3>1, <3>2 DEF Receive
  <2> QED
    BY <1>4, <1>7, <1>9, <2>1 DEF Receive
<1>10. ASSUME NEW h \in Handlers, Claim(h) PROVE Informed'
  <2>1. Mail(unacked', hook', msg')
    BY <1>10 DEF Claim, HookGoto, Mail, Informed, TypeOK, gateway
  <2> QED
    BY <1>4, <1>7, <1>10, <2>1 DEF Claim
<1>11. ASSUME NEW h \in Handlers, Correlate(h) PROVE Informed'
  <2>1. CASE msg[h][2] = "pending"
    <3>1. Acknowledge(h) /\ UNCHANGED polls
      BY <1>11, <2>1 DEF Correlate
    <3>2. Mail(unacked', hook', msg')
      BY <3>1 DEF Acknowledge, HookEnds, Mail, Informed, TypeOK
    <3> QED
      BY <1>4, <1>7, <3>1, <3>2
  <2>2. CASE msg[h][2] # "pending"
    <3>1. HookGoto(h, "settle") /\ hook[h] = "correlate" /\ UNCHANGED <<unacked, polls>>
      BY <1>11, <2>2 DEF Correlate
    <3>2. msg[h][2] \in Outcomes
      BY <2>2, <3>1, NotificationFacts DEF TypeOK
    <3>3. Mail(unacked', hook', msg')
      BY <3>1, <3>2 DEF HookGoto, Mail, Informed, TypeOK
    <3> QED
      BY <1>4, <1>7, <3>1, <3>3
  <2> QED
    BY <2>1, <2>2
<1>12. ASSUME NEW h \in Handlers, SettleWebhook(h) PROVE Informed'
  <2>1. Mail(unacked', hook', msg')
    BY <1>12 DEF SettleWebhook, Acknowledge, HookEnds, Mail, Informed, TypeOK
  <2> QED
    BY <1>4, <1>7, <1>12, <2>1 DEF SettleWebhook
<1>13. ASSUME NEW h \in Handlers, FailWebhook(h) PROVE Informed'
  <2>1. Mail(unacked', hook', msg')
    BY <1>13 DEF FailWebhook, HookEnds, Mail, Informed, TypeOK, gateway
  <2> QED
    BY <1>4, <1>7, <1>13, <2>1 DEF FailWebhook
<1>14. ASSUME UNCHANGED <<gateway, hooks>>, Polled PROVE Informed'
  BY <1>3, <1>7, <1>14 DEF gateway, hooks
<1>15. ASSUME NEW k \in Jobs, NEW ps \in SUBSET Payments, StartJob(k, ps) PROVE Informed'
  <2>1. Polled
    BY <1>15 DEF StartJob, Polled
  <2> QED
    BY <1>14, <1>15, <2>1 DEF StartJob
<1>16. ASSUME NEW k \in Jobs, Query(k) PROVE Informed'
  <2>1. Polled
    BY <1>16 DEF Query, Polled, TypeOK
  <2> QED
    BY <1>14, <1>16, <2>1 DEF Query
<1>17. ASSUME NEW k \in Jobs, SettlePoll(k) \/ SettleExpiry(k) \/ FailJob(k) PROVE Informed'
  <2>1. Polled
    BY <1>17 DEF SettlePoll, SettleExpiry, FailJob, Leave, Polled, TypeOK
  <2> QED
    BY <1>14, <1>17, <2>1 DEF SettlePoll, SettleExpiry, FailJob
<1>18. CASE UNCHANGED vars
  BY <1>3, <1>4, <1>7, <1>18 DEF vars, polls
<1> QED
  BY <1>5, <1>6, <1>8, <1>9, <1>10, <1>11, <1>12, <1>13, <1>15, <1>16, <1>17, <1>18
     DEF Next, Gateway, Webhook, JobStep, ListPending, Confirm, Recover

-------------------------------------------------------------------------------
\* What is booked is what the gateway said.
LEMMA BookedStep ==
  ASSUME IInv, [Next]_vars, ~Fallback
  PROVE  /\ PaidWasCaptured'
         /\ NoExpiryOfCaptured'
<1> DEFINE Goal == /\ PaidWasCaptured'
                   /\ NoExpiryOfCaptured'
<1> USE DEF PaidWasCaptured, NoExpiryOfCaptured
<1>t. TypeOK /\ PaidWasCaptured /\ NoExpiryOfCaptured
  BY DEF IInv
<1>1. ASSUME UNCHANGED <<pay, emitted>> PROVE Goal
  BY <1>t, <1>1, VerdictsAreFinal
<1>2. ASSUME UNCHANGED gate, NEW p \in Payments, NEW o \in Outcomes, SettlesWith(p, o)
      PROVE Goal
  <2>1. CASE pay[p] \in FINAL_STATES
    BY <1>t, <1>2, <2>1 DEF SettlesWith, Outcome
  <2>2. CASE pay[p] \notin FINAL_STATES
    <3>1. pay' = [pay EXCEPT ![p] = o]
      BY <1>2, <2>2 DEF SettlesWith, Outcome
    <3>2. emitted' = [emitted EXCEPT ![p] = [emitted[p] EXCEPT ![o] = emitted[p][o] + 1]]
      BY <1>2, <2>2 DEF SettlesWith, Outcome
    <3>3. \A q \in Payments : emitted'[q]["expired"] = emitted[q]["expired"]
      BY <1>t, <3>2 DEF TypeOK, Outcomes, FINAL_STATES
    <3> QED
      BY <1>t, <1>2, <3>1, <3>3 DEF SettlesWith, TypeOK, Outcomes
  <2> QED
    BY <2>1, <2>2
<1>3. ASSUME UNCHANGED gate, NEW p \in Payments, Expires(p) PROVE Goal
  <2>1. \A q \in Payments \ {p} : emitted'[q] = emitted[q] /\ pay'[q] = pay[q]
    BY <1>t, <1>3 DEF Expires, TypeOK
  <2>2. pay'[p] \in {pay[p], "expired"} /\ gate'[p] = "declined"
    BY <1>t, <1>3 DEF Expires, TypeOK
  <2> QED
    BY <1>t, <1>3, <2>1, <2>2
<1>4. CASE UNCHANGED vars
  BY <1>1, <1>4 DEF vars
<1> QED
  BY <1>1, <1>2, <1>3, <1>4, RowStep

LEMMA NextInv == IInv /\ [Next]_vars => IInv'
  BY TypeStep, OneOutcomeStep, InformedStep, BookedStep DEF IInv

THEOREM IInvHolds == Spec => []IInv
<1>1. Init => IInv
  BY InitInv
<1>2. IInv /\ [Next]_vars => IInv'
  BY NextInv
<1> QED
  BY <1>1, <1>2, PTL DEF Spec

\* The rows, webhooks and jobs keep their types.
THEOREM TypeCorrect == Spec => []TypeOK
<1>1. IInv => TypeOK
  BY DEF IInv
<1> QED
  BY <1>1, IInvHolds, PTL

\* The status of a row and the outcome events it published agree, under
\* duplicated and lost webhooks, concurrent jobs, errors and crashes.
THEOREM OneOutcomeHolds == Spec => []OneOutcome
<1>1. IInv => OneOutcome
  BY DEF IInv
<1> QED
  BY <1>1, IInvHolds, PTL

\* If the gateway answers for the payment it is asked about, a paid row was
\* captured, even when the gateway is unreachable for a while.
THEOREM PaidWasCapturedHolds == ~Fallback => (Spec => []PaidWasCaptured)
<1> SUFFICES ASSUME ~Fallback PROVE Spec => []PaidWasCaptured
  OBVIOUS
<1>1. IInv => PaidWasCaptured
  BY DEF IInv
<1> QED
  BY <1>1, IInvHolds, PTL

\* Under the same assumption no payment that may have been captured is expired,
\* nor announced as expired to the listeners.
THEOREM NoExpiryOfCapturedHolds == ~Fallback => (Spec => []NoExpiryOfCaptured)
<1> SUFFICES ASSUME ~Fallback PROVE Spec => []NoExpiryOfCaptured
  OBVIOUS
<1>1. IInv => NoExpiryOfCaptured
  BY DEF IInv
<1> QED
  BY <1>1, IInvHolds, PTL

\* Under the same assumption a row fails only by a refusal of the gateway, or by
\* a job other than the expiry that could not reach it.
THEOREM FailedWasDeclinedHolds == ~Fallback => (Spec => FailedWasDeclined)
<1> SUFFICES ASSUME ~Fallback PROVE Spec => FailedWasDeclined
  OBVIOUS
<1> DEFINE Why == \A p \in Payments :
                    pay[p] # "failed" /\ pay'[p] = "failed" => gate[p] = "declined" \/ Blind(p)
<1>1. ASSUME IInv, [Next]_vars PROVE Why
  <2>t. TypeOK
    BY <1>1 DEF IInv
  <2>1. CASE UNCHANGED <<pay, emitted>>
    BY <2>1
  <2>2. ASSUME NEW p \in Payments, NEW o \in Outcomes, SettlesWith(p, o) PROVE Why
    <3>1. \A q \in Payments : q # p => pay'[q] = pay[q]
      BY <2>2, <2>t DEF SettlesWith, Outcome, TypeOK
    <3>2. pay'[p] = pay[p] \/ pay'[p] = o
      BY <2>2, <2>t DEF SettlesWith, Outcome, TypeOK
    <3> QED
      BY <2>2, <3>1, <3>2 DEF SettlesWith
  <2>3. ASSUME NEW p \in Payments, Expires(p) PROVE Why
    BY <2>3, <2>t DEF Expires, TypeOK
  <2>4. CASE UNCHANGED vars
    BY <2>4 DEF vars
  <2> HIDE DEF Why
  <2> QED
    BY <1>1, <2>1, <2>2, <2>3, <2>4, RowStep
<1>2. IInv /\ [Next]_vars =>
        [\A p \in Payments :
           pay[p] # "failed" /\ pay'[p] = "failed" =>
             \/ gate[p] = "declined"
             \/ \E k \in Jobs :
                  Kind[k] # "expiry" /\ at[k] = p /\ answer[k] = "error" /\ at'[k] = None]_vars
  BY <1>1 DEF Blind
<1> QED
  BY <1>2, IInvHolds, PTL DEF Spec, FailedWasDeclined

\* No late webhook, job or confirmation replaces a final status.
THEOREM FinalIsFinalHolds == Spec => FinalIsFinal
<1> DEFINE Kept == \A p \in Payments : pay[p] \in FINAL_STATES => pay'[p] = pay[p]
<1>1. ASSUME IInv, [Next]_vars PROVE Kept
  <2>t. TypeOK
    BY <1>1 DEF IInv
  <2>1. CASE UNCHANGED <<pay, emitted>>
    BY <2>1
  <2>2. ASSUME NEW p \in Payments, NEW o \in Outcomes, SettlesWith(p, o) PROVE Kept
    BY <2>2, <2>t DEF SettlesWith, Outcome, TypeOK
  <2>3. ASSUME NEW p \in Payments, Expires(p) PROVE Kept
    BY <2>3, <2>t DEF Expires, TypeOK
  <2>4. CASE UNCHANGED vars
    BY <2>4 DEF vars
  <2> QED
    BY <1>1, <2>1, <2>2, <2>3, <2>4, RowStep
<1>2. IInv /\ [Next]_vars => [Kept]_vars
  BY <1>1
<1> QED
  BY <1>2, IInvHolds, PTL DEF Spec, FinalIsFinal

-------------------------------------------------------------------------------
\* A step settles one pending row, publishes one more expiry, or is a stutter
\* of the abstract payment.
LEMMA AbstractStep ==
  ASSUME IInv, [Next]_vars, ~Fallback
  PROVE  [Abstract!Next]_<<pay, emitted>>
<1>t. TypeOK /\ PaidWasCaptured
  BY DEF IInv
<1>1. CASE UNCHANGED <<pay, emitted>>
  BY <1>1
<1>2. ASSUME NEW p \in Payments, NEW o \in Outcomes, SettlesWith(p, o)
      PROVE [Abstract!Next]_<<pay, emitted>>
  <2>1. CASE pay[p] \in FINAL_STATES
    BY <1>2, <2>1 DEF SettlesWith, Outcome
  <2>2. CASE pay[p] \notin FINAL_STATES
    <3>1. pay[p] = "pending" /\ o \in Abstract!Finals
      BY <1>t, <2>2 DEF TypeOK, Statuses, Outcomes, Abstract!Finals, Abstract!Outcomes
    <3>2. Abstract!Settle(p, o)
      BY <1>2, <2>2, <3>1 DEF SettlesWith, Outcome, Abstract!Settle, Abstract!Publish
    <3> QED
      BY <3>1, <3>2 DEF Abstract!Next
  <2> QED
    BY <2>1, <2>2
<1>3. ASSUME NEW p \in Payments, Expires(p) PROVE [Abstract!Next]_<<pay, emitted>>
  <2>1. emitted' = [emitted EXCEPT ![p]["expired"] = @ + 1]
    BY <1>3 DEF Expires
  <2>2. CASE pay[p] \in FINAL_STATES
    <3>1. pay[p] \in {"failed", "expired"} /\ UNCHANGED pay
      BY <1>3, <1>t, <2>2 DEF Expires, PaidWasCaptured, FINAL_STATES
    <3>2. Abstract!AnnounceExpiry(p)
      BY <2>1, <3>1 DEF Abstract!AnnounceExpiry, Abstract!Publish
    <3> QED
      BY <3>2 DEF Abstract!Next
  <2>3. CASE pay[p] \notin FINAL_STATES
    <3>1. pay[p] = "pending" /\ pay' = [pay EXCEPT ![p] = "expired"]
      BY <1>3, <1>t, <2>3 DEF Expires, TypeOK, Statuses
    <3>2. Abstract!Settle(p, "expired")
      BY <2>1, <3>1 DEF Abstract!Settle, Abstract!Publish
    <3> QED
      BY <3>2 DEF Abstract!Next, Abstract!Finals
  <2> QED
    BY <2>2, <2>3
<1>4. CASE UNCHANGED vars
  BY <1>4 DEF vars
<1> QED
  BY <1>1, <1>2, <1>3, <1>4, RowStep

\* Whatever webhooks, jobs and confirmations do, the listeners of the payment
\* events see the abstract payment: settled once, never contradicted.
THEOREM ImplementsOutcome == ~Fallback => (Spec => Refines)
<1> SUFFICES ASSUME ~Fallback PROVE Spec => Refines
  OBVIOUS
<1>1. Init => Abstract!Init
  BY DEF Init, Abstract!Init, FINAL_STATES, Abstract!Finals, Abstract!Outcomes
<1>2. IInv /\ [Next]_vars => [Abstract!Next]_<<pay, emitted>>
  BY AbstractStep
<1> QED
  BY <1>1, <1>2, IInvHolds, PTL DEF Spec, Refines, Abstract!Spec
=============================================================================
