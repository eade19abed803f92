------------------------ MODULE EventDeliveryProofs ------------------------
(***************************************************************************)
(* Proofs about EventDelivery, for any number of transactions, events,     *)
(* queues, workers and polls.                                              *)
(***************************************************************************)
EXTENDS EventDelivery, FiniteSetTheorems, TLAPS

\* What splice leaves and takes are sequences of the list's elements.
LEMMA SpliceType ==
    ASSUME hooks \in Seq(Event), mark \in [Tx -> Nat], NEW t \in Tx
    PROVE  Kept(t) \in Seq(Event) /\ Spliced(t) \in Seq(Event)
  BY SMT DEF Kept, Spliced

\* Adding a job keeps the jobs of a queue jobs, and touches no other event.
LEMMA AddedJobs ==
    ASSUME NEW jobs \in [Event -> Job], NEW e \in Event
    PROVE  /\ Added(jobs, e) \in [Event -> Job]
           /\ \A x \in Event \ {e} : Added(jobs, e)[x] = jobs[x]
           /\ jobs[e].st # "none" => Added(jobs, e)[e] = jobs[e]
           /\ jobs[e].st = "none" => Added(jobs, e)[e] = [NoJob EXCEPT !.st = "waiting"]
  BY SMT DEF Added, Job, NoJob, JobState

\* A job with other fields is a job with those fields.
LEMMA LockedJob ==
    ASSUME NEW j \in Job, NEW s \in JobState, NEW k \in Worker \cup {NoWorker}
    PROVE  LET a == [j EXCEPT !.st = s, !.lock = k]
           IN  a \in Job /\ a.st = s /\ a.lock = k
  BY Zenon DEF Job

LEMMA RetriedJob ==
    ASSUME NEW j \in Job, NEW s \in JobState, NEW n \in Nat, NEW k \in Worker \cup {NoWorker}
    PROVE  LET a == [j EXCEPT !.st = s, !.tries = n, !.lock = k]
           IN  a \in Job /\ a.st = s /\ a.lock = k
  BY Zenon DEF Job

LEMMA StalledJob ==
    ASSUME NEW j \in Job, NEW s \in JobState
    PROVE  LET a == [j EXCEPT !.st = s, !.stalled = @ + 1]
           IN  a \in Job /\ a.st = s /\ a.lock = j.lock
<1>1. j.stalled + 1 \in Nat BY SMT DEF Job
<1> QED BY <1>1, Zenon DEF Job

\* Replacing one job keeps the table of jobs one, and touches no other job.
LEMMA BecameJobs ==
    ASSUME QueueType, NEW q \in Queue, NEW e \in Event, NEW j \in Job
    PROVE  /\ Became(q, e, j) \in [Queue -> [Event -> Job]]
           /\ \A x \in Queue, y \in Event :
                 Became(q, e, j)[x][y] = IF x = q /\ y = e THEN j ELSE job[x][y]
  BY DEF Became, QueueType

\* The same for a job that its worker ends, if it still holds the lock.
LEMMA EndedJobs ==
    ASSUME QueueType, NEW w \in Worker, NEW q \in Queue, NEW e \in Event, NEW j \in Job
    PROVE  /\ Ended(w, q, e, j) \in [Queue -> [Event -> Job]]
           /\ \A x \in Queue, y \in Event :
                 x # q \/ y # e => Ended(w, q, e, j)[x][y] = job[x][y]
<1>1. CASE job[q][e].lock = w
  <2>1. Ended(w, q, e, j) = Became(q, e, j) BY <1>1 DEF Ended
  <2> QED BY <1>1, <2>1, BecameJobs
<1>2. CASE job[q][e].lock # w BY <1>2 DEF Ended, QueueType
<1> QED BY <1>1, <1>2

\* The job of an event whose jobs were added: new, or as it was.
LEMMA AddedJob ==
    ASSUME NEW jobs \in [Event -> Job], NEW e \in Event, NEW x \in Event
    PROVE  \/ Added(jobs, e)[x] = jobs[x]
           \/ x = e /\ jobs[e].st = "none" /\ Added(jobs, e)[e].st = "waiting"
<1>1. [NoJob EXCEPT !.st = "waiting"].st = "waiting" BY DEF NoJob
<1>2. CASE x = e BY <1>1, <1>2, AddedJobs
<1>3. CASE x # e BY <1>3, AddedJobs
<1> QED BY <1>2, <1>3

\* What a worker is at, when it is at something.
LEMMA WorkOf ==
    ASSUME QueueType, NEW w \in Worker, work[w].step \in {"handle", "record"}
    PROVE  work[w].q \in Queue /\ work[w].e \in Event
  BY SMT DEF QueueType, WorkState, NoWork

\* The jobs a hook leaves.
LEMMA EnqueueJobs ==
    ASSUME TypeOK, NEW t \in Tx, Enqueue(t)
    PROVE  /\ Head(flushing[t]) \in Event
           /\ job' \in [Queue -> [Event -> Job]]
           /\ \A q \in Queue : \/ job'[q] = job[q]
                               \/ /\ job'[q] = Added(job[q], Head(flushing[t]))
                                  /\ Head(flushing[t]) \in Subscribed[q]
<1>1. Head(flushing[t]) \in Event
  BY SMT DEF Enqueue, TypeOK, TxType
<1>2. \A q \in Queue : Added(job[q], Head(flushing[t])) \in [Event -> Job]
  BY <1>1, AddedJobs DEF TypeOK, QueueType
<1> QED BY <1>1, <1>2 DEF Enqueue, TypeOK, QueueType

\* The loop of a poll that has a batch.
LEMMA LoopOf ==
    ASSUME PollType, NEW p \in Poll, poll[p].step = "enqueue"
    PROVE  poll[p] \in [step : {"enqueue"}, q : Queue, reached : Nat, batch : SUBSET Event]
  BY SMT DEF PollType, PollState, NoPoll

\* Type correctness of every state.
THEOREM TypeCorrect == Spec => []TypeOK
<1>1. Init => TypeOK
  BY DeliveryAssumption, SMT DEF Init, TypeOK, TxType, RowType, PollType, QueueType, PollState,
     NoPoll, NoJob, NoWork, JobState, Job, WorkState
<1>2. ASSUME TypeOK, [Next]_vars PROVE TypeOK'
  <2>0. TxType /\ RowType /\ PollType /\ QueueType /\ shown \in [Event -> Nat]
        /\ faults \in 0..MaxFaults /\ MaxFaults \in Nat
    BY <1>2, DeliveryAssumption DEF TypeOK
  <2>f. Fault => faults' \in 0..MaxFaults
    BY <2>0, SMT DEF Fault
  <2> USE DEF txVars, rowVars, pollVars, queueVars
  <2>1. ASSUME NEW t \in Tx, TxStep(t) PROVE TypeOK'
    <3> Kept(t) \in Seq(Event) /\ Spliced(t) \in Seq(Event)
      BY <2>0, SpliceType DEF TxType
    <3>1. CASE Begin(t)
      BY <2>0, <3>1, SMT DEF TypeOK, TxType, RowType, PollType, QueueType, Begin
    <3>2. CASE Commit(t)
      BY <2>0, <3>2, SMT DEF TypeOK, TxType, RowType, PollType, QueueType, Commit, Overtaken
    <3>3. CASE Flush(t)
      BY <2>0, <3>3, SMT DEF TypeOK, TxType, RowType, PollType, QueueType, Flush
    <3>4. CASE CommitLost(t)
      BY <2>0, <2>f, <3>4, SMT DEF TypeOK, TxType, RowType, PollType, QueueType, CommitLost, Overtaken
    <3>5. CASE Rollback(t)
      BY <2>0, <3>5, SMT DEF TypeOK, TxType, RowType, PollType, QueueType, Rollback
    <3>6. CASE Enqueue(t)
      <4>1. QueueType' BY <1>2, <2>0, <3>6, EnqueueJobs DEF QueueType, Enqueue
      <4>2. faults' \in 0..MaxFaults BY <2>0, <2>f, <3>6 DEF Enqueue
      <4> QED BY <2>0, <3>6, <4>1, <4>2 DEF TypeOK, TxType, RowType, PollType, Enqueue
    <3>7. CASE Dispatch(t)
      <4>1. CASE flushing[t] # <<>>
        <5>1. Head(flushing[t]) \in Event /\ Tail(flushing[t]) \in Seq(Event)
          BY <2>0, <4>1, SMT DEF TxType
        <5>2. shown' \in [Event -> Nat] BY <2>0, <3>7, <5>1, SMT DEF Dispatch
        <5>3. TxType' BY <2>0, <3>7, <5>1 DEF TxType, Dispatch
        <5> QED BY <2>0, <3>7, <5>2, <5>3 DEF TypeOK, RowType, PollType, QueueType, Dispatch
      <4> QED BY <3>7, <4>1 DEF Dispatch
    <3>8. ASSUME NEW e \in Event, Emit(t, e) PROVE TypeOK'
      BY <2>0, <3>8, SMT DEF TypeOK, TxType, RowType, PollType, QueueType, Emit
    <3> QED BY <2>1, <3>1, <3>2, <3>3, <3>4, <3>5, <3>6, <3>7, <3>8 DEF TxStep
  <2>2. ASSUME NEW e \in Event, EmitAlone(e) PROVE TypeOK'
    BY <2>0, <2>2, SMT DEF TypeOK, TxType, RowType, PollType, QueueType, EmitAlone
  <2>3. ASSUME NEW p \in Poll, PollStep(p) PROVE TypeOK'
    <3>1. ASSUME NEW q \in Queue, ReadCursor(p, q) PROVE TypeOK'
      BY <2>0, <3>1, SMT DEF TypeOK, TxType, RowType, PollType, QueueType, ReadCursor, PollState
    <3>2. CASE Select(p)
      <4>1. poll[p] \in [step : {"select"}, q : Queue, from : Nat]
        BY <2>0, <3>2, SMT DEF PollType, PollState, NoPoll, Select
      <4>2. Selected(poll[p].from) \subseteq Event BY DEF Selected
      <4>3. Passing(poll[p], poll[p].from, Selected(poll[p].from)) \in PollState /\ NoPoll \in PollState
        BY <4>1, <4>2 DEF Passing, PollState
      <4>4. PollType' BY <2>0, <3>2, <4>3 DEF PollType, Select
      <4> QED BY <2>0, <3>2, <4>4 DEF TypeOK, TxType, RowType, QueueType, Select
    <3>l. poll[p].step = "enqueue" =>
             poll[p] \in [step : {"enqueue"}, q : Queue, reached : Nat, batch : SUBSET Event]
      BY <2>0, LoopOf
    <3>3. CASE Recover(p)
      <4>1. PICK e \in poll[p].batch :
              /\ poll' = [poll EXCEPT ![p] = Passing(@, id[e], @.batch \ {e})]
              /\ job' = IF e \in Subscribed[poll[p].q]
                        THEN [job EXCEPT ![poll[p].q] = Added(@, e)] ELSE job
        BY <3>3 DEF Recover
      <4>2. poll[p].q \in Queue /\ e \in Event
        BY <3>3, <3>l, <4>1 DEF Recover
      <4>3. Added(job[poll[p].q], e) \in [Event -> Job]
        BY <2>0, <4>2, AddedJobs DEF QueueType
      <4>4. QueueType' BY <2>0, <3>3, <4>1, <4>3 DEF QueueType, Recover
      <4>5. PollType'
        BY <2>0, <3>3, <3>l, <4>1, <4>2, SMT DEF PollType, PollState, Passing, Recover, RowType
      <4> QED BY <2>0, <3>3, <4>4, <4>5 DEF TypeOK, TxType, RowType, Recover
    <3>4. CASE Break(p)
      <4>1. PollType'
        BY <2>0, <3>4, <3>l, SMT DEF PollType, PollState, Passing, Break
      <4> QED BY <2>0, <2>f, <3>4, <4>1 DEF TypeOK, TxType, RowType, QueueType, Break
    <3>5. CASE SaveCursor(p)
      <4>1. PollType'
        BY <2>0, <3>5, <3>l, SMT DEF PollType, PollState, NoPoll, SaveCursor
      <4> QED BY <2>0, <3>5, <4>1 DEF TypeOK, TxType, RowType, QueueType, SaveCursor
    <3> QED BY <2>3, <3>1, <3>2, <3>3, <3>4, <3>5 DEF PollStep
  <2>4. ASSUME NEW q \in Queue, NEW e \in Event, JobStep(q, e) PROVE TypeOK'
    <3>b. \A j \in Job : Became(q, e, j) \in [Queue -> [Event -> Job]]
      BY <2>0, BecameJobs
    <3>j. job[q][e] \in Job BY <2>0 DEF QueueType
    <3>1. CASE LoseLock(q, e)
      <4>1. [job[q][e] EXCEPT !.lock = NoWorker] \in Job BY <3>j, SMT DEF Job
      <4> QED BY <2>0, <2>f, <3>1, <3>b, <4>1 DEF TypeOK, TxType, RowType, PollType, QueueType, LoseLock
    <3>2. CASE Stalled(q, e)
      <4>1. \A x \in JobState : [job[q][e] EXCEPT !.st = x, !.stalled = @ + 1] \in Job
        BY <3>j, StalledJob
      <4> QED BY <2>0, <3>2, <3>b, <4>1 DEF TypeOK, TxType, RowType, PollType, QueueType, Stalled, JobState
    <3>3. CASE Forget(q, e)
      <4>1. NoJob \in Job BY SMT DEF Job, NoJob, JobState
      <4> QED BY <2>0, <3>3, <3>b, <4>1 DEF TypeOK, TxType, RowType, PollType, QueueType, Forget
    <3>4. ASSUME NEW w \in Worker, Take(w, q, e) PROVE TypeOK'
      <4>1. /\ [job[q][e] EXCEPT !.st = "done"] \in Job
            /\ [job[q][e] EXCEPT !.st = "active", !.lock = w] \in Job
        <5>1. [job[q][e] EXCEPT !.st = "done"] \in Job BY <3>j, SMT DEF Job, JobState
        <5> QED BY <3>j, <5>1, LockedJob DEF JobState
      <4>2. [work EXCEPT ![w] = [step |-> "handle", q |-> q, e |-> e]] \in [Worker -> WorkState]
        BY <2>0, SMT DEF QueueType, WorkState
      <4> QED BY <2>0, <3>4, <3>b, <4>1, <4>2 DEF TypeOK, TxType, RowType, PollType, QueueType, Take
    <3> QED BY <2>4, <3>1, <3>2, <3>3, <3>4 DEF JobStep
  <2>5. ASSUME NEW w \in Worker, Handle(w) \/ Record(w) \/ Throw(w) PROVE TypeOK'
    <3> DEFINE q == work[w].q
               e == work[w].e
    <3>0. q \in Queue /\ e \in Event
      BY <2>0, <2>5, WorkOf DEF Handle, Record, Throw
    <3>w. [work EXCEPT ![w] = NoWork] \in [Worker -> WorkState]
      BY <2>0 DEF QueueType, WorkState
    <3>j. job[q][e] \in Job BY <2>0, <3>0 DEF QueueType
    <3>b. \A j \in Job : Ended(w, q, e, j) \in [Queue -> [Event -> Job]]
      BY <2>0, <3>0, EndedJobs
    <3>1. CASE Handle(w)
      <4>1. [work EXCEPT ![w] = [step |-> "record", q |-> q, e |-> e]] \in [Worker -> WorkState]
        BY <2>0, <3>0, SMT DEF QueueType, WorkState
      <4>2. handled' \in [Queue -> [Event -> Nat]]
        BY <2>0, <3>0, <3>1, SMT DEF QueueType, Handle
      <4> QED BY <2>0, <3>1, <4>1, <4>2 DEF TypeOK, TxType, RowType, PollType, QueueType, Handle
    <3>2. CASE Record(w)
      <4>1. [job[q][e] EXCEPT !.st = "done", !.lock = NoWorker] \in Job
        BY <3>j, LockedJob DEF JobState
      <4>2. processed' \in [Queue -> SUBSET Event]
        BY <2>0, <3>0, <3>2 DEF QueueType, Record
      <4> QED BY <2>0, <3>2, <3>w, <3>b, <4>1, <4>2 DEF TypeOK, TxType, RowType, PollType, QueueType, Record
    <3>3. CASE Throw(w)
      <4>1. \A x \in JobState :
              [job[q][e] EXCEPT !.st = x, !.tries = job[q][e].tries + 1, !.lock = NoWorker] \in Job
        <5>1. job[q][e].tries + 1 \in Nat BY <3>j, SMT DEF Job
        <5> QED BY <3>j, <5>1, RetriedJob
      <4> QED BY <2>0, <2>f, <3>3, <3>w, <3>b, <4>1
              DEF TypeOK, TxType, RowType, PollType, QueueType, Throw, JobState
    <3> QED BY <2>5, <3>1, <3>2, <3>3
  <2>6. CASE Crash
    <3>1. job' \in [Queue -> [Event -> Job]]
      <4>1. \A j \in Job : [j EXCEPT !.lock = NoWorker] \in Job BY SMT DEF Job
      <4> QED BY <2>0, <2>6, <4>1 DEF Crash, QueueType
    <3>2. TxType' /\ PollType' BY <2>0, <2>6, SMT DEF TxType, PollType, PollState, Crash
    <3> QED BY <2>0, <2>f, <2>6, <3>1, <3>2 DEF TypeOK, RowType, QueueType, WorkState, Crash
  <2>7. CASE UNCHANGED vars
    BY <2>0, <2>7 DEF TypeOK, TxType, RowType, PollType, QueueType, vars
  <2> QED BY <1>2, <2>1, <2>2, <2>3, <2>4, <2>5, <2>6, <2>7 DEF Next
<1> QED BY <1>1, <1>2, PTL DEF Spec

---------------------------------------------------------------------------
(* The workers                                                             *)

\* The events that a hook or a poll is about to hand to the queues.
AtHand(e) ==
    \/ \E t \in Tx : flushing[t] # <<>> /\ e = Head(flushing[t])
    \/ \E p \in Poll : poll[p].step = "enqueue" /\ e \in poll[p].batch

\* Jobs that appear: nothing else of the queues changes.
OnlyAdds ==
    /\ UNCHANGED <<work, processed, handled>>
    /\ faults \in Nat /\ faults' \in Nat /\ faults <= faults'
    /\ \A q \in Queue, e \in Event :
          \/ job'[q][e] = job[q][e]
          \/ job[q][e].st = "none" /\ job'[q][e].st = "waiting" /\ AtHand(e)

\* What a step may do to the queues.
LEMMA QueueSteps ==
    ASSUME TypeOK, [Next]_vars
    PROVE  \/ OnlyAdds
           \/ \E w \in Worker, q \in Queue, e \in Event : Take(w, q, e)
           \/ \E w \in Worker : Handle(w) \/ Record(w) \/ Throw(w)
           \/ \E q \in Queue, e \in Event : LoseLock(q, e) \/ Stalled(q, e) \/ Forget(q, e)
           \/ Crash
<1>0. faults \in Nat /\ (Fault => faults' \in Nat /\ faults <= faults')
  BY SMT DEF TypeOK, Fault
<1> USE DEF pollVars, queueVars
<1>1. ASSUME UNCHANGED queueVars, Fault \/ UNCHANGED faults PROVE OnlyAdds
  BY <1>0, <1>1, SMT DEF OnlyAdds
<1>2. ASSUME NEW t \in Tx, TxStep(t) PROVE OnlyAdds
  <2>1. CASE Enqueue(t)
    <3> DEFINE x == Head(flushing[t])
    <3>1. x \in Event /\ \A q \in Queue : job'[q] = job[q] \/ job'[q] = Added(job[q], x)
      BY <2>1, EnqueueJobs
    <3>2. \A q \in Queue, e \in Event :
            \/ Added(job[q], x)[e] = job[q][e]
            \/ job[q][e].st = "none" /\ Added(job[q], x)[e].st = "waiting" /\ e = x
      <4> SUFFICES ASSUME NEW q \in Queue, NEW e \in Event
                   PROVE \/ Added(job[q], x)[e] = job[q][e]
                         \/ job[q][e].st = "none" /\ Added(job[q], x)[e].st = "waiting" /\ e = x
        OBVIOUS
      <4>1. job[q] \in [Event -> Job] BY DEF TypeOK, QueueType
      <4> QED BY <3>1, <4>1, AddedJob
    <3>h. AtHand(x) BY <2>1 DEF AtHand, Enqueue
    <3>3. \A q \in Queue, e \in Event :
            \/ job'[q][e] = job[q][e]
            \/ job[q][e].st = "none" /\ job'[q][e].st = "waiting" /\ AtHand(e)
      BY <3>1, <3>2, <3>h
    <3>4. UNCHANGED <<work, processed, handled>> /\ (Fault \/ UNCHANGED faults)
      BY <2>1 DEF Enqueue
    <3> QED BY <1>0, <3>3, <3>4, SMT DEF OnlyAdds
  <2>2. CASE ~Enqueue(t)
    BY <1>1, <1>2, <2>2 DEF TxStep, Begin, Commit, Flush, CommitLost, Rollback, Dispatch, Emit
  <2> QED BY <2>1, <2>2
<1>3. ASSUME NEW e \in Event, EmitAlone(e) PROVE OnlyAdds
  BY <1>1, <1>3 DEF EmitAlone
<1>4. ASSUME NEW p \in Poll, PollStep(p) PROVE OnlyAdds
  <2>1. CASE Recover(p)
    <3>1. PICK x \in poll[p].batch :
            job' = IF x \in Subscribed[poll[p].q]
                   THEN [job EXCEPT ![poll[p].q] = Added(@, x)] ELSE job
      BY <2>1 DEF Recover
    <3>2. x \in Event /\ poll[p].q \in Queue
      BY <2>1, <3>1, LoopOf DEF TypeOK, Recover
    <3>3. ASSUME NEW q \in Queue, NEW e \in Event
          PROVE \/ job'[q][e] = job[q][e]
                \/ job[q][e].st = "none" /\ job'[q][e].st = "waiting" /\ AtHand(e)
      <4>h. AtHand(x) BY <2>1, <3>1 DEF AtHand, Recover
      <4>1. job[q] \in [Event -> Job] /\ DOMAIN job = Queue BY DEF TypeOK, QueueType
      <4>3. job'[q] = job[q] \/ job'[q] = Added(job[q], x) BY <3>1, <4>1
      <4> QED BY <3>2, <4>h, <4>1, <4>3, AddedJob
    <3>4. UNCHANGED <<work, processed, handled, faults>> BY <2>1 DEF Recover
    <3> QED BY <1>0, <3>3, <3>4, SMT DEF OnlyAdds
  <2>2. CASE ~Recover(p)
    BY <1>1, <1>4, <2>2 DEF PollStep, ReadCursor, Select, Break, SaveCursor
  <2> QED BY <2>1, <2>2
<1>5. CASE UNCHANGED vars BY <1>1, <1>5 DEF vars
<1> QED BY <1>2, <1>3, <1>4, <1>5 DEF Next, JobStep

\* The job that a worker completes.
LEMMA RecordedJob ==
    ASSUME QueueType, NEW w \in Worker, Record(w)
    PROVE  \E q \in Queue, e \in Event, j \in Job :
              /\ work[w].q = q /\ work[w].e = e
              /\ j.st = "done" /\ j.lock = NoWorker
              /\ processed' = [processed EXCEPT ![q] = @ \cup {e}]
              /\ job' = Ended(w, q, e, j)
<1>1. work[w].q \in Queue /\ work[w].e \in Event BY WorkOf DEF Record
<1>2. job[work[w].q][work[w].e] \in Job BY <1>1 DEF QueueType
<1>3. LET a == [job[work[w].q][work[w].e] EXCEPT !.st = "done", !.lock = NoWorker]
      IN  a \in Job /\ a.st = "done" /\ a.lock = NoWorker
  BY <1>2, LockedJob DEF JobState
<1> QED BY <1>1, <1>3 DEF Record

\* The job of a worker whose handler or record throws.
LEMMA ThrownJob ==
    ASSUME QueueType, NEW w \in Worker, Throw(w)
    PROVE  \E q \in Queue, e \in Event, j \in Job :
              /\ work[w].q = q /\ work[w].e = e
              /\ j.st \in {"waiting", "dead"} /\ j.st # "done" /\ j.lock = NoWorker
              /\ job' = Ended(w, q, e, j)
<1>1. work[w].q \in Queue /\ work[w].e \in Event BY WorkOf DEF Throw
<1>2. PICK o \in Job : o = job[work[w].q][work[w].e] BY <1>1 DEF QueueType
<1>3. PICK n \in Nat : n = o.tries + 1 BY SMT DEF Job
<1>4. PICK x \in JobState : x \in {"waiting", "dead"} /\ x = IF n < Attempts THEN "waiting" ELSE "dead"
  BY DEF JobState
<1>5. LET a == [o EXCEPT !.st = x, !.tries = n, !.lock = NoWorker]
      IN  a \in Job /\ a.st = x /\ a.lock = NoWorker
  <2>1. NoWorker \in Worker \cup {NoWorker} OBVIOUS
  <2> QED BY <2>1, Zenon DEF Job
<1>6. job' = Ended(w, work[w].q, work[w].e, [o EXCEPT !.st = x, !.tries = n, !.lock = NoWorker])
  BY <1>2, <1>3, <1>4 DEF Throw
<1> QED BY <1>1, <1>4, <1>5, <1>6

\* A completed job has its row in processed_events, a row says that the handler
\* ran, and a worker records only what it handled.
HandledInv ==
    /\ \A q \in Queue, e \in Event : job[q][e].st = "done" => e \in processed[q]
    /\ \A q \in Queue : \A e \in processed[q] : handled[q][e] > 0
    /\ \A w \in Worker : work[w].step = "record" => handled[work[w].q][work[w].e] > 0

LEMMA HandledInvHolds == Spec => []HandledInv
<1>1. Init => HandledInv
  BY SMT DEF Init, HandledInv, NoJob, NoWork
<1>2. ASSUME TypeOK, HandledInv, [Next]_vars PROVE HandledInv'
  <2>0. QueueType BY <1>2 DEF TypeOK
  <2>1. CASE OnlyAdds
    BY <1>2, <2>0, <2>1, SMT DEF OnlyAdds, HandledInv
  <2>2. ASSUME NEW w \in Worker, NEW q \in Queue, NEW e \in Event, Take(w, q, e) PROVE HandledInv'
    <3>j. job[q][e] \in Job BY <2>0 DEF QueueType
    <3>1. PICK j \in Job : /\ job' = Became(q, e, j)
                           /\ j.st = "active" \/ e \in processed[q]
      <4>1. [job[q][e] EXCEPT !.st = "done"] \in Job BY <3>j, SMT DEF Job, JobState
      <4>2. LET a == [job[q][e] EXCEPT !.st = "active", !.lock = w] IN a \in Job /\ a.st = "active"
        BY <3>j, LockedJob DEF JobState
      <4> QED BY <2>2, <4>1, <4>2 DEF Take
    <3>2. \A x \in Queue, y \in Event : job'[x][y].st = "done" => y \in processed[x]
      <4>1. \A x \in Queue, y \in Event : job'[x][y] = IF x = q /\ y = e THEN j ELSE job[x][y]
        BY <2>0, <3>1, BecameJobs
      <4> QED BY <1>2, <3>1, <4>1 DEF HandledInv
    <3>3. \A v \in Worker : work'[v].step = "record" => work'[v] = work[v]
      BY <2>0, <2>2, SMT DEF Take, QueueType
    <3> QED BY <1>2, <2>2, <3>2, <3>3 DEF HandledInv, Take
  <2>3. ASSUME NEW w \in Worker, Handle(w) PROVE HandledInv'
    <3> DEFINE q == work[w].q
               e == work[w].e
    <3>0. q \in Queue /\ e \in Event BY <2>0, <2>3, WorkOf DEF Handle
    <3>1. \A x \in Queue, y \in Event :
            /\ handled[x][y] \in Nat
            /\ handled'[x][y] = IF x = q /\ y = e THEN handled[x][y] + 1 ELSE handled[x][y]
      BY <2>0, <2>3, <3>0 DEF QueueType, Handle
    <3>2. \A x \in Queue, y \in Event : handled[x][y] > 0 => handled'[x][y] > 0
      BY <3>1, SMT
    <3>3. handled'[q][e] > 0 BY <3>0, <3>1, SMT
    <3>4. \A v \in Worker : work'[v] = IF v = w THEN [step |-> "record", q |-> q, e |-> e] ELSE work[v]
      BY <2>0, <2>3 DEF Handle, QueueType
    <3>5. ASSUME NEW v \in Worker, work'[v].step = "record"
          PROVE  handled'[work'[v].q][work'[v].e] > 0
      <4>1. CASE v = w BY <3>3, <3>4, <4>1
      <4>2. CASE v # w BY <1>2, <2>0, <3>2, <3>4, <3>5, <4>2, WorkOf DEF HandledInv
      <4> QED BY <4>1, <4>2
    <3>6. UNCHANGED <<job, processed>> BY <2>3 DEF Handle
    <3>7. processed \in [Queue -> SUBSET Event] BY <2>0 DEF QueueType
    <3> QED BY <1>2, <3>2, <3>5, <3>6, <3>7 DEF HandledInv
  <2>4. ASSUME NEW w \in Worker, Record(w) PROVE HandledInv'
    <3>1. PICK q \in Queue, e \in Event, j \in Job :
            /\ handled[q][e] > 0
            /\ processed' = [processed EXCEPT ![q] = @ \cup {e}]
            /\ job' = Ended(w, q, e, j)
      BY <1>2, <2>0, <2>4, RecordedJob DEF HandledInv, Record
    <3>2. ASSUME NEW x \in Queue, NEW y \in Event, x # q \/ y # e PROVE job'[x][y] = job[x][y]
      <4>1. Ended(w, q, e, j)[x][y] = job[x][y] BY <2>0, <3>2, EndedJobs
      <4> QED BY <3>1, <4>1
    <3>3. \A x \in Queue : processed'[x] = IF x = q THEN processed[x] \cup {e} ELSE processed[x]
      BY <2>0, <3>1 DEF QueueType
    <3>4. \A v \in Worker : work'[v].step = "record" => work'[v] = work[v]
      BY <2>0, <2>4 DEF Record, QueueType, NoWork
    <3>5. UNCHANGED handled BY <2>4 DEF Record
    <3>6. ASSUME NEW x \in Queue, NEW y \in Event, job'[x][y].st = "done" PROVE y \in processed'[x]
      <4>1. CASE x = q /\ y = e BY <3>3, <4>1
      <4>2. CASE x # q \/ y # e BY <1>2, <3>2, <3>3, <3>6, <4>2 DEF HandledInv
      <4> QED BY <4>1, <4>2
    <3>7. \A x \in Queue : \A y \in processed'[x] : handled[x][y] > 0
      BY <1>2, <3>1, <3>3 DEF HandledInv
    <3> QED BY <1>2, <3>4, <3>5, <3>6, <3>7 DEF HandledInv
  <2>5. ASSUME NEW w \in Worker, Throw(w) PROVE HandledInv'
    <3>1. PICK q \in Queue, e \in Event, j \in Job :
            j.st # "done" /\ job' = Ended(w, q, e, j)
      BY <2>0, <2>5, ThrownJob
    <3>2. ASSUME NEW x \in Queue, NEW y \in Event PROVE job'[x][y] = job[x][y] \/ job'[x][y].st # "done"
      <4>1. CASE x = q /\ y = e
        <5>1. CASE job[q][e].lock = w
          <6>1. Became(q, e, j)[q][e] = j BY <2>0, BecameJobs
          <6> QED BY <3>1, <4>1, <5>1, <6>1 DEF Ended
        <5>2. CASE job[q][e].lock # w
          BY <3>1, <4>1, <5>2 DEF Ended
        <5> QED BY <5>1, <5>2
      <4>2. CASE x # q \/ y # e
        <5>1. Ended(w, q, e, j)[x][y] = job[x][y] BY <2>0, <4>2, EndedJobs
        <5> QED BY <3>1, <5>1
      <4> QED BY <4>1, <4>2
    <3>3. \A v \in Worker : work'[v].step = "record" => work'[v] = work[v]
      BY <2>0, <2>5 DEF Throw, QueueType, NoWork
    <3> QED BY <1>2, <2>5, <3>2, <3>3 DEF HandledInv, Throw
  <2>6. ASSUME NEW q \in Queue, NEW e \in Event, LoseLock(q, e) \/ Stalled(q, e) \/ Forget(q, e)
        PROVE  HandledInv'
    <3>j. job[q][e] \in Job BY <2>0 DEF QueueType
    <3>1. PICK j \in Job : job' = Became(q, e, j) /\ j.st # "done"
      <4>1. CASE LoseLock(q, e)
        <5>1. LET a == [job[q][e] EXCEPT !.lock = NoWorker] IN a \in Job /\ a.st = job[q][e].st
          BY <3>j DEF Job
        <5> QED BY <4>1, <5>1 DEF LoseLock
      <4>2. CASE Stalled(q, e) BY <3>j, <4>2, StalledJob DEF Stalled, JobState
      <4>3. CASE Forget(q, e) BY <4>3, SMT DEF Forget, NoJob, Job, JobState
      <4> QED BY <2>6, <4>1, <4>2, <4>3
    <3>2. \A x \in Queue, y \in Event : job'[x][y] = job[x][y] \/ job'[x][y].st # "done"
      BY <2>0, <3>1, BecameJobs
    <3>3. UNCHANGED <<work, processed, handled>> BY <2>6 DEF LoseLock, Stalled, Forget
    <3> QED BY <1>2, <3>2, <3>3 DEF HandledInv
  <2>7. CASE Crash
    <3>1. \A q \in Queue, e \in Event : job'[q][e].st = job[q][e].st
      <4>1. \A j \in Job : [j EXCEPT !.lock = NoWorker].st = j.st BY DEF Job
      <4>2. \A q \in Queue, e \in Event :
              job[q][e] \in Job /\ job'[q][e] = [job[q][e] EXCEPT !.lock = NoWorker]
        BY <2>0, <2>7 DEF Crash, QueueType
      <4> QED BY <4>1, <4>2
    <3>2. UNCHANGED <<processed, handled>> /\ work' = [w \in Worker |-> NoWork] BY <2>7 DEF Crash
    <3> QED BY <1>2, <3>1, <3>2 DEF HandledInv, NoWork
  <2> QED BY <1>2, <2>1, <2>2, <2>3, <2>4, <2>5, <2>6, <2>7, QueueSteps
<1> QED BY <1>1, <1>2, TypeCorrect, PTL DEF Spec

\* A subscriber is not skipped.
THEOREM ProcessedWasHandledHolds == Spec => []ProcessedWasHandled
<1>1. TypeOK /\ HandledInv => ProcessedWasHandled
  BY DEF HandledInv, ProcessedWasHandled
<1> QED BY <1>1, TypeCorrect, HandledInvHolds, PTL

\* The workers that are about to handle e for q, and whether another may come
\* to be without a new fault: e is unrecorded and its job waits, is to come, or
\* is active with nobody to end it.
Running(q, e) == {w \in Worker : work[w].step = "handle" /\ work[w].q = q /\ work[w].e = e}
Open(q, e) ==
    /\ e \notin processed[q]
    /\ \/ job[q][e].st \in {"none", "waiting"}
       \/ job[q][e].st = "active" /\ job[q][e].lock = NoWorker
Runs(q, e) ==
    handled[q][e] + Cardinality(Running(q, e)) + (IF Open(q, e) THEN 1 ELSE 0)

\* Every run of a handler but the first was paid for by a fault.
RunInv == \A q \in Queue, e \in Event : Runs(q, e) <= 1 + faults

LEMMA RunningFinite ==
    ASSUME NEW q, NEW e
    PROVE  IsFiniteSet(Running(q, e)) /\ Cardinality(Running(q, e)) \in Nat
<1>1. Running(q, e) \subseteq Worker /\ IsFiniteSet(Worker)
  BY DeliveryAssumption DEF Running
<1> QED BY <1>1, FS_Subset, FS_CardinalityType

\* A step that starts no run of e and opens it only by a fault.
LEMMA RunKept ==
    ASSUME TypeOK, TypeOK', NEW q \in Queue, NEW e \in Event, Runs(q, e) <= 1 + faults,
           handled'[q][e] = handled[q][e],
           Running(q, e)' \subseteq Running(q, e),
           \/ (Open(q, e)' => Open(q, e)) /\ faults <= faults'
           \/ faults' = faults + 1
    PROVE  Runs(q, e)' <= 1 + faults'
<1>1. /\ Cardinality(Running(q, e)) \in Nat /\ Cardinality(Running(q, e)') \in Nat
      /\ Cardinality(Running(q, e)') <= Cardinality(Running(q, e))
  BY RunningFinite, FS_Subset, FS_CardinalityType
<1>2. handled[q][e] \in Nat /\ faults \in Nat /\ faults' \in Nat
  BY DEF TypeOK, QueueType
<1>3. handled[q][e] + Cardinality(Running(q, e)) + (IF Open(q, e) THEN 1 ELSE 0) <= 1 + faults
  BY DEF Runs
<1>4. Runs(q, e)' = handled[q][e] + Cardinality(Running(q, e)') + (IF Open(q, e)' THEN 1 ELSE 0)
  BY DEF Runs
<1> HIDE DEF Open, Running
<1>5. CASE faults' = faults + 1 BY <1>1, <1>2, <1>3, <1>4, <1>5, SMT
<1>6. CASE (Open(q, e)' => Open(q, e)) /\ faults <= faults'
  BY <1>1, <1>2, <1>3, <1>4, <1>6, SMT
<1> QED BY <1>5, <1>6

LEMMA RunInvHolds == Spec => []RunInv
<1>1. Init => RunInv
  <2> SUFFICES ASSUME Init, NEW q \in Queue, NEW e \in Event PROVE Runs(q, e) <= 1 + faults
    BY DEF RunInv
  <2>1. Running(q, e) = {} BY DEF Init, Running, NoWork
  <2>2. handled[q][e] = 0 /\ faults = 0 /\ Cardinality(Running(q, e)) = 0
    BY <2>1, FS_EmptySet DEF Init
  <2> QED BY <2>2, SMT DEF Runs
<1>2. ASSUME TypeOK, TypeOK', HandledInv, RunInv, [Next]_vars PROVE RunInv'
  <2> SUFFICES ASSUME NEW q \in Queue, NEW e \in Event PROVE Runs(q, e)' <= 1 + faults'
    BY DEF RunInv
  <2>0. QueueType /\ job[q][e] \in Job /\ faults \in Nat /\ faults' \in Nat /\ Runs(q, e) <= 1 + faults
    BY <1>2 DEF TypeOK, QueueType, RunInv
  <2>f. Fault => faults' = faults + 1 BY DEF Fault
  <2>1. CASE OnlyAdds
    <3>1. Running(q, e)' = Running(q, e) /\ handled'[q][e] = handled[q][e]
      BY <2>1 DEF OnlyAdds, Running
    <3>2. Open(q, e)' => Open(q, e) BY <2>1 DEF OnlyAdds, Open
    <3> QED BY <1>2, <2>0, <2>1, <3>1, <3>2, RunKept DEF OnlyAdds
  <2>2. ASSUME NEW w \in Worker, NEW x \in Queue, NEW y \in Event, Take(w, x, y)
        PROVE  Runs(q, e)' <= 1 + faults'
    <3>1. UNCHANGED <<processed, handled, faults>> BY <2>2 DEF Take
    <3>2. PICK j \in Job : /\ job' = Became(x, y, j)
                           /\ \/ y \in processed[x] /\ work' = work
                              \/ /\ y \notin processed[x] /\ j.st = "active" /\ j.lock = w
                                 /\ work' = [work EXCEPT ![w] = [step |-> "handle", q |-> x, e |-> y]]
      <4>1. job[x][y] \in Job BY <2>0 DEF QueueType
      <4>2. [job[x][y] EXCEPT !.st = "done"] \in Job BY <4>1, SMT DEF Job, JobState
      <4>3. LET a == [job[x][y] EXCEPT !.st = "active", !.lock = w]
            IN  a \in Job /\ a.st = "active" /\ a.lock = w
        BY <4>1, LockedJob DEF JobState
      <4> QED BY <2>2, <4>2, <4>3 DEF Take
    <3>3. CASE x # q \/ y # e
      <4>1. Became(x, y, j)[q][e] = job[q][e] BY <2>0, <3>3, BecameJobs
      <4>2. Open(q, e)' => Open(q, e) BY <3>1, <3>2, <4>1 DEF Open
      <4>3. Running(q, e)' \subseteq Running(q, e)
        BY <2>0, <3>2, <3>3 DEF Running, QueueType
      <4> QED BY <1>2, <2>0, <3>1, <4>2, <4>3, RunKept, SMT
    <3>4. CASE x = q /\ y = e /\ e \in processed[q]
      <4>1. ~Open(q, e)' BY <3>1, <3>4 DEF Open
      <4>2. Running(q, e)' = Running(q, e) BY <3>2, <3>4 DEF Running
      <4> QED BY <1>2, <2>0, <3>1, <4>1, <4>2, RunKept, SMT
    <3>5. CASE x = q /\ y = e /\ e \notin processed[q]
      <4>1. Became(q, e, j)[q][e] = j BY <2>0, BecameJobs
      <4>2. ~Open(q, e)' BY <3>2, <3>5, <4>1, DeliveryAssumption DEF Open
      <4>3. Open(q, e) BY <2>2, <3>5 DEF Open, Take
      <4>4. Running(q, e)' = Running(q, e) \cup {w} /\ w \notin Running(q, e)
        BY <2>0, <2>2, <3>2, <3>5 DEF Running, QueueType, Take, NoWork
      <4>5. Cardinality(Running(q, e)') = Cardinality(Running(q, e)) + 1
        BY <4>4, RunningFinite, FS_AddElement
      <4>6. Cardinality(Running(q, e)) \in Nat /\ handled[q][e] \in Nat
        BY <2>0, RunningFinite DEF QueueType
      <4>7. /\ Runs(q, e) = handled[q][e] + Cardinality(Running(q, e)) + 1
            /\ Runs(q, e)' = handled[q][e] + Cardinality(Running(q, e)') + 0
        BY <3>1, <4>2, <4>3 DEF Runs
      <4> QED BY <2>0, <3>1, <4>5, <4>6, <4>7, SMT
    <3> QED BY <3>3, <3>4, <3>5
  <2>3. ASSUME NEW w \in Worker, Handle(w) PROVE Runs(q, e)' <= 1 + faults'
    <3>1. PICK x \in Queue, y \in Event : work[w].q = x /\ work[w].e = y
      BY <2>0, <2>3, WorkOf DEF Handle
    <3>2. UNCHANGED <<job, processed, faults>> BY <2>3 DEF Handle
    <3>3. Open(q, e)' = Open(q, e) BY <3>2 DEF Open
    <3>4. work' = [work EXCEPT ![w] = [step |-> "record", q |-> x, e |-> y]]
      BY <2>3, <3>1 DEF Handle
    <3>5. Running(q, e)' \subseteq Running(q, e) BY <2>0, <3>4 DEF Running, QueueType
    <3>6. CASE x # q \/ y # e
      <4>1. handled'[q][e] = handled[q][e] BY <2>0, <2>3, <3>1, <3>6 DEF Handle, QueueType
      <4> QED BY <1>2, <2>0, <3>2, <3>3, <3>5, <4>1, RunKept, SMT
    <3>7. CASE x = q /\ y = e
      <4>1. handled'[q][e] = handled[q][e] + 1 /\ handled[q][e] \in Nat
        BY <2>0, <2>3, <3>1, <3>7 DEF Handle, QueueType
      <4>2. Running(q, e)' = Running(q, e) \ {w} /\ w \in Running(q, e)
        BY <2>0, <2>3, <3>1, <3>4, <3>7 DEF Running, Handle, QueueType
      <4>3. Cardinality(Running(q, e)') = Cardinality(Running(q, e)) - 1
        BY <4>2, RunningFinite, FS_RemoveElement
      <4>4. Cardinality(Running(q, e)) \in Nat BY RunningFinite
      <4>5. /\ Runs(q, e) = handled[q][e] + Cardinality(Running(q, e)) + (IF Open(q, e) THEN 1 ELSE 0)
            /\ Runs(q, e)' = handled'[q][e] + Cardinality(Running(q, e)') + (IF Open(q, e) THEN 1 ELSE 0)
        BY <3>3 DEF Runs
      <4> HIDE DEF Open
      <4> QED BY <2>0, <3>2, <4>1, <4>3, <4>4, <4>5, SMT
    <3> QED BY <3>6, <3>7
  <2>4. ASSUME NEW w \in Worker, Record(w) PROVE Runs(q, e)' <= 1 + faults'
    <3>1. PICK x \in Queue, y \in Event, j \in Job :
            /\ processed' = [processed EXCEPT ![x] = @ \cup {y}]
            /\ job' = Ended(w, x, y, j)
      BY <2>0, <2>4, RecordedJob
    <3>2. UNCHANGED <<handled, faults>> /\ Running(q, e)' \subseteq Running(q, e)
      BY <2>0, <2>4 DEF Record, Running, QueueType, NoWork
    <3>3. Open(q, e)' => Open(q, e)
      <4>1. CASE x = q /\ y = e BY <2>0, <3>1, <4>1 DEF Open, QueueType
      <4>2. CASE x # q \/ y # e
        <5>1. Ended(w, x, y, j)[q][e] = job[q][e] BY <2>0, <4>2, EndedJobs
        <5>2. e \in processed[q] => e \in processed'[q] BY <2>0, <3>1 DEF QueueType
        <5> QED BY <3>1, <5>1, <5>2 DEF Open
      <4> QED BY <4>1, <4>2
    <3> QED BY <1>2, <2>0, <3>2, <3>3, RunKept, SMT
  <2>5. ASSUME NEW w \in Worker, Throw(w) PROVE Runs(q, e)' <= 1 + faults'
    <3>1. UNCHANGED handled /\ faults' = faults + 1 /\ Running(q, e)' \subseteq Running(q, e)
      BY <2>0, <2>5, <2>f DEF Throw, Running, QueueType, NoWork
    <3> QED BY <1>2, <2>0, <3>1, RunKept
  <2>6. ASSUME NEW x \in Queue, NEW y \in Event, LoseLock(x, y) PROVE Runs(q, e)' <= 1 + faults'
    <3>1. UNCHANGED <<handled, work>> /\ faults' = faults + 1 BY <2>6, <2>f DEF LoseLock
    <3>2. Running(q, e)' = Running(q, e) BY <3>1 DEF Running
    <3> QED BY <1>2, <2>0, <3>1, <3>2, RunKept
  <2>7. ASSUME NEW x \in Queue, NEW y \in Event, Stalled(x, y) \/ Forget(x, y)
        PROVE  Runs(q, e)' <= 1 + faults'
    <3>1. UNCHANGED <<handled, work, processed, faults>> BY <2>7 DEF Stalled, Forget
    <3>2. Running(q, e)' = Running(q, e) BY <3>1 DEF Running
    <3>3. CASE x # q \/ y # e
      <4>1. \A j \in Job : Became(x, y, j)[q][e] = job[q][e] BY <2>0, <3>3, BecameJobs
      <4>2. \E j \in Job : job' = Became(x, y, j)
        <5>1. job[x][y] \in Job /\ NoJob \in Job BY <2>0 DEF QueueType, NoJob, Job, JobState
        <5>2. CASE Stalled(x, y) BY <5>1, <5>2, StalledJob DEF Stalled, JobState
        <5> QED BY <2>7, <5>1, <5>2 DEF Forget
      <4>3. job'[q][e] = job[q][e] BY <4>1, <4>2
      <4>4. Open(q, e)' => Open(q, e) BY <3>1, <4>3 DEF Open
      <4> QED BY <1>2, <2>0, <3>1, <3>2, <4>4, RunKept, SMT
    <3>4. CASE x = q /\ y = e
      <4>1. CASE Stalled(x, y)
        <5>1. Open(q, e)' => Open(q, e) BY <3>1, <3>4, <4>1 DEF Open, Stalled
        <5> QED BY <1>2, <2>0, <3>1, <3>2, <5>1, RunKept, SMT
      <4>2. CASE Forget(x, y)
        <5>1. ~Open(q, e)' BY <1>2, <3>1, <3>4, <4>2 DEF Open, Forget, HandledInv
        <5> QED BY <1>2, <2>0, <3>1, <3>2, <5>1, RunKept, SMT
      <4> QED BY <2>7, <4>1, <4>2
    <3> QED BY <3>3, <3>4
  <2>8. CASE Crash
    <3>1. UNCHANGED handled /\ faults' = faults + 1 BY <2>8, <2>f DEF Crash
    <3>2. Running(q, e)' = {} BY <2>8 DEF Crash, Running, NoWork
    <3> QED BY <1>2, <2>0, <3>1, <3>2, RunKept
  <2> QED BY <1>2, <2>1, <2>2, <2>3, <2>4, <2>5, <2>6, <2>7, <2>8, QueueSteps
<1> QED BY <1>1, <1>2, TypeCorrect, HandledInvHolds, PTL DEF Spec

\* At-least-once is once unless something failed.
THEOREM HandledOncePerFaultHolds == Spec => []HandledOncePerFault
<1>1. ASSUME TypeOK, RunInv PROVE HandledOncePerFault
  <2> SUFFICES ASSUME NEW q \in Queue, NEW e \in Event PROVE handled[q][e] <= 1 + faults
    BY DEF HandledOncePerFault
  <2>1. Cardinality(Running(q, e)) \in Nat /\ handled[q][e] \in Nat /\ faults \in Nat
    BY <1>1, RunningFinite DEF TypeOK, QueueType
  <2>2. handled[q][e] + Cardinality(Running(q, e)) + (IF Open(q, e) THEN 1 ELSE 0) <= 1 + faults
    BY <1>1 DEF RunInv, Runs
  <2> HIDE DEF Open
  <2> QED BY <2>1, <2>2, SMT
<1> QED BY <1>1, TypeCorrect, RunInvHolds, PTL

---------------------------------------------------------------------------
(* The list of hooks                                                       *)

Live(t) == stage[t] \in {"open", "committed"}
Safe(e) == Published(e) \/ Owner[e] \in met

\* A hook of h at place i of the list.
Apart(h, i) ==
    Safe(h) \/ (id[h] > 0 /\ Owner[h] \in Tx /\ Live(Owner[h]) /\ mark[Owner[h]] < i)

\* Two live transactions have met; the hooks of one that met nobody lie behind
\* its own mark until it cuts them off itself.
HooksApart ==
    /\ \A t, u \in Tx : t # u /\ Live(t) /\ Live(u) => t \in met
    /\ \A e \in Event : id[e] > 0 /\ Owner[e] # Alone => stage[Owner[e]] # "idle"
    /\ \A t \in Tx : Live(t) /\ t \notin met => mark[t] <= Len(hooks)
    /\ \A i \in 1..Len(hooks), h \in Event : h = hooks[i] => Apart(h, i)

\* Whatever left the list is safe, and so is whatever was read from the table.
OnlySafeLeft ==
    /\ \A t \in Tx, e \in Event : \A i \in 1..Len(flushing[t]) : e = flushing[t][i] => Safe(e)
    /\ \A p \in Poll, e \in Event : poll[p].step = "enqueue" /\ e \in poll[p].batch => Safe(e)
    /\ \A q \in Queue, e \in Event : job[q][e].st # "none" => Safe(e)
    /\ \A w \in Worker, e \in Event :
          work[w].step \in {"handle", "record"} /\ e = work[w].e => Safe(e)
    /\ \A e \in Event : Told(e) => Safe(e)

\* An event stays published, and a meeting is not forgotten.
LEMMA PublishedKept ==
    ASSUME TypeOK, [Next]_vars, NEW e \in Event, Published(e)
    PROVE  Published(e)' /\ id'[e] = id[e]
<1>0. /\ stage \in [Tx -> {"idle", "open", "committed", "flushing", "done", "failed"}]
      /\ id \in [Event -> Nat] /\ id[e] > 0
      /\ Owner[e] # Alone => Owner[e] \in Tx
  BY DeliveryAssumption DEF TypeOK, TxType, RowType, Published
<1> USE <1>0 DEF Published, txVars, rowVars
<1>1. ASSUME NEW t \in Tx, TxStep(t) PROVE Published(e)' /\ id'[e] = id[e]
  <2>1. ASSUME NEW x \in Event, Emit(t, x) PROVE Published(e)' /\ id'[e] = id[e]
    BY <2>1, SMT DEF Emit
  <2>2. CASE Begin(t) BY <2>2, SMT DEF Begin
  <2>3. CASE Commit(t) BY <2>3, SMT DEF Commit
  <2>4. CASE Flush(t) BY <2>4 DEF Flush
  <2>5. CASE CommitLost(t) BY <2>5, SMT DEF CommitLost
  <2>6. CASE Rollback(t) BY <2>6, SMT DEF Rollback
  <2>7. CASE Enqueue(t) BY <2>7 DEF Enqueue
  <2>8. CASE Dispatch(t)
    <3>1. \A u \in Tx : stage'[u] = stage[u] \/ stage'[u] = "done"
      BY <2>8 DEF Dispatch
    <3> QED BY <2>8, <3>1, SMT DEF Dispatch
  <2> QED BY <1>1, <2>1, <2>2, <2>3, <2>4, <2>5, <2>6, <2>7, <2>8 DEF TxStep
<1>2. ASSUME NEW x \in Event, EmitAlone(x) PROVE Published(e)' /\ id'[e] = id[e]
  BY <1>2, SMT DEF EmitAlone
<1>3. ASSUME NEW p \in Poll, PollStep(p) PROVE Published(e)' /\ id'[e] = id[e]
  BY <1>3 DEF PollStep, ReadCursor, Select, Recover, Break, SaveCursor
<1>4. ASSUME NEW q \in Queue, NEW x \in Event, JobStep(q, x) PROVE Published(e)' /\ id'[e] = id[e]
  BY <1>4 DEF JobStep, LoseLock, Stalled, Forget, Take
<1>5. ASSUME NEW w \in Worker, Handle(w) \/ Record(w) \/ Throw(w) PROVE Published(e)' /\ id'[e] = id[e]
  BY <1>5 DEF Handle, Record, Throw
<1>6. CASE Crash
  <2>1. UNCHANGED id /\ \A u \in Tx : stage'[u] = CASE stage[u] = "open" -> "failed"
                                [] stage[u] \in {"committed", "flushing"} -> "done"
                                [] OTHER -> stage[u]
    BY <1>6 DEF Crash
  <2> QED BY <2>1, SMT
<1>7. CASE UNCHANGED vars BY <1>7 DEF vars
<1> QED BY <1>1, <1>2, <1>3, <1>4, <1>5, <1>6, <1>7 DEF Next

LEMMA SafeKept ==
    ASSUME TypeOK, [Next]_vars, NEW e \in Event, Safe(e)
    PROVE  Safe(e)'
<1>1. met \subseteq met'
  BY DEF Next, TxStep, PollStep, JobStep, vars, txVars, Begin, Commit, Flush, CommitLost, Rollback,
     Enqueue, Dispatch, Emit, EmitAlone, ReadCursor, Select, Recover, Break, SaveCursor,
     LoseLock, Stalled, Forget, Take, Handle, Record, Throw, Crash
<1> QED BY <1>1, PublishedKept DEF Safe

\* Where splice cuts.
LEMMA SpliceParts ==
    ASSUME TxType, NEW t \in Tx
    PROVE  /\ Len(Kept(t)) \in Nat /\ Len(Kept(t)) <= Len(hooks)
           /\ mark[t] <= Len(hooks) => Len(Kept(t)) = mark[t]
           /\ Len(Kept(t)) <= mark[t]
           /\ \A i \in 1..Len(Kept(t)) : Kept(t)[i] = hooks[i] /\ i \in 1..Len(hooks)
           /\ \A i \in 1..Len(Spliced(t)) :
                 /\ Spliced(t)[i] = hooks[mark[t] + i]
                 /\ mark[t] + i \in 1..Len(hooks)
<1>1. hooks \in Seq(Event) /\ mark[t] \in Nat /\ Len(hooks) \in Nat BY SMT DEF TxType
<1>2. CASE mark[t] < Len(hooks)
  <2>1. Kept(t) = SubSeq(hooks, 1, mark[t]) BY <1>2 DEF Kept
  <2>2. /\ Len(Kept(t)) = mark[t]
        /\ \A i \in 1..mark[t] : Kept(t)[i] = hooks[i]
    BY <1>1, <1>2, <2>1, SMT
  <2>3. /\ Len(Spliced(t)) = Len(hooks) - mark[t]
        /\ \A i \in 1..(Len(hooks) - mark[t]) : Spliced(t)[i] = hooks[mark[t] + i]
    BY <1>1, <1>2, SMT DEF Spliced
  <2> QED BY <1>1, <1>2, <2>2, <2>3, SMT
<1>3. CASE mark[t] >= Len(hooks)
  <2>1. Kept(t) = SubSeq(hooks, 1, Len(hooks)) BY <1>1, <1>3, SMT DEF Kept
  <2>2. /\ Len(Kept(t)) = Len(hooks)
        /\ \A i \in 1..Len(hooks) : Kept(t)[i] = hooks[i]
    BY <1>1, <2>1, SMT
  <2>3. Len(Spliced(t)) = 0 BY <1>1, <1>3, SMT DEF Spliced
  <2> QED BY <1>1, <1>3, <2>2, <2>3, SMT
<1> QED BY <1>1, <1>2, <1>3, SMT

\* Ending a live transaction t leaves the hooks of the others apart.
LEMMA CutApart ==
    ASSUME TypeOK, HooksApart, NEW t \in Tx, Live(t), met' = met, id' = id,
           \A e \in Event : Safe(e) => Safe(e)',
           hooks' = Kept(t), mark' = [mark EXCEPT ![t] = 0],
           stage'[t] \in {"flushing", "done", "failed"},
           \A u \in Tx : u # t => stage'[u] = stage[u]
    PROVE  HooksApart'
<1>1. TxType /\ hooks \in Seq(Event) BY DEF TypeOK, TxType
<1>2. \A u \in Tx : Live(u)' => u # t /\ Live(u) /\ mark'[u] = mark[u]
  BY <1>1 DEF Live, TxType
<1>3. \A u, v \in Tx : u # v /\ Live(u)' /\ Live(v)' => u \in met'
  BY <1>2 DEF HooksApart
<1>4. \A e \in Event : id'[e] > 0 /\ Owner[e] # Alone => stage'[Owner[e]] # "idle"
  BY DeliveryAssumption DEF HooksApart
<1>5. \A u \in Tx : Live(u)' => u \in met'
  BY <1>2 DEF HooksApart
<1>6. ASSUME NEW i \in 1..Len(hooks'), NEW h \in Event, h = hooks'[i] PROVE Apart(h, i)'
  <2>1. i \in 1..Len(hooks) /\ h = hooks[i] /\ i <= mark[t]
    BY <1>1, <1>6, SpliceParts, SMT DEF TxType
  <2>2. Apart(h, i) BY <2>1 DEF HooksApart
  <2>3. CASE Safe(h) BY <2>3 DEF Apart
  <2>4. CASE ~Safe(h)
    <3>1. Owner[h] \in Tx /\ Live(Owner[h]) /\ mark[Owner[h]] < i BY <2>2, <2>4 DEF Apart
    <3>2. Owner[h] # t BY <1>1, <2>1, <3>1, SMT DEF TxType
    <3>3. Owner[h] \in met BY <3>1, <3>2 DEF HooksApart
    <3> QED BY <2>4, <3>3 DEF Safe
  <2> QED BY <2>3, <2>4
<1> QED BY <1>3, <1>4, <1>5, <1>6 DEF HooksApart

LEMMA HooksApartKept ==
    ASSUME TypeOK, TypeOK', HooksApart, [Next]_vars
    PROVE  HooksApart'
<1>0. TxType /\ RowType /\ TxType' /\ RowType' /\ hooks \in Seq(Event) /\ Len(hooks) \in Nat
  BY SMT DEF TypeOK, TxType
<1>s. \A e \in Event : Safe(e) => Safe(e)' BY SafeKept
<1>h. \A i \in 1..Len(hooks) : hooks[i] \in Event BY <1>0, SMT
<1> USE DEF txVars, rowVars
<1>1. ASSUME UNCHANGED <<stage, mark, hooks, id, met>> PROVE HooksApart'
  BY <1>1 DEF HooksApart, Apart, Live, Safe, Published
<1>2. ASSUME NEW t \in Tx, TxStep(t) PROVE HooksApart'
  <2>1. CASE Begin(t)
    <3>1. /\ stage[t] = "idle" /\ hooks' = hooks /\ id' = id
          /\ \A u \in Tx : stage'[u] = (IF u = t THEN "open" ELSE stage[u])
          /\ \A u \in Tx : mark'[u] = (IF u = t THEN Len(hooks) ELSE mark[u])
          /\ met' = IF \E u \in Tx : Live(u) THEN met \cup {u \in Tx : Live(u)} \cup {t} ELSE met
      <4>1. {u \in Tx : stage[u] \in {"open", "committed"}} = {u \in Tx : Live(u)} BY DEF Live
      <4> QED BY <1>0, <2>1, <4>1 DEF Begin, TxType
    <3>2. \A u \in Tx : Live(u)' <=> (u = t \/ Live(u)) BY <3>1 DEF Live
    <3>3. \A u, v \in Tx : u # v /\ Live(u)' /\ Live(v)' => u \in met'
      BY <3>1, <3>2 DEF HooksApart
    <3>4. \A e \in Event : id'[e] > 0 /\ Owner[e] # Alone => stage'[Owner[e]] # "idle"
      BY <3>1, DeliveryAssumption DEF HooksApart
    <3>5. \A u \in Tx : Live(u)' /\ u \notin met' => mark'[u] <= Len(hooks')
      BY <1>0, <3>1, <3>2, SMT DEF HooksApart
    <3>6. ASSUME NEW i \in 1..Len(hooks), NEW h \in Event, h = hooks[i] PROVE Apart(h, i)'
      <4>1. Apart(h, i) BY <3>6 DEF HooksApart
      <4>2. CASE Safe(h) BY <1>s, <4>2 DEF Apart
      <4>3. CASE ~Safe(h)
        <5>1. Owner[h] # t BY <3>1, <4>1, <4>3 DEF Apart, Live
        <5> QED BY <3>1, <3>2, <4>1, <4>3, <5>1 DEF Apart
      <4> QED BY <4>2, <4>3
    <3> QED BY <3>1, <3>3, <3>4, <3>5, <3>6 DEF HooksApart
  <2>2. CASE Commit(t)
    <3>1. /\ UNCHANGED <<mark, hooks, met, id>> /\ stage[t] = "open"
          /\ \A u \in Tx : stage'[u] = (IF u = t THEN "committed" ELSE stage[u])
      BY <1>0, <2>2 DEF Commit, TxType
    <3>2. \A u \in Tx : Live(u)' <=> Live(u) BY <3>1 DEF Live
    <3>3. \A e \in Event : id'[e] > 0 /\ Owner[e] # Alone => stage'[Owner[e]] # "idle"
      BY <3>1, DeliveryAssumption DEF HooksApart
    <3>4. ASSUME NEW i \in 1..Len(hooks), NEW h \in Event, h = hooks[i] PROVE Apart(h, i)'
      <4>1. Apart(h, i) BY <3>4 DEF HooksApart
      <4> QED BY <1>s, <3>1, <3>2, <4>1 DEF Apart
    <3> QED BY <3>1, <3>2, <3>3, <3>4 DEF HooksApart
  <2>3. CASE Flush(t)
    BY <1>0, <1>s, <2>3, CutApart DEF Flush, Live, TxType
  <2>4. CASE CommitLost(t)
    BY <1>0, <1>s, <2>4, CutApart DEF CommitLost, Live, TxType
  <2>5. CASE Rollback(t)
    BY <1>0, <1>s, <2>5, CutApart DEF Rollback, Live, TxType
  <2>6. CASE Enqueue(t) BY <1>1, <2>6 DEF Enqueue
  <2>7. CASE Dispatch(t)
    <3>1. UNCHANGED <<mark, hooks, met, id>> /\ stage[t] = "flushing"
          /\ \A u \in Tx : stage'[u] = stage[u] \/ (u = t /\ stage'[u] = "done")
      <4>1. UNCHANGED <<mark, hooks, met, id>> /\ stage[t] = "flushing" BY <2>7 DEF Dispatch
      <4>2. PICK s \in {"done", "flushing"} : stage' = [stage EXCEPT ![t] = s]
        BY <2>7, <4>1 DEF Dispatch
      <4>3. DOMAIN stage = Tx BY <1>0 DEF TxType
      <4>4. stage'[t] = s /\ \A u \in Tx \ {t} : stage'[u] = stage[u] BY <4>2, <4>3
      <4>5. \A u \in Tx : stage'[u] = stage[u] \/ (u = t /\ stage'[u] = "done")
        BY <4>1, <4>2, <4>4
      <4> QED BY <4>1, <4>5
    <3>2. \A u \in Tx : Live(u)' <=> Live(u) BY <3>1 DEF Live
    <3>3. \A e \in Event : id'[e] > 0 /\ Owner[e] # Alone => stage'[Owner[e]] # "idle"
      BY <3>1, DeliveryAssumption DEF HooksApart
    <3>4. ASSUME NEW i \in 1..Len(hooks), NEW h \in Event, h = hooks[i] PROVE Apart(h, i)'
      <4>1. Apart(h, i) BY <3>4 DEF HooksApart
      <4> QED BY <1>s, <3>1, <3>2, <4>1 DEF Apart
    <3> QED BY <3>1, <3>2, <3>3, <3>4 DEF HooksApart
  <2>8. ASSUME NEW e \in Event, Emit(t, e) PROVE HooksApart'
    <3>1. UNCHANGED <<stage, mark, met>> /\ stage[t] = "open" /\ Owner[e] = t
          /\ hooks' = Append(hooks, e) /\ id'[e] > 0
          /\ \A x \in Event : x # e => id'[x] = id[x]
      BY <1>0, <2>8, SMT DEF Emit, RowType
    <3>2. /\ Len(hooks') = Len(hooks) + 1 /\ hooks'[Len(hooks) + 1] = e
          /\ \A i \in 1..Len(hooks) : hooks'[i] = hooks[i]
      BY <1>0, <3>1, SMT
    <3>3. \A x \in Event : id'[x] > 0 /\ Owner[x] # Alone => stage'[Owner[x]] # "idle"
      BY <3>1 DEF HooksApart
    <3>4. \A u \in Tx : Live(u)' <=> Live(u) BY <3>1 DEF Live
    <3>5. \A u \in Tx : Live(u)' /\ u \notin met' => mark'[u] <= Len(hooks')
      BY <1>0, <3>1, <3>2, <3>4, SMT DEF HooksApart, TxType
    <3>6. ASSUME NEW i \in 1..Len(hooks'), NEW h \in Event, h = hooks'[i] PROVE Apart(h, i)'
      <4>1. CASE i = Len(hooks) + 1
        <5>1. t \in met \/ mark[t] < i BY <1>0, <3>1, <4>1, SMT DEF HooksApart, Live, TxType
        <5>2. h = e BY <3>2, <3>6, <4>1
        <5> QED BY <3>1, <5>1, <5>2 DEF Apart, Safe, Live
      <4>2. CASE i \in 1..Len(hooks)
        <5>1. Apart(h, i) BY <3>2, <3>6, <4>2 DEF HooksApart
        <5>2. id[h] > 0 => id'[h] > 0 BY <3>1
        <5> QED BY <1>s, <3>1, <3>4, <5>1, <5>2 DEF Apart
      <4> QED BY <1>0, <3>2, <3>6, <4>1, <4>2, SMT
    <3>7. \A u, v \in Tx : u # v /\ Live(u)' /\ Live(v)' => u \in met'
      BY <3>1, <3>4 DEF HooksApart
    <3> QED BY <3>3, <3>5, <3>6, <3>7 DEF HooksApart
  <2> QED BY <1>2, <2>1, <2>2, <2>3, <2>4, <2>5, <2>6, <2>7, <2>8 DEF TxStep
<1>3. ASSUME NEW e \in Event, EmitAlone(e) PROVE HooksApart'
  <2>1. UNCHANGED <<stage, mark, met>> /\ Owner[e] = Alone /\ id'[e] > 0
        /\ (hooks' = hooks \/ hooks' = Append(hooks, e))
        /\ \A x \in Event : x # e => id'[x] = id[x]
    BY <1>0, <1>3, SMT DEF EmitAlone, RowType
  <2>2. Safe(e)' BY <2>1 DEF Safe, Published
  <2>3. /\ Len(hooks) <= Len(hooks')
        /\ \A i \in 1..Len(hooks') :
              hooks'[i] = e \/ (i \in 1..Len(hooks) /\ hooks'[i] = hooks[i])
    <3>1. CASE hooks' = hooks BY <1>0, <3>1, SMT
    <3>2. CASE hooks' = Append(hooks, e)
      <4>1. Len(hooks') = Len(hooks) + 1 /\ hooks'[Len(hooks) + 1] = e BY <1>0, <3>2, SMT
      <4>2. \A i \in 1..Len(hooks) : hooks'[i] = hooks[i] BY <1>0, <3>2, SMT
      <4>3. \A i \in 1..Len(hooks') : i = Len(hooks) + 1 \/ i \in 1..Len(hooks)
        BY <1>0, <4>1, SMT
      <4>4. Len(hooks) <= Len(hooks') BY <1>0, <4>1, SMT
      <4>5. \A i \in 1..Len(hooks') :
               hooks'[i] = e \/ (i \in 1..Len(hooks) /\ hooks'[i] = hooks[i])
        <5> TAKE i \in 1..Len(hooks')
        <5>1. CASE i = Len(hooks) + 1 BY <4>1, <5>1
        <5>2. CASE i \in 1..Len(hooks) BY <4>2, <5>2
        <5> QED BY <4>3, <5>1, <5>2
      <4> QED BY <4>4, <4>5
    <3> QED BY <2>1, <3>1, <3>2
  <2>4. \A x \in Event : id'[x] > 0 /\ Owner[x] # Alone => stage'[Owner[x]] # "idle"
    BY <2>1 DEF HooksApart
  <2>5. \A u \in Tx : Live(u)' <=> Live(u) BY <2>1 DEF Live
  <2>6. Len(hooks') \in Nat BY <1>0, SMT DEF TxType
  <2>7. \A u \in Tx : Live(u)' /\ u \notin met' => mark'[u] <= Len(hooks')
    BY <1>0, <2>1, <2>3, <2>5, <2>6, SMT DEF HooksApart, TxType
  <2>8. ASSUME NEW i \in 1..Len(hooks'), NEW h \in Event, h = hooks'[i] PROVE Apart(h, i)'
    <3>1. CASE h = e BY <2>2, <3>1 DEF Apart
    <3>2. CASE h # e
      <4>1. Apart(h, i) BY <2>3, <2>8, <3>2 DEF HooksApart
      <4> QED BY <1>s, <2>1, <2>5, <4>1 DEF Apart
    <3> QED BY <3>1, <3>2
  <2> QED BY <2>1, <2>4, <2>5, <2>7, <2>8 DEF HooksApart
<1>4. CASE Crash
  <2>1. hooks' = <<>> /\ id' = id
        /\ \A u \in Tx : ~Live(u)' /\ (stage[u] # "idle" => stage'[u] # "idle")
    BY <1>0, <1>4 DEF Crash, Live, TxType
  <2> QED BY <2>1, DeliveryAssumption DEF HooksApart
<1>5. ASSUME NEW p \in Poll, PollStep(p) PROVE HooksApart'
  BY <1>1, <1>5 DEF PollStep, ReadCursor, Select, Recover, Break, SaveCursor
<1>6. ASSUME NEW q \in Queue, NEW e \in Event, JobStep(q, e) PROVE HooksApart'
  BY <1>1, <1>6 DEF JobStep, LoseLock, Stalled, Forget, Take
<1>7. ASSUME NEW w \in Worker, Handle(w) \/ Record(w) \/ Throw(w) PROVE HooksApart'
  BY <1>1, <1>7 DEF Handle, Record, Throw
<1>8. CASE UNCHANGED vars BY <1>1, <1>8 DEF vars
<1> QED BY <1>2, <1>3, <1>4, <1>5, <1>6, <1>7, <1>8 DEF Next

\* The lists that hooks are run from: cut off by Flush, used up by Dispatch.
LEMMA FlushingSafe ==
    ASSUME TypeOK, HooksApart, OnlySafeLeft, [Next]_vars, NEW t \in Tx,
           NEW i \in 1..Len(flushing'[t]), NEW e \in Event, e = flushing'[t][i]
    PROVE  Safe(e)'
<1>0. TxType /\ hooks \in Seq(Event) BY DEF TypeOK, TxType
<1>1. CASE \E k \in 1..Len(flushing[t]) : e = flushing[t][k]
  BY <1>1, SafeKept DEF OnlySafeLeft
<1>2. CASE Flush(t)
  <2>1. flushing'[t] = Spliced(t) /\ stage[t] = "committed"
    BY <1>0, <1>2 DEF Flush, TxType
  <2>2. e = hooks[mark[t] + i] /\ mark[t] + i \in 1..Len(hooks)
    BY <1>0, <2>1, SpliceParts
  <2>3. Apart(e, mark[t] + i) BY <2>2 DEF HooksApart
  <2>4. Safe(e) BY <2>1, <2>3 DEF Apart, Live, HooksApart, Safe, Published
  <2> QED BY <2>4, SafeKept
<1>3. CASE Dispatch(t)
  <2>1. flushing'[t] = Tail(flushing[t]) /\ flushing[t] \in Seq(Event) /\ flushing[t] # <<>>
    BY <1>0, <1>3 DEF Dispatch, TxType
  <2>2. i + 1 \in 1..Len(flushing[t]) /\ e = flushing[t][i + 1] BY <2>1, SMT
  <2> QED BY <1>1, <2>2
<1>4. CASE ~Flush(t) /\ ~Dispatch(t)
  <2>1. flushing'[t] = flushing[t] \/ flushing'[t] = <<>>
    <3>1. ASSUME NEW u \in Tx, TxStep(u) PROVE flushing'[t] = flushing[t]
      <4>1. CASE Flush(u) BY <1>0, <1>4, <4>1 DEF Flush, TxType
      <4>2. CASE Dispatch(u) BY <1>0, <1>4, <4>2 DEF Dispatch, TxType
      <4>3. CASE ~Flush(u) /\ ~Dispatch(u)
        BY <3>1, <4>3 DEF TxStep, Begin, Commit, CommitLost, Rollback, Enqueue, Emit
      <4> QED BY <4>1, <4>2, <4>3
    <3>2. CASE Crash BY <3>2 DEF Crash
    <3>3. CASE ~Crash /\ ~(\E u \in Tx : TxStep(u))
      BY <3>3 DEF Next, PollStep, JobStep, vars, txVars, EmitAlone, ReadCursor, Select, Recover,
         Break, SaveCursor, LoseLock, Stalled, Forget, Take, Handle, Record, Throw
    <3> QED BY <3>1, <3>2, <3>3
  <2>2. flushing'[t] # <<>> BY SMT
  <2> QED BY <1>1, <2>1, <2>2
<1> QED BY <1>2, <1>3, <1>4

\* The batches of the polls were read from committed rows.
LEMMA BatchSafe ==
    ASSUME TypeOK, OnlySafeLeft, [Next]_vars, NEW p \in Poll, poll'[p].step = "enqueue",
           NEW e \in poll'[p].batch, e \in Event
    PROVE  Safe(e)'
<1>0. PollType BY DEF TypeOK
<1>1. CASE poll[p].step = "enqueue" /\ e \in poll[p].batch
  BY <1>1, SafeKept DEF OnlySafeLeft
<1>2. CASE poll'[p] = poll[p] BY <1>1, <1>2
<1>3. CASE poll'[p] # poll[p]
  <2>1. CASE Select(p)
    <3>1. poll'[p] = NoPoll \/ poll'[p] = Passing(poll[p], poll[p].from, Selected(poll[p].from))
      BY <1>0, <2>1 DEF Select, PollType
    <3>2. e \in Selected(poll[p].from) BY <3>1 DEF NoPoll, Passing
    <3> QED BY <3>2, SafeKept DEF Selected, Safe
  <2>2. CASE Recover(p)
    <3>1. PICK x : poll'[p] = Passing(poll[p], id[x], poll[p].batch \ {x})
      BY <1>0, <2>2 DEF Recover, PollType
    <3> QED BY <1>1, <2>2, <3>1 DEF Passing, Recover
  <2>3. CASE Break(p)
    <3>1. poll'[p] = Passing(poll[p], poll[p].reached, {}) BY <1>0, <2>3 DEF Break, PollType
    <3> QED BY <3>1 DEF Passing
  <2>4. CASE (\E q \in Queue : ReadCursor(p, q)) \/ SaveCursor(p) \/ Crash
    BY <1>0, <2>4 DEF ReadCursor, SaveCursor, Crash, PollType, NoPoll
  <2>5. PollStep(p) \/ Crash
    <3>1. ASSUME NEW u \in Poll, PollStep(u), u # p PROVE poll'[p] = poll[p]
      BY <1>0, <3>1 DEF PollType, PollStep, ReadCursor, Select, Recover, Break, SaveCursor
    <3>2. ASSUME ~Crash, ~(\E u \in Poll : PollStep(u)) PROVE UNCHANGED poll
      BY <3>2 DEF Next, TxStep, JobStep, vars, pollVars, Begin, Commit, Flush, CommitLost, Rollback,
         Enqueue, Dispatch, Emit, EmitAlone, LoseLock, Stalled, Forget, Take, Handle, Record, Throw
    <3> QED BY <1>3, <3>1, <3>2
  <2> QED BY <2>1, <2>2, <2>3, <2>4, <2>5 DEF PollStep
<1> QED BY <1>2, <1>3

\* A job is there for an event that was handed to the queues, or had one.
LEMMA JobSafe ==
    ASSUME TypeOK, OnlySafeLeft, [Next]_vars, NEW q \in Queue, NEW e \in Event,
           job'[q][e].st # "none"
    PROVE  Safe(e)'
<1>0. QueueType /\ job[q][e] \in Job BY DEF TypeOK, QueueType
<1>1. CASE job[q][e].st # "none" BY <1>1, SafeKept DEF OnlySafeLeft
<1>2. CASE OnlyAdds
  <2>1. CASE AtHand(e)
    <3>1. ASSUME NEW t \in Tx, flushing[t] # <<>>, e = Head(flushing[t]) PROVE Safe(e)
      <4>1. 1 \in 1..Len(flushing[t]) /\ e = flushing[t][1]
        BY <3>1, SMT DEF TypeOK, TxType
      <4> QED BY <4>1 DEF OnlySafeLeft
    <3> QED BY <2>1, <3>1, SafeKept DEF AtHand, OnlySafeLeft
  <2> QED BY <1>1, <1>2, <2>1 DEF OnlyAdds
<1>3. CASE \E w \in Worker, x \in Queue, y \in Event : Take(w, x, y)
  <2>1. PICK w \in Worker, x \in Queue, y \in Event : Take(w, x, y) BY <1>3
  <2>2. CASE x = q /\ y = e BY <1>1, <2>1, <2>2 DEF Take
  <2>3. CASE x # q \/ y # e BY <1>0, <1>1, <2>1, <2>3 DEF Take, Became, QueueType
  <2> QED BY <2>2, <2>3
<1>4. CASE \E w \in Worker : Handle(w) \/ Record(w) \/ Throw(w)
  <2>1. PICK w \in Worker : Handle(w) \/ Record(w) \/ Throw(w) BY <1>4
  <2>2. CASE work[w].q = q /\ work[w].e = e
    BY <2>1, <2>2, SafeKept DEF OnlySafeLeft, Handle, Record, Throw
  <2>3. CASE work[w].q # q \/ work[w].e # e
    <3>1. job'[q][e] = job[q][e]
      BY <1>0, <2>1, <2>3 DEF Handle, Record, Throw, Ended, Became, QueueType
    <3> QED BY <1>1, <3>1
  <2> QED BY <2>2, <2>3
<1>5. CASE \E x \in Queue, y \in Event : LoseLock(x, y) \/ Stalled(x, y) \/ Forget(x, y)
  <2>1. PICK x \in Queue, y \in Event : LoseLock(x, y) \/ Stalled(x, y) \/ Forget(x, y) BY <1>5
  <2>2. CASE x = q /\ y = e BY <1>1, <2>1, <2>2 DEF LoseLock, Stalled, Forget
  <2>3. CASE x # q \/ y # e
    BY <1>0, <1>1, <2>1, <2>3 DEF LoseLock, Stalled, Forget, Became, QueueType
  <2> QED BY <2>2, <2>3
<1>6. CASE Crash
  <2>1. job'[q][e] = [job[q][e] EXCEPT !.lock = NoWorker] BY <1>6 DEF Crash
  <2>2. job'[q][e].st = job[q][e].st BY <1>0, <2>1, Zenon DEF Job
  <2> QED BY <1>1, <2>2
<1> QED BY <1>2, <1>3, <1>4, <1>5, <1>6, QueueSteps

\* What a worker is at comes from a job.
LEMMA WorkSafe ==
    ASSUME TypeOK, OnlySafeLeft, [Next]_vars, NEW w \in Worker,
           work'[w].step \in {"handle", "record"}, NEW e \in Event, e = work'[w].e
    PROVE  Safe(e)'
<1>0. QueueType BY DEF TypeOK
<1>1. CASE work[w].step \in {"handle", "record"} /\ e = work[w].e
  BY <1>1, SafeKept DEF OnlySafeLeft
<1>2. CASE OnlyAdds BY <1>1, <1>2 DEF OnlyAdds
<1>3. CASE \E u \in Worker, x \in Queue, y \in Event : Take(u, x, y)
  <2>1. PICK u \in Worker, x \in Queue, y \in Event : Take(u, x, y) BY <1>3
  <2>2. Safe(y)' BY <2>1, SafeKept DEF Take, OnlySafeLeft
  <2>3. work'[w] = work[w] \/ work'[w].e = y BY <1>0, <2>1 DEF Take, QueueType
  <2> QED BY <1>1, <2>2, <2>3
<1>4. CASE \E u \in Worker : Handle(u) \/ Record(u) \/ Throw(u)
  BY <1>0, <1>1, <1>4 DEF Handle, Record, Throw, QueueType, NoWork
<1>5. CASE \E x \in Queue, y \in Event : LoseLock(x, y) \/ Stalled(x, y) \/ Forget(x, y)
  BY <1>1, <1>5 DEF LoseLock, Stalled, Forget
<1>6. CASE Crash BY <1>6 DEF Crash, NoWork
<1> QED BY <1>2, <1>3, <1>4, <1>5, <1>6, QueueSteps

\* Who is told: the in-memory handlers by a hook or by emit, the others by a worker.
LEMMA ToldSafe ==
    ASSUME TypeOK, TypeOK', OnlySafeLeft, [Next]_vars, NEW e \in Event, Told(e)'
    PROVE  Safe(e)'
<1>0. QueueType /\ shown \in [Event -> Nat] BY DEF TypeOK
<1>1. CASE Told(e) BY <1>1, SafeKept DEF OnlySafeLeft
<1>2. ASSUME NEW t \in Tx, Dispatch(t) PROVE Safe(e)'
  <2>1. CASE e = Head(flushing[t])
    <3>1. 1 \in 1..Len(flushing[t]) /\ e = flushing[t][1]
      BY <1>2, <2>1, SMT DEF Dispatch, TypeOK, TxType
    <3> QED BY <3>1, SafeKept DEF OnlySafeLeft
  <2>2. CASE e # Head(flushing[t])
    BY <1>0, <1>1, <1>2, <2>2 DEF Dispatch, Told, queueVars
  <2> QED BY <2>1, <2>2
<1>3. ASSUME NEW x \in Event, EmitAlone(x) PROVE Safe(e)'
  <2>1. CASE x = e
    <3>1. id'[e] > 0 /\ Owner[e] = Alone BY <1>3, <2>1, SMT DEF EmitAlone, TypeOK, RowType
    <3> QED BY <3>1 DEF Safe, Published
  <2>2. CASE x # e BY <1>0, <1>1, <1>3, <2>2 DEF EmitAlone, Told, queueVars
  <2> QED BY <2>1, <2>2
<1>4. ASSUME NEW w \in Worker, Handle(w) PROVE Safe(e)'
  <2>1. CASE work[w].e = e BY <1>4, <2>1, SafeKept DEF OnlySafeLeft, Handle
  <2>2. CASE work[w].e # e
    <3>1. \A q \in Queue : handled'[q][e] = handled[q][e]
      BY <1>0, <1>4, <2>2 DEF Handle, QueueType
    <3> QED BY <1>1, <1>4, <3>1 DEF Handle, Told
  <2> QED BY <2>1, <2>2
<1>5. ASSUME UNCHANGED <<shown, handled>> PROVE Safe(e)'
  BY <1>1, <1>5 DEF Told
<1>6. ASSUME NEW t \in Tx, TxStep(t) PROVE Safe(e)'
  BY <1>2, <1>5, <1>6 DEF TxStep, Begin, Commit, Flush, CommitLost, Rollback, Enqueue, Emit, queueVars
<1>7. ASSUME NEW p \in Poll, PollStep(p) PROVE Safe(e)'
  BY <1>5, <1>7 DEF PollStep, ReadCursor, Select, Recover, Break, SaveCursor, queueVars
<1>8. ASSUME NEW q \in Queue, NEW x \in Event, JobStep(q, x) PROVE Safe(e)'
  BY <1>5, <1>8 DEF JobStep, LoseLock, Stalled, Forget, Take
<1>9. CASE Crash \/ (\E w \in Worker : Record(w) \/ Throw(w)) \/ UNCHANGED vars
  BY <1>5, <1>9 DEF Crash, Record, Throw, vars, queueVars
<1> QED BY <1>3, <1>4, <1>6, <1>7, <1>8, <1>9 DEF Next

LEMMA OnlySafeLeftHolds == Spec => [](HooksApart /\ OnlySafeLeft)
<1>1. Init => HooksApart /\ OnlySafeLeft
  BY SMT DEF Init, HooksApart, OnlySafeLeft, Live, Told, NoPoll, NoJob, NoWork
<1>2. ASSUME TypeOK, TypeOK', HooksApart, OnlySafeLeft, [Next]_vars
      PROVE  HooksApart' /\ OnlySafeLeft'
  <2>1. \A t \in Tx, e \in Event : \A i \in 1..Len(flushing'[t]) : e = flushing'[t][i] => Safe(e)'
    BY <1>2, FlushingSafe
  <2>2. \A p \in Poll, e \in Event : poll'[p].step = "enqueue" /\ e \in poll'[p].batch => Safe(e)'
    BY <1>2, BatchSafe
  <2>3. \A w \in Worker, e \in Event :
           work'[w].step \in {"handle", "record"} /\ e = work'[w].e => Safe(e)'
    BY <1>2, WorkSafe
  <2>4. \A e \in Event : Told(e)' => Safe(e)' BY <1>2, ToldSafe
  <2>5. \A q \in Queue, e \in Event : job'[q][e].st # "none" => Safe(e)' BY <1>2, JobSafe
  <2>6. HooksApart' BY <1>2, HooksApartKept
  <2> QED BY <2>1, <2>2, <2>3, <2>4, <2>5, <2>6 DEF OnlySafeLeft
<1> QED BY <1>1, <1>2, TypeCorrect, PTL DEF Spec

\* Only transactions that overlap leak events that are not committed.
THEOREM OnlyOverlapLeaksHolds == Spec => []OnlyOverlapLeaks
<1>1. OnlySafeLeft => OnlyOverlapLeaks BY DEF OnlySafeLeft, OnlyOverlapLeaks, Safe
<1> QED BY <1>1, OnlySafeLeftHolds, PTL

---------------------------------------------------------------------------
(* The in-memory handlers                                                  *)

\* The lists of hooks: the one of the process, and those cut off it.
Lists == Tx \cup {Alone}
List(x) == IF x = Alone THEN hooks ELSE flushing[x]

\* The hook of e stands at place i of list x.
Place(e, x, i) == i \in 1..Len(List(x)) /\ List(x)[i] = e

\* An event has at most one hook, in whichever list; it was emitted, and its
\* handlers have not run, unless emit itself has run them.
HookOnce ==
    /\ \A e \in Event, x, y \in Lists, i, j \in Nat :
          Place(e, x, i) /\ Place(e, y, j) => x = y /\ i = j
    /\ \A e \in Event, x \in Lists, i \in Nat :
          Place(e, x, i) => id[e] > 0 /\ (Owner[e] # Alone => shown[e] = 0)
    /\ \A e \in Event : shown[e] <= 1 /\ (id[e] = 0 => shown[e] = 0)

\* A hook appended to the list is the only new place.
LEMMA AppendedPlace ==
    ASSUME TypeOK, NEW e \in Event, hooks' = Append(hooks, e), flushing' = flushing,
           NEW h \in Event, NEW x \in Lists, NEW i \in Nat, Place(h, x, i)'
    PROVE  Place(h, x, i) \/ (h = e /\ x = Alone /\ i = Len(hooks) + 1)
<1>1. hooks \in Seq(Event) /\ Len(hooks) \in Nat BY SMT DEF TypeOK, TxType
<1>2. CASE x = Alone
  <2>1. i \in 1..Len(hooks') /\ hooks'[i] = h BY <1>2 DEF Place, List
  <2>2. Len(hooks') = Len(hooks) + 1 /\ hooks'[Len(hooks) + 1] = e BY <1>1, SMT
  <2>3. \A k \in 1..Len(hooks) : hooks'[k] = hooks[k] BY <1>1, SMT
  <2>4. CASE i \in 1..Len(hooks) BY <1>2, <2>1, <2>3, <2>4 DEF Place, List
  <2>5. CASE i = Len(hooks) + 1 BY <1>2, <2>1, <2>2, <2>5
  <2> QED BY <1>1, <2>1, <2>2, <2>4, <2>5, SMT
<1>3. CASE x # Alone BY <1>3 DEF Place, List
<1> QED BY <1>2, <1>3

\* What is kept of the list keeps its places, up to the mark.
LEMMA KeptPlace ==
    ASSUME TypeOK, NEW t \in Tx, hooks' = Kept(t),
           NEW h \in Event, NEW i \in Nat, Place(h, Alone, i)'
    PROVE  Place(h, Alone, i) /\ i <= mark[t]
<1>1. TxType BY DEF TypeOK
<1>2. mark[t] \in Nat /\ Len(Kept(t)) \in Nat BY <1>1, SpliceParts DEF TxType
<1>3. i \in 1..Len(Kept(t)) /\ Kept(t)[i] = h BY DEF Place, List
<1>4. Kept(t)[i] = hooks[i] /\ i \in 1..Len(hooks) BY <1>1, <1>3, SpliceParts
<1>5. i <= mark[t] BY <1>1, <1>2, <1>3, SpliceParts, SMT
<1> QED BY <1>3, <1>4, <1>5 DEF Place, List

LEMMA HookOnceInit == Init => HookOnce
<1>1. ASSUME Init, NEW x \in Lists PROVE List(x) = <<>>
  BY <1>1 DEF Init, List, Lists
<1>2. Len(<<>>) = 0 BY SMT
<1> QED BY <1>1, <1>2, SMT DEF Init, HookOnce, Place

\* The step of a transaction that emits, ends or runs a hook; of an event alone;
\* and the crash. Nothing else touches a list or runs a handler in memory.
LEMMA HookOnceKept ==
    ASSUME TypeOK, TypeOK', HookOnce, [Next]_vars
    PROVE  HookOnce'
<1>0. /\ TxType /\ RowType /\ hooks \in Seq(Event) /\ Len(hooks) \in Nat
      /\ shown \in [Event -> Nat] /\ flushing \in [Tx -> Seq(Event)] /\ Alone \notin Tx
  BY DeliveryAssumption, SMT DEF TypeOK, TxType
<1> USE DEF txVars, rowVars
<1>1. ASSUME UNCHANGED <<hooks, flushing, id, shown>> PROVE HookOnce'
  BY <1>1 DEF HookOnce, Place, List
<1>2. ASSUME NEW e \in Event, id[e] = 0, hooks' = Append(hooks, e), UNCHANGED flushing,
             id'[e] > 0, \A h \in Event \ {e} : id'[h] = id[h],
             \A h \in Event \ {e} : shown'[h] = shown[h],
             shown'[e] <= 1, Owner[e] # Alone => shown'[e] = 0
      PROVE  HookOnce'
  <2>1. \A h \in Event, x \in Lists, i \in Nat :
           Place(h, x, i)' => \/ Place(h, x, i)
                              \/ h = e /\ x = Alone /\ i = Len(hooks) + 1
    BY <1>2, AppendedPlace
  <2>2. \A x \in Lists, i \in Nat : ~Place(e, x, i) BY <1>0, <1>2, SMT DEF HookOnce, RowType
  <2>3. ASSUME NEW h \in Event, NEW x \in Lists, NEW y \in Lists, NEW i \in Nat, NEW j \in Nat,
               Place(h, x, i)', Place(h, y, j)'
        PROVE  x = y /\ i = j
    BY <2>1, <2>2, <2>3 DEF HookOnce
  <2>4. ASSUME NEW h \in Event, NEW x \in Lists, NEW i \in Nat, Place(h, x, i)'
        PROVE  id'[h] > 0 /\ (Owner[h] # Alone => shown'[h] = 0)
    BY <1>2, <2>1, <2>2, <2>4 DEF HookOnce
  <2>5. ASSUME NEW h \in Event PROVE shown'[h] <= 1 /\ (id'[h] = 0 => shown'[h] = 0)
    <3>1. CASE h = e BY <1>2, <3>1, SMT
    <3>2. CASE h # e BY <1>2, <3>2 DEF HookOnce
    <3> QED BY <3>1, <3>2
  <2> QED BY <2>3, <2>4, <2>5 DEF HookOnce
<1>3. ASSUME NEW t \in Tx, hooks' = Kept(t), UNCHANGED <<flushing, id, shown>> PROVE HookOnce'
  <2>1. \A h \in Event, x \in Lists, i \in Nat : Place(h, x, i)' => Place(h, x, i)
    <3> SUFFICES ASSUME NEW h \in Event, NEW x \in Lists, NEW i \in Nat, Place(h, x, i)'
                 PROVE  Place(h, x, i)
      OBVIOUS
    <3>1. CASE x = Alone BY <1>3, <3>1, KeptPlace
    <3>2. CASE x # Alone BY <1>3, <3>2 DEF Place, List
    <3> QED BY <3>1, <3>2
  <2> QED BY <1>3, <2>1 DEF HookOnce
<1>4. ASSUME NEW t \in Tx, Flush(t) PROVE HookOnce'
  <2>1. hooks' = Kept(t) /\ UNCHANGED <<id, shown>>
        /\ \A u \in Tx : flushing'[u] = IF u = t THEN Spliced(t) ELSE flushing[u]
    BY <1>0, <1>4 DEF Flush
  <2>m. mark[t] \in Nat BY <1>0 DEF TxType
  <2>2. \A h \in Event, i \in Nat : Place(h, t, i)' => Place(h, Alone, mark[t] + i) /\ i > 0
    <3> SUFFICES ASSUME NEW h \in Event, NEW i \in Nat, Place(h, t, i)'
                 PROVE  Place(h, Alone, mark[t] + i) /\ i > 0
      OBVIOUS
    <3>1. i \in 1..Len(Spliced(t)) /\ Spliced(t)[i] = h BY <1>0, <2>1 DEF Place, List
    <3>2. Spliced(t)[i] = hooks[mark[t] + i] /\ mark[t] + i \in 1..Len(hooks)
      BY <1>0, <3>1, SpliceParts
    <3>3. i > 0 BY <3>1, SMT
    <3> QED BY <3>1, <3>2, <3>3 DEF Place, List
  <2>3. \A h \in Event, i \in Nat : Place(h, Alone, i)' => Place(h, Alone, i) /\ i <= mark[t]
    BY <2>1, KeptPlace
  <2>4. \A h \in Event, x \in Tx \ {t}, i \in Nat : Place(h, x, i)' => Place(h, x, i)
    BY <1>0, <2>1 DEF Place, List
  <2>5. ASSUME NEW h \in Event, NEW x \in Lists, NEW y \in Lists, NEW i \in Nat, NEW j \in Nat,
               Place(h, x, i)', Place(h, y, j)'
        PROVE  x = y /\ i = j
    <3> DEFINE k == mark[t] + i
               l == mark[t] + j
    <3>0. Alone \in Lists /\ t \in Lists /\ t # Alone /\ k \in Nat /\ l \in Nat
      BY <1>0, <2>m, SMT DEF Lists
    <3>1. CASE x = t /\ y = t
      <4>1. Place(h, Alone, k) /\ Place(h, Alone, l) BY <2>2, <2>5, <3>1
      <4>2. k = l BY <3>0, <4>1 DEF HookOnce
      <4> QED BY <2>m, <3>1, <4>2, SMT
    <3>2. CASE x = t /\ y # t
      <4>1. Place(h, Alone, k) /\ i > 0 BY <2>2, <2>5, <3>2
      <4>2. CASE y = Alone
        <5>1. Place(h, Alone, j) /\ j <= mark[t] BY <2>3, <2>5, <4>2
        <5>2. k = j BY <3>0, <4>1, <5>1 DEF HookOnce
        <5> QED BY <2>m, <4>1, <5>1, <5>2, SMT
      <4>3. CASE y # Alone
        <5>1. y \in Tx \ {t} BY <3>2, <4>3 DEF Lists
        <5>2. Place(h, y, j) BY <2>4, <2>5, <5>1
        <5> QED BY <3>0, <4>1, <4>3, <5>2 DEF HookOnce
      <4> QED BY <4>2, <4>3
    <3>3. CASE x # t /\ y = t
      <4>1. Place(h, Alone, l) /\ j > 0 BY <2>2, <2>5, <3>3
      <4>2. CASE x = Alone
        <5>1. Place(h, Alone, i) /\ i <= mark[t] BY <2>3, <2>5, <4>2
        <5>2. l = i BY <3>0, <4>1, <5>1 DEF HookOnce
        <5> QED BY <2>m, <4>1, <5>1, <5>2, SMT
      <4>3. CASE x # Alone
        <5>1. x \in Tx \ {t} BY <3>3, <4>3 DEF Lists
        <5>2. Place(h, x, i) BY <2>4, <2>5, <5>1
        <5> QED BY <3>0, <4>1, <4>3, <5>2 DEF HookOnce
      <4> QED BY <4>2, <4>3
    <3>4. CASE x # t /\ y # t
      <4>1. Place(h, x, i) /\ Place(h, y, j) BY <2>3, <2>4, <2>5, <3>4 DEF Lists
      <4> QED BY <4>1 DEF HookOnce
    <3> QED BY <3>1, <3>2, <3>3, <3>4
  <2>6. ASSUME NEW h \in Event, NEW x \in Lists, NEW i \in Nat, Place(h, x, i)'
        PROVE  \E y \in Lists, j \in Nat : Place(h, y, j)
    <3>1. CASE x = t
      <4>1. mark[t] + i \in Nat BY <2>m, SMT
      <4> QED BY <2>2, <2>6, <3>1, <4>1 DEF Lists
    <3>2. CASE x # t BY <2>3, <2>4, <2>6, <3>2 DEF Lists
    <3> QED BY <3>1, <3>2
  <2> QED BY <2>1, <2>5, <2>6 DEF HookOnce
<1>5. ASSUME NEW t \in Tx, Dispatch(t) PROVE HookOnce'
  <2> DEFINE e == Head(flushing[t])
  <2>1. /\ flushing[t] # <<>> /\ flushing[t] \in Seq(Event) /\ UNCHANGED <<hooks, id>>
        /\ \A u \in Tx : flushing'[u] = IF u = t THEN Tail(flushing[t]) ELSE flushing[u]
        /\ shown' = IF Owner[e] = Alone THEN shown ELSE [shown EXCEPT ![e] = @ + 1]
    BY <1>0, <1>5 DEF Dispatch
  <2>2. e \in Event /\ 1 \in 1..Len(flushing[t]) /\ flushing[t][1] = e BY <2>1, SMT
  <2>3. Place(e, t, 1) BY <1>0, <2>2 DEF Place, List
  <2>4. \A h \in Event, i \in Nat : Place(h, t, i)' => Place(h, t, i + 1) /\ i > 0
    <3> SUFFICES ASSUME NEW h \in Event, NEW i \in Nat, Place(h, t, i)'
                 PROVE  Place(h, t, i + 1) /\ i > 0
      OBVIOUS
    <3>1. i \in 1..Len(Tail(flushing[t])) /\ Tail(flushing[t])[i] = h
      BY <1>0, <2>1 DEF Place, List
    <3>2. i + 1 \in 1..Len(flushing[t]) /\ flushing[t][i + 1] = h /\ i > 0 BY <2>1, <3>1, SMT
    <3> QED BY <1>0, <3>2 DEF Place, List
  <2>5. \A h \in Event, x \in Lists \ {t}, i \in Nat : Place(h, x, i)' => Place(h, x, i)
    BY <1>0, <2>1 DEF Place, List, Lists
  <2>6. ASSUME NEW h \in Event, NEW x \in Lists, NEW y \in Lists, NEW i \in Nat, NEW j \in Nat,
               Place(h, x, i)', Place(h, y, j)'
        PROVE  x = y /\ i = j
    <3>0. i + 1 \in Nat /\ j + 1 \in Nat /\ t \in Lists /\ (i + 1 = j + 1 => i = j)
      BY SMT DEF Lists
    <3>1. CASE x = t /\ y = t BY <2>4, <2>6, <3>0, <3>1 DEF HookOnce
    <3>2. CASE x = t /\ y # t BY <2>4, <2>5, <2>6, <3>0, <3>2 DEF HookOnce
    <3>3. CASE x # t /\ y = t BY <2>4, <2>5, <2>6, <3>0, <3>3 DEF HookOnce
    <3>4. CASE x # t /\ y # t BY <2>5, <2>6, <3>4 DEF HookOnce
    <3> QED BY <3>1, <3>2, <3>3, <3>4
  <2>7. ASSUME NEW h \in Event, NEW x \in Lists, NEW i \in Nat, Place(h, x, i)'
        PROVE  id[h] > 0 /\ h # e /\ (Owner[h] # Alone => shown[h] = 0)
    <3>0. i + 1 \in Nat /\ 1 \in Nat /\ t \in Lists /\ (i > 0 => i + 1 # 1) BY SMT DEF Lists
    <3>1. CASE x = t
      <4>1. Place(h, t, i + 1) /\ i > 0 BY <2>4, <2>7, <3>1
      <4> QED BY <2>2, <2>3, <3>0, <4>1 DEF HookOnce
    <3>2. CASE x # t
      <4>1. Place(h, x, i) BY <2>5, <2>7, <3>2
      <4> QED BY <2>2, <2>3, <3>0, <3>2, <4>1 DEF HookOnce
    <3> QED BY <3>1, <3>2
  <2>8. \A h \in Event : h # e => shown'[h] = shown[h] BY <1>0, <2>1
  <2>9. ASSUME NEW h \in Event PROVE shown'[h] <= 1 /\ (id'[h] = 0 => shown'[h] = 0)
    <3>1. CASE h # e BY <2>1, <2>8, <3>1 DEF HookOnce
    <3>2. CASE h = e /\ Owner[e] = Alone BY <2>1, <3>2 DEF HookOnce
    <3>3. CASE h = e /\ Owner[e] # Alone
      <4>1. id[e] > 0 /\ shown[e] = 0 BY <2>2, <2>3, <3>3, SMT DEF HookOnce, Lists
      <4>2. shown'[e] = 1 BY <1>0, <2>1, <2>2, <3>3, <4>1, SMT
      <4>3. id'[e] # 0 BY <1>0, <2>1, <2>2, <4>1, SMT DEF RowType
      <4> QED BY <3>3, <4>2, <4>3, SMT
    <3> QED BY <3>1, <3>2, <3>3
  <2> QED BY <2>1, <2>6, <2>7, <2>8, <2>9 DEF HookOnce
<1>6. CASE Crash
  <2>1. hooks' = <<>> /\ (\A u \in Tx : flushing'[u] = <<>>) /\ UNCHANGED <<id, shown>>
    BY <1>6 DEF Crash
  <2>2. \A h \in Event, x \in Lists, i \in Nat : ~Place(h, x, i)'
    <3>1. \A x \in Lists : List(x)' = <<>> BY <2>1 DEF List, Lists
    <3>2. \A i \in Nat : i \notin 1..Len(<<>>) BY SMT
    <3> QED BY <3>1, <3>2 DEF Place
  <2> QED BY <2>1, <2>2 DEF HookOnce
<1>7. ASSUME NEW t \in Tx, TxStep(t) PROVE HookOnce'
  <2>1. ASSUME NEW e \in Event, Emit(t, e) PROVE HookOnce'
    <3>1. /\ id[e] = 0 /\ hooks' = Append(hooks, e) /\ UNCHANGED <<flushing, shown>>
          /\ id'[e] = last + 1 /\ \A h \in Event \ {e} : id'[h] = id[h]
      BY <1>0, <2>1 DEF Emit, RowType
    <3>2. id'[e] > 0 BY <1>0, <3>1, SMT DEF RowType
    <3>3. shown'[e] = 0 /\ shown'[e] <= 1 BY <3>1, SMT DEF HookOnce
    <3> QED BY <1>2, <3>1, <3>2, <3>3
  <2>2. CASE Flush(t) BY <1>4, <2>2
  <2>3. CASE CommitLost(t) \/ Rollback(t) BY <1>3, <2>3 DEF CommitLost, Rollback
  <2>4. CASE Dispatch(t) BY <1>5, <2>4
  <2>5. CASE Begin(t) \/ Commit(t) \/ Enqueue(t) BY <1>1, <2>5 DEF Begin, Commit, Enqueue
  <2> QED BY <1>7, <2>1, <2>2, <2>3, <2>4, <2>5 DEF TxStep
<1>8. ASSUME NEW e \in Event, EmitAlone(e) PROVE HookOnce'
  <2>1. /\ id[e] = 0 /\ UNCHANGED flushing /\ Owner[e] = Alone
        /\ id'[e] = last + 1 /\ \A h \in Event \ {e} : id'[h] = id[h]
        /\ shown'[e] = shown[e] + 1 /\ \A h \in Event \ {e} : shown'[h] = shown[h]
        /\ hooks' = hooks \/ hooks' = Append(hooks, e)
    BY <1>0, <1>8 DEF EmitAlone, RowType
  <2>2. id'[e] > 0 /\ id'[e] # 0 BY <1>0, <2>1, SMT DEF RowType
  <2>3. shown'[e] <= 1 BY <2>1, SMT DEF HookOnce
  <2>4. CASE hooks' = Append(hooks, e) BY <1>2, <2>1, <2>2, <2>3, <2>4
  <2>5. CASE hooks' = hooks
    <3>1. \A h \in Event, x \in Lists, i \in Nat : Place(h, x, i)' <=> Place(h, x, i)
      BY <2>1, <2>5 DEF Place, List
    <3>2. \A x \in Lists, i \in Nat : ~Place(e, x, i) BY <1>0, <2>1, SMT DEF HookOnce, RowType
    <3>3. \A h \in Event : shown'[h] <= 1 /\ (id'[h] = 0 => shown'[h] = 0)
      BY <2>1, <2>2, <2>3 DEF HookOnce
    <3>4. ASSUME NEW h \in Event, NEW x \in Lists, NEW i \in Nat, Place(h, x, i)'
          PROVE  id'[h] > 0 /\ (Owner[h] # Alone => shown'[h] = 0)
      BY <2>1, <3>1, <3>2, <3>4 DEF HookOnce
    <3> QED BY <3>1, <3>3, <3>4 DEF HookOnce
  <2> QED BY <2>1, <2>4, <2>5
<1>9. ASSUME NEW p \in Poll, PollStep(p) PROVE HookOnce'
  BY <1>1, <1>9 DEF PollStep, ReadCursor, Select, Recover, Break, SaveCursor
<1>10. ASSUME NEW q \in Queue, NEW e \in Event, JobStep(q, e) PROVE HookOnce'
  BY <1>1, <1>10 DEF JobStep, LoseLock, Stalled, Forget, Take
<1>11. ASSUME NEW w \in Worker, Handle(w) \/ Record(w) \/ Throw(w) PROVE HookOnce'
  BY <1>1, <1>11 DEF Handle, Record, Throw
<1>12. CASE UNCHANGED vars BY <1>1, <1>12 DEF vars
<1> QED BY <1>6, <1>7, <1>8, <1>9, <1>10, <1>11, <1>12 DEF Next

\* The in-memory handlers are run at most once for an event, whatever the
\* transactions that share the list take or drop of each other's hooks.
THEOREM ShownOnceHolds == Spec => []ShownOnce
<1>1. HookOnce => ShownOnce BY DEF HookOnce, ShownOnce
<1> QED BY <1>1, HookOnceInit, HookOnceKept, TypeCorrect, PTL DEF Spec

---------------------------------------------------------------------------
(* The poller                                                              *)

\* Ids are given once, in ascending order.
IdInv ==
    /\ \A e \in Event : id[e] <= last
    /\ \A e, f \in Event : id[e] = id[f] /\ id[e] > 0 => e = f

LEMMA IdInvHolds == Spec => []IdInv
<1>1. Init => IdInv BY SMT DEF Init, IdInv
<1>2. ASSUME TypeOK, IdInv, [Next]_vars PROVE IdInv'
  <2>0. RowType BY <1>2 DEF TypeOK
  <2> USE DEF rowVars
  <2>1. ASSUME UNCHANGED <<id, last>> PROVE IdInv' BY <1>2, <2>1 DEF IdInv
  <2>2. ASSUME NEW e \in Event, last' = last + 1, id' = [id EXCEPT ![e] = last + 1] PROVE IdInv'
    <3>1. last \in Nat /\ \A f \in Event : id[f] \in Nat /\ id[f] <= last BY <1>2, <2>0 DEF IdInv, RowType
    <3>2. \A f \in Event : id'[f] = IF f = e THEN last + 1 ELSE id[f] BY <2>0, <2>2 DEF RowType
    <3>3. \A f \in Event : id'[f] <= last' BY <2>2, <3>1, <3>2, SMT
    <3>4. ASSUME NEW f \in Event, NEW g \in Event, id'[f] = id'[g], id'[f] > 0 PROVE f = g
      <4>1. CASE f = e /\ g # e BY <3>1, <3>2, <3>4, <4>1, SMT
      <4>2. CASE f # e /\ g = e BY <3>1, <3>2, <3>4, <4>2, SMT
      <4>3. CASE f # e /\ g # e BY <1>2, <3>2, <3>4, <4>3 DEF IdInv
      <4> QED BY <4>1, <4>2, <4>3
    <3> QED BY <3>3, <3>4 DEF IdInv
  <2>3. ASSUME NEW t \in Tx, TxStep(t) PROVE IdInv'
    BY <2>1, <2>2, <2>3 DEF TxStep, Begin, Commit, Flush, CommitLost, Rollback, Enqueue, Dispatch, Emit
  <2>4. ASSUME NEW e \in Event, EmitAlone(e) PROVE IdInv' BY <2>2, <2>4 DEF EmitAlone
  <2>5. ASSUME NEW p \in Poll, PollStep(p) PROVE IdInv'
    BY <2>1, <2>5 DEF PollStep, ReadCursor, Select, Recover, Break, SaveCursor
  <2>6. ASSUME NEW q \in Queue, NEW e \in Event, JobStep(q, e) PROVE IdInv'
    BY <2>1, <2>6 DEF JobStep, LoseLock, Stalled, Forget, Take
  <2>7. ASSUME NEW w \in Worker, Handle(w) \/ Record(w) \/ Throw(w) PROVE IdInv'
    BY <2>1, <2>7 DEF Handle, Record, Throw
  <2>8. CASE Crash \/ UNCHANGED vars BY <2>1, <2>8 DEF Crash, vars
  <2> QED BY <1>2, <2>3, <2>4, <2>5, <2>6, <2>7, <2>8 DEF Next
<1> QED BY <1>1, <1>2, TypeCorrect, PTL DEF Spec

\* An event that was committed in the order of the ids.
Orderly(e) == Published(e) /\ e \notin overtaken

\* Some committed row has come as far as n.
Reached(n) == n = 0 \/ \E x \in Event : Published(x) /\ id[x] >= n

\* Queue q was given e: there is a job, or the work is done.
Handed(q, e) == job[q][e].st # "none" \/ e \in processed[q]

\* Up to n, queue q was given every event it subscribed to.
Passed(q, n) == \A e \in Subscribed[q] : Orderly(e) /\ id[e] <= n => Handed(q, e)

\* The ids and the events of a poll: the batch is what comes next behind the
\* ids that were passed, and nothing orderly comes in between.
PollInv(p) ==
    /\ poll[p].step = "select" => Reached(poll[p].from) /\ Passed(poll[p].q, poll[p].from)
    /\ poll[p].step = "enqueue" =>
          /\ Reached(poll[p].reached) /\ Passed(poll[p].q, poll[p].reached)
          /\ \A e \in poll[p].batch : Published(e) /\ id[e] > poll[p].reached
          /\ \A e \in poll[p].batch, f \in Event \ poll[p].batch :
                Orderly(f) /\ id[f] > poll[p].reached => id[f] > id[e]

\* No cursor and no poll is ahead of the committed rows, and none has left an
\* orderly event behind.
CursorInv ==
    /\ \A q \in Queue : Reached(cursor[q]) /\ Passed(q, cursor[q])
    /\ \A p \in Poll : PollInv(p)

\* An event that becomes orderly comes behind every row that was there to be seen.
LEMMA NewOrderly ==
    ASSUME TypeOK, IdInv, [Next]_vars, NEW e \in Event, Orderly(e)', ~Orderly(e),
           NEW x \in Event, Published(x)
    PROVE  id[x] < id'[e]
<1>0. TxType /\ RowType /\ id[x] \in Nat /\ id[e] \in Nat BY DEF TypeOK, RowType
<1> USE DEF txVars, rowVars
<1>1. overtaken \subseteq overtaken'
  BY DEF Next, TxStep, PollStep, JobStep, vars, Begin, Commit, Flush, CommitLost, Rollback,
     Enqueue, Dispatch, Emit, EmitAlone, ReadCursor, Select, Recover, Break, SaveCursor,
     LoseLock, Stalled, Forget, Take, Handle, Record, Throw, Crash
<1>2. Published(e)' /\ e \notin overtaken' /\ ~Published(e) BY <1>1 DEF Orderly
<1>3. x # e BY <1>2
<1>4. ASSUME NEW t \in Tx, overtaken' = overtaken \cup Overtaken(t), id' = id,
             Owner[e] = t
      PROVE  id[x] < id'[e]
  <2>1. id[e] > 0 BY <1>2, <1>4 DEF Published
  <2>2. ~(id[x] > id[e]) BY <1>2, <1>4, <2>1 DEF Overtaken
  <2>3. id[x] # id[e] BY <1>3, <2>1 DEF IdInv
  <2> QED BY <1>0, <1>4, <2>2, <2>3, SMT
<1>5. ASSUME UNCHANGED <<stage, id>> PROVE FALSE BY <1>2, <1>5 DEF Published
<1>6. ASSUME id' = id, \A u \in Tx : stage'[u] \in {"committed", "flushing", "done"} =>
                                     stage[u] \in {"committed", "flushing", "done"}
      PROVE  FALSE
  BY <1>2, <1>6, DeliveryAssumption DEF Published
<1>7. ASSUME NEW t \in Tx, TxStep(t) PROVE id[x] < id'[e]
  <2>1. CASE Commit(t) \/ CommitLost(t)
    <3>1. /\ overtaken' = overtaken \cup Overtaken(t) /\ id' = id
          /\ \A u \in Tx : u # t => stage'[u] = stage[u]
      BY <1>0, <2>1 DEF Commit, CommitLost, TxType
    <3>2. CASE Owner[e] = t BY <1>4, <3>1, <3>2
    <3>3. CASE Owner[e] # t BY <1>2, <3>1, <3>3, DeliveryAssumption DEF Published
    <3> QED BY <3>2, <3>3
  <2>2. CASE Begin(t) \/ Rollback(t)
    <3>1. PICK s \in {"open", "failed"} : stage' = [stage EXCEPT ![t] = s] /\ id' = id
      BY <2>2 DEF Begin, Rollback
    <3>2. \A u \in Tx : stage'[u] = IF u = t THEN s ELSE stage[u] BY <1>0, <3>1 DEF TxType
    <3> QED BY <1>6, <3>1, <3>2
  <2>3. CASE Flush(t)
    <3>1. stage[t] = "committed" /\ id' = id /\ \A u \in Tx : u # t => stage'[u] = stage[u]
      BY <1>0, <2>3 DEF Flush, TxType
    <3> QED BY <1>6, <3>1
  <2>4. CASE Dispatch(t)
    <3>1. stage[t] = "flushing" /\ id' = id /\ \A u \in Tx : u # t => stage'[u] = stage[u]
      BY <1>0, <2>4 DEF Dispatch, TxType
    <3> QED BY <1>6, <3>1
  <2>5. CASE Enqueue(t) BY <1>5, <2>5 DEF Enqueue
  <2>6. ASSUME NEW f \in Event, Emit(t, f) PROVE FALSE
    <3>1. stage' = stage /\ stage[t] = "open" /\ Owner[f] = t
          /\ \A g \in Event : g # f => id'[g] = id[g]
      BY <1>0, <2>6 DEF Emit, RowType
    <3>2. Owner[f] # Alone BY <3>1, DeliveryAssumption
    <3>3. CASE f = e BY <1>2, <3>1, <3>2, <3>3 DEF Published
    <3>4. CASE f # e BY <1>2, <3>1, <3>4 DEF Published
    <3> QED BY <3>3, <3>4
  <2> QED BY <1>7, <2>1, <2>2, <2>3, <2>4, <2>5, <2>6 DEF TxStep
<1>8. ASSUME NEW f \in Event, EmitAlone(f) PROVE id[x] < id'[e]
  <2>1. stage' = stage /\ \A g \in Event : id'[g] = IF g = f THEN last + 1 ELSE id[g]
    BY <1>0, <1>8 DEF EmitAlone, RowType
  <2>2. f = e BY <1>2, <2>1 DEF Published
  <2>3. id'[e] = last + 1 BY <2>1, <2>2
  <2>4. id[x] <= last /\ last \in Nat BY <1>0 DEF IdInv, RowType
  <2> QED BY <1>0, <2>3, <2>4, SMT
<1>9. ASSUME NEW p \in Poll, PollStep(p) PROVE FALSE
  BY <1>5, <1>9 DEF PollStep, ReadCursor, Select, Recover, Break, SaveCursor
<1>10. ASSUME NEW q \in Queue, NEW f \in Event, JobStep(q, f) PROVE FALSE
  BY <1>5, <1>10 DEF JobStep, LoseLock, Stalled, Forget, Take
<1>11. ASSUME NEW w \in Worker, Handle(w) \/ Record(w) \/ Throw(w) PROVE FALSE
  BY <1>5, <1>11 DEF Handle, Record, Throw
<1>12. CASE Crash
  <2>1. id' = id /\ \A u \in Tx : stage'[u] = CASE stage[u] = "open" -> "failed"
                                [] stage[u] \in {"committed", "flushing"} -> "done"
                                [] OTHER -> stage[u]
    BY <1>12 DEF Crash
  <2>2. \A u \in Tx : stage'[u] \in {"committed", "flushing", "done"} =>
                      stage[u] \in {"committed", "flushing", "done"}
    BY <2>1, SMT
  <2> QED BY <1>6, <2>1, <2>2
<1>13. CASE UNCHANGED vars BY <1>5, <1>13 DEF vars
<1> QED BY <1>7, <1>8, <1>9, <1>10, <1>11, <1>12, <1>13 DEF Next

\* A row, once committed, stays where it is, so what was reached stays reached.
LEMMA ReachedKept ==
    ASSUME TypeOK, [Next]_vars, NEW n, Reached(n)
    PROVE  Reached(n)'
  BY PublishedKept DEF Reached

\* What queue q was given, it was given: a job is only forgotten when it is done.
LEMMA HandedKept ==
    ASSUME TypeOK, HandledInv, [Next]_vars, NEW q \in Queue, NEW e \in Event, Handed(q, e)
    PROVE  Handed(q, e)'
<1>0. QueueType /\ job[q][e] \in Job BY DEF TypeOK, QueueType
<1>1. CASE OnlyAdds BY <1>1 DEF OnlyAdds, Handed
<1>2. ASSUME processed[q] \subseteq processed'[q],
             job[q][e].st # "none" => job'[q][e].st # "none"
      PROVE  Handed(q, e)'
  BY <1>2 DEF Handed
<1>3. ASSUME NEW w \in Worker, NEW x \in Queue, NEW y \in Event, Take(w, x, y)
      PROVE  Handed(q, e)'
  <2>1. PICK j \in Job : job' = Became(x, y, j) /\ j.st # "none"
    <3>1. job[x][y] \in Job BY <1>0 DEF QueueType
    <3>2. LET a == [job[x][y] EXCEPT !.st = "done"] IN a \in Job /\ a.st = "done"
      BY <3>1, SMT DEF Job, JobState
    <3>3. LET a == [job[x][y] EXCEPT !.st = "active", !.lock = w] IN a \in Job /\ a.st = "active"
      BY <3>1, LockedJob DEF JobState
    <3> QED BY <1>3, <3>2, <3>3 DEF Take
  <2>2. Became(x, y, j)[q][e] = IF q = x /\ e = y THEN j ELSE job[q][e] BY <1>0, BecameJobs
  <2>3. processed' = processed BY <1>3 DEF Take
  <2> QED BY <1>2, <2>1, <2>2, <2>3
<1>4. ASSUME NEW w \in Worker, Handle(w) PROVE Handed(q, e)'
  BY <1>4 DEF Handle, Handed
<1>5. ASSUME NEW w \in Worker, NEW x \in Queue, NEW y \in Event, NEW j \in Job,
             job' = Ended(w, x, y, j), j.st # "none", processed[q] \subseteq processed'[q]
      PROVE  Handed(q, e)'
  <2>1. CASE q # x \/ e # y
    <3>1. Ended(w, x, y, j)[q][e] = job[q][e] BY <1>0, <2>1, EndedJobs
    <3> QED BY <1>2, <1>5, <3>1
  <2>2. CASE q = x /\ e = y
    <3>1. Became(q, e, j)[q][e] = j BY <1>0, BecameJobs
    <3> QED BY <1>2, <1>5, <2>2, <3>1 DEF Ended
  <2> QED BY <2>1, <2>2
<1>6. ASSUME NEW w \in Worker, Record(w) PROVE Handed(q, e)'
  <2>1. PICK x \in Queue, y \in Event, j \in Job :
          /\ j.st = "done" /\ processed' = [processed EXCEPT ![x] = @ \cup {y}]
          /\ job' = Ended(w, x, y, j)
    BY <1>0, <1>6, RecordedJob
  <2>2. processed[q] \subseteq processed'[q] BY <1>0, <2>1 DEF QueueType
  <2> QED BY <1>5, <2>1, <2>2
<1>7. ASSUME NEW w \in Worker, Throw(w) PROVE Handed(q, e)'
  <2>1. PICK x \in Queue, y \in Event, j \in Job :
          j.st \in {"waiting", "dead"} /\ job' = Ended(w, x, y, j)
    BY <1>0, <1>7, ThrownJob
  <2>2. processed' = processed BY <1>7 DEF Throw
  <2> QED BY <1>5, <2>1, <2>2
<1>8. ASSUME NEW x \in Queue, NEW y \in Event, LoseLock(x, y) \/ Stalled(x, y)
      PROVE  Handed(q, e)'
  <2>1. PICK j \in Job : job' = Became(x, y, j) /\ j.st # "none"
    <3>1. job[x][y] \in Job BY <1>0 DEF QueueType
    <3>2. CASE LoseLock(x, y)
      <4>1. LET a == [job[x][y] EXCEPT !.lock = NoWorker] IN a \in Job /\ a.st = job[x][y].st
        BY <3>1 DEF Job
      <4> QED BY <3>2, <4>1 DEF LoseLock
    <3>3. CASE Stalled(x, y) BY <3>1, <3>3, StalledJob DEF Stalled, JobState
    <3> QED BY <1>8, <3>2, <3>3
  <2>2. Became(x, y, j)[q][e] = IF q = x /\ e = y THEN j ELSE job[q][e] BY <1>0, BecameJobs
  <2>3. processed' = processed BY <1>8 DEF LoseLock, Stalled
  <2> QED BY <1>2, <2>1, <2>2, <2>3
<1>9. ASSUME NEW x \in Queue, NEW y \in Event, Forget(x, y) PROVE Handed(q, e)'
  <2>1. job' = Became(x, y, NoJob) /\ job[x][y].st = "done" /\ processed' = processed
    BY <1>9 DEF Forget
  <2>2. CASE q = x /\ e = y BY <2>1, <2>2 DEF HandledInv, Handed
  <2>3. CASE q # x \/ e # y
    <3>1. NoJob \in Job BY SMT DEF Job, NoJob, JobState
    <3>2. job'[q][e] = job[q][e] BY <1>0, <2>1, <2>3, <3>1, BecameJobs
    <3> QED BY <1>2, <2>1, <3>2
  <2> QED BY <2>2, <2>3
<1>10. CASE Crash
  <2>1. job'[q][e] = [job[q][e] EXCEPT !.lock = NoWorker] /\ processed' = processed
    BY <1>10 DEF Crash
  <2>2. job'[q][e].st = job[q][e].st BY <1>0, <2>1, Zenon DEF Job
  <2> QED BY <1>2, <2>1, <2>2
<1> QED BY <1>1, <1>3, <1>4, <1>6, <1>7, <1>8, <1>9, <1>10, QueueSteps

\* A queue that was given everything up to n has been given everything up to n
\* after any step: what is committed now, in order, has a higher id.
LEMMA PassedKept ==
    ASSUME TypeOK, TypeOK', HandledInv, IdInv, [Next]_vars, NEW q \in Queue, NEW n \in Nat,
           Reached(n), Passed(q, n)
    PROVE  Passed(q, n)'
<1> SUFFICES ASSUME NEW e \in Event, e \in Subscribed[q], Orderly(e)', id'[e] <= n
             PROVE  Handed(q, e)'
  BY DeliveryAssumption DEF Passed
<1>1. CASE Orderly(e)
  <2>1. id'[e] = id[e] BY <1>1, PublishedKept DEF Orderly
  <2> QED BY <1>1, <2>1, HandedKept DEF Passed
<1>2. CASE ~Orderly(e)
  <2>1. id'[e] \in Nat /\ id'[e] > 0 BY DEF TypeOK, RowType, Orderly, Published
  <2>2. CASE n = 0 BY <2>1, <2>2, SMT
  <2>3. CASE n # 0
    <3>1. PICK x \in Event : Published(x) /\ id[x] >= n BY <2>3 DEF Reached
    <3>2. id[x] < id'[e] BY <1>2, <3>1, NewOrderly
    <3>3. id[x] \in Nat BY DEF TypeOK, RowType
    <3> QED BY <2>1, <3>1, <3>2, <3>3, SMT
  <2> QED BY <2>2, <2>3
<1> QED BY <1>1, <1>2

\* A poll that does nothing stays right.
LEMMA RestingPoll ==
    ASSUME TypeOK, TypeOK', HandledInv, IdInv, CursorInv, [Next]_vars, NEW p \in Poll, poll'[p] = poll[p]
    PROVE  PollInv(p)'
<1>0. PollType /\ RowType /\ PollInv(p) BY DEF TypeOK, CursorInv
<1>1. ASSUME poll[p].step = "select"
      PROVE  Reached(poll[p].from)' /\ Passed(poll[p].q, poll[p].from)'
  <2>1. poll[p].q \in Queue /\ poll[p].from \in Nat
    BY <1>0, <1>1, SMT DEF PollType, PollState, NoPoll
  <2>2. Reached(poll[p].from) /\ Passed(poll[p].q, poll[p].from) BY <1>0, <1>1 DEF PollInv
  <2>3. PICK q \in Queue, n \in Nat : q = poll[p].q /\ n = poll[p].from BY <2>1
  <2>4. Reached(n)' /\ Passed(q, n)' BY <2>2, <2>3, ReachedKept, PassedKept
  <2> QED BY <2>3, <2>4
<1>2. ASSUME poll[p].step = "enqueue"
      PROVE  /\ Reached(poll[p].reached)' /\ Passed(poll[p].q, poll[p].reached)'
             /\ \A e \in poll[p].batch : Published(e)' /\ id'[e] > poll[p].reached
             /\ \A e \in poll[p].batch, f \in Event \ poll[p].batch :
                   Orderly(f)' /\ id'[f] > poll[p].reached => id'[f] > id'[e]
  <2>1. PICK q \in Queue, n \in Nat, B \in SUBSET Event :
          q = poll[p].q /\ n = poll[p].reached /\ B = poll[p].batch
    BY <1>0, <1>2, LoopOf
  <2>2. /\ Reached(n) /\ Passed(q, n)
        /\ \A e \in B : Published(e) /\ id[e] > n
        /\ \A e \in B, f \in Event \ B : Orderly(f) /\ id[f] > n => id[f] > id[e]
    BY <1>0, <1>2, <2>1 DEF PollInv
  <2>3. Reached(n)' /\ Passed(q, n)' BY <2>2, ReachedKept, PassedKept
  <2>4. \A e \in B : Published(e)' /\ id'[e] = id[e] BY <2>2, PublishedKept
  <2>5. ASSUME NEW e \in B, NEW f \in Event \ B, Orderly(f)', id'[f] > n PROVE id'[f] > id'[e]
    <3>1. CASE Orderly(f)
      <4>1. id'[f] = id[f] BY <3>1, PublishedKept DEF Orderly
      <4> QED BY <2>2, <2>4, <2>5, <3>1, <4>1
    <3>2. CASE ~Orderly(f)
      <4>1. id[e] < id'[f] BY <2>2, <2>5, <3>2, NewOrderly
      <4>2. id[e] \in Nat /\ id'[f] \in Nat BY DEF TypeOK, RowType
      <4> QED BY <2>4, <4>1, <4>2, SMT
    <3> QED BY <3>1, <3>2
  <2> QED BY <2>1, <2>2, <2>3, <2>4, <2>5
<1> QED BY <1>1, <1>2 DEF PollInv

\* The batch of a SELECT: what it leaves out comes behind all of it.
LEMMA SelectedFirst ==
    ASSUME TypeOK, NEW n \in Nat, NEW e \in Selected(n), NEW f \in Event \ Selected(n),
           Published(f), id[f] > n
    PROVE  id[f] > id[e]
<1> DEFINE Before(x) == {y \in Event : Published(y) /\ id[y] > n /\ id[y] < id[x]}
<1>1. e \in Event /\ Cardinality(Before(e)) < Batch BY DEF Selected
<1>2. ~(Cardinality(Before(f)) < Batch) BY DEF Selected
<1>3. id[e] \in Nat /\ id[f] \in Nat /\ \A y \in Event : id[y] \in Nat
  BY <1>1 DEF TypeOK, RowType
<1>4. SUFFICES ASSUME id[f] <= id[e] PROVE FALSE BY <1>3, SMT
<1>5. Before(f) \subseteq Before(e) BY <1>3, <1>4, SMT
<1>6. IsFiniteSet(Before(e))
  <2>1. Before(e) \subseteq Event OBVIOUS
  <2> QED BY <2>1, DeliveryAssumption, FS_Subset
<1>7. /\ Cardinality(Before(f)) <= Cardinality(Before(e))
      /\ Cardinality(Before(e)) \in Nat /\ Cardinality(Before(f)) \in Nat
  BY <1>5, <1>6, FS_Subset, FS_CardinalityType
<1> HIDE DEF Before
<1> QED BY <1>1, <1>2, <1>7, DeliveryAssumption, SMT

LEMMA CursorInvHolds == Spec => []CursorInv
<1>1. Init => CursorInv
  <2> SUFFICES ASSUME Init PROVE CursorInv OBVIOUS
  <2>1. \A e \in Event : ~Published(e) BY SMT DEF Init, Published
  <2>2. \A q \in Queue, n \in Nat : Passed(q, n) BY <2>1, DeliveryAssumption DEF Passed, Orderly
  <2>3. \A q \in Queue : Reached(cursor[q]) /\ Passed(q, cursor[q]) BY <2>2 DEF Init, Reached
  <2>4. \A p \in Poll : PollInv(p) BY DEF Init, PollInv, NoPoll
  <2> QED BY <2>3, <2>4 DEF CursorInv
<1>2. ASSUME TypeOK, TypeOK', HandledInv, IdInv, CursorInv, [Next]_vars PROVE CursorInv'
  <2>0. PollType /\ RowType /\ QueueType BY <1>2 DEF TypeOK
  <2>c. \A q \in Queue : /\ cursor[q] \in Nat /\ Reached(cursor[q]) /\ Passed(q, cursor[q])
    BY <1>2, <2>0 DEF CursorInv, PollType
  <2>k. ASSUME NEW q \in Queue, NEW n \in Nat, Reached(n), Passed(q, n)
        PROVE  Reached(n)' /\ Passed(q, n)'
    BY <1>2, <2>k, ReachedKept, PassedKept
  <2>2. ASSUME NEW q \in Queue, cursor'[q] = cursor[q]
        PROVE  Reached(cursor[q])' /\ Passed(q, cursor[q])'
    <3>1. PICK n \in Nat : n = cursor[q] BY <2>c
    <3>2. Reached(n)' /\ Passed(q, n)' BY <2>c, <2>k, <3>1
    <3> QED BY <2>2, <3>1, <3>2
  <2>3. ASSUME NEW p \in Poll, poll'[p] = poll[p] PROVE PollInv(p)'
    BY <1>2, <2>3, RestingPoll
  <2>4. ASSUME NEW p \in Poll, poll'[p] = NoPoll PROVE PollInv(p)'
    BY <2>4 DEF PollInv, NoPoll
  <2>5. ASSUME NEW p \in Poll, PollInv(p)', cursor' = cursor,
               \A u \in Poll : u # p => poll'[u] = poll[u]
        PROVE  CursorInv'
    BY <2>2, <2>3, <2>5 DEF CursorInv
  <2> USE DEF txVars, rowVars, pollVars
  <2>6. ASSUME NEW p \in Poll, NEW q \in Queue, ReadCursor(p, q) PROVE CursorInv'
    <3>1. /\ poll'[p] = [step |-> "select", q |-> q, from |-> cursor[q]] /\ cursor' = cursor
          /\ \A u \in Poll : u # p => poll'[u] = poll[u]
      BY <2>0, <2>6 DEF ReadCursor, PollType
    <3>2. PICK n \in Nat : n = cursor[q] BY <2>c
    <3>3. Reached(n)' /\ Passed(q, n)' BY <2>c, <2>k, <3>2
    <3>4. PollInv(p)' BY <3>1, <3>2, <3>3 DEF PollInv
    <3> QED BY <2>5, <3>1, <3>4
  <2>7. ASSUME NEW p \in Poll, Select(p) PROVE CursorInv'
    <3>1. PICK q \in Queue, n \in Nat :
            poll[p] = [step |-> "select", q |-> q, from |-> n]
      BY <2>0, <2>7, SMT DEF PollType, PollState, NoPoll, Select
    <3>2. /\ poll'[p] = (IF Selected(n) = {} THEN NoPoll ELSE Passing(poll[p], n, Selected(n)))
          /\ cursor' = cursor /\ UNCHANGED <<stage, id, overtaken>>
          /\ \A u \in Poll : u # p => poll'[u] = poll[u]
      BY <2>0, <2>7, <3>1 DEF Select, PollType
    <3>3. CASE Selected(n) = {} BY <2>4, <2>5, <3>2, <3>3
    <3>4. CASE Selected(n) # {}
      <4>1. poll'[p] = [step |-> "enqueue", q |-> q, reached |-> n, batch |-> Selected(n)]
        BY <3>1, <3>2, <3>4 DEF Passing
      <4>2. Reached(n) /\ Passed(q, n) BY <1>2, <3>1 DEF CursorInv, PollInv
      <4>3. Reached(n)' /\ Passed(q, n)' BY <2>k, <4>2
      <4>4. \A e \in Selected(n) : Published(e) /\ id[e] > n BY DEF Selected
      <4>5. \A e \in Selected(n), f \in Event \ Selected(n) :
               Orderly(f) /\ id[f] > n => id[f] > id[e]
        BY <1>2, SelectedFirst DEF Orderly
      <4>6. \A e \in Event : (Published(e)' <=> Published(e)) /\ (Orderly(e)' <=> Orderly(e))
        BY <3>2 DEF Orderly, Published
      <4>7. Selected(n) \subseteq Event BY DEF Selected
      <4>8. PollInv(p)'
        <5>1. /\ \A e \in Selected(n) : Published(e)' /\ id'[e] > n
              /\ \A e \in Selected(n), f \in Event \ Selected(n) :
                    Orderly(f)' /\ id'[f] > n => id'[f] > id'[e]
          BY <3>2, <4>4, <4>5, <4>6, <4>7
        <5> HIDE DEF Selected
        <5> QED BY <4>1, <4>3, <5>1 DEF PollInv
      <4> QED BY <2>5, <3>2, <4>8
    <3> QED BY <3>3, <3>4
  <2>l. ASSUME NEW p \in Poll, poll[p].step = "enqueue"
        PROVE  \E q \in Queue, n \in Nat, B \in SUBSET Event :
                  /\ poll[p] = [step |-> "enqueue", q |-> q, reached |-> n, batch |-> B]
                  /\ Reached(n) /\ Passed(q, n)
                  /\ \A e \in B : Published(e) /\ id[e] > n
                  /\ \A e \in B, f \in Event \ B : Orderly(f) /\ id[f] > n => id[f] > id[e]
    <3>1. PICK q \in Queue, n \in Nat, B \in SUBSET Event :
            poll[p] = [step |-> "enqueue", q |-> q, reached |-> n, batch |-> B]
      BY <2>0, <2>l, LoopOf
    <3>2. PollInv(p) BY <1>2 DEF CursorInv
    <3> QED BY <3>1, <3>2 DEF PollInv
  <2>8. ASSUME NEW p \in Poll, Recover(p) PROVE CursorInv'
    <3>1. PICK q \in Queue, n \in Nat, B \in SUBSET Event :
            /\ poll[p] = [step |-> "enqueue", q |-> q, reached |-> n, batch |-> B]
            /\ Reached(n) /\ Passed(q, n)
            /\ \A e \in B : Published(e) /\ id[e] > n
            /\ \A e \in B, f \in Event \ B : Orderly(f) /\ id[f] > n => id[f] > id[e]
      BY <2>8, <2>l DEF Recover
    <3>2. PICK e \in B : /\ \A x \in B : id[e] <= id[x]
                         /\ poll' = [poll EXCEPT ![p] = Passing(@, id[e], @.batch \ {e})]
                         /\ job' = IF e \in Subscribed[poll[p].q]
                                   THEN [job EXCEPT ![poll[p].q] = Added(@, e)] ELSE job
      <4>1. poll[p].batch = B BY <3>1
      <4> QED BY <2>8, <4>1 DEF Recover
    <3>3. /\ poll'[p] = [step |-> "enqueue", q |-> q, reached |-> id[e], batch |-> B \ {e}]
          /\ \A u \in Poll : u # p => poll'[u] = poll[u]
      BY <2>0, <3>1, <3>2 DEF PollType, Passing
    <3>4. UNCHANGED <<stage, id, overtaken, cursor, processed>> BY <2>8 DEF Recover
    <3>5. \A x \in Event : /\ id[x] \in Nat
                           /\ (Published(x)' <=> Published(x)) /\ (Orderly(x)' <=> Orderly(x))
      BY <2>0, <3>4 DEF RowType, Orderly, Published
    <3>6. ASSUME NEW f \in Subscribed[q], Orderly(f), id[f] <= id[e] PROVE Handed(q, f)'
      <4>0. f \in Event BY DeliveryAssumption
      <4>1. CASE id[f] <= n
        <5>1. Handed(q, f) BY <3>1, <3>6, <4>1 DEF Passed
        <5> QED BY <1>2, <4>0, <5>1, HandedKept
      <4>2. CASE id[f] > n /\ f \notin B
        <5>1. id[f] > id[e] BY <3>1, <3>2, <3>6, <4>0, <4>2
        <5> QED BY <3>5, <3>6, <4>0, <5>1, SMT
      <4>3. CASE id[f] > n /\ f \in B
        <5>1. id[f] = id[e] /\ id[f] > 0 BY <3>2, <3>5, <3>6, <4>0, <4>3, SMT
        <5>2. f = e BY <1>2, <4>0, <5>1 DEF IdInv
        <5>3. job[q] \in [Event -> Job] /\ job'[q] = Added(job[q], e)
          BY <2>0, <3>1, <3>2, <5>2 DEF QueueType
        <5>4. [NoJob EXCEPT !.st = "waiting"].st = "waiting" BY DEF NoJob
        <5>5. Added(job[q], e)[e].st # "none"
          <6>1. CASE job[q][e].st = "none"
            <7>1. Added(job[q], e)[e] = [NoJob EXCEPT !.st = "waiting"]
              BY <4>0, <5>2, <5>3, <6>1, AddedJobs
            <7> QED BY <5>4, <7>1
          <6>2. CASE job[q][e].st # "none" BY <4>0, <5>2, <5>3, <6>2, AddedJobs
          <6> QED BY <6>1, <6>2
        <5> QED BY <5>2, <5>3, <5>5 DEF Handed
      <4> QED BY <3>5, <4>0, <4>1, <4>2, <4>3, SMT
    <3>7. Reached(id[e])' BY <3>1, <3>2, <3>4, <3>5, SMT DEF Reached
    <3>8. Passed(q, id[e])' BY <3>4, <3>5, <3>6, DeliveryAssumption DEF Passed
    <3>9. \A x \in B \ {e} : Published(x)' /\ id'[x] > id[e]
      <4> SUFFICES ASSUME NEW x \in B \ {e} PROVE Published(x)' /\ id'[x] > id[e] OBVIOUS
      <4>1. id[e] <= id[x] /\ Published(x) /\ id[x] > 0 BY <3>1, <3>2, SMT DEF Published
      <4>2. id[x] # id[e] BY <1>2, <4>1 DEF IdInv
      <4> QED BY <3>4, <3>5, <4>1, <4>2, SMT
    <3>10. \A x \in B \ {e}, f \in Event \ (B \ {e}) :
              Orderly(f)' /\ id'[f] > id[e] => id'[f] > id'[x]
      <4> SUFFICES ASSUME NEW x \in B \ {e}, NEW f \in Event \ (B \ {e}), Orderly(f)', id'[f] > id[e]
                   PROVE  id'[f] > id'[x]
        OBVIOUS
      <4>1. f # e BY <3>4, <3>5, SMT
      <4>2. id[f] > n BY <3>1, <3>2, <3>4, <3>5, SMT
      <4> QED BY <3>1, <3>4, <3>5, <4>1, <4>2
    <3>11. PollInv(p)' BY <3>3, <3>7, <3>8, <3>9, <3>10, <3>4 DEF PollInv
    <3> QED BY <2>5, <3>3, <3>4, <3>11
  <2>9. ASSUME NEW p \in Poll, Break(p) PROVE CursorInv'
    <3>1. PICK q \in Queue, n \in Nat, B \in SUBSET Event :
            /\ poll[p] = [step |-> "enqueue", q |-> q, reached |-> n, batch |-> B]
            /\ Reached(n) /\ Passed(q, n)
      BY <2>9, <2>l DEF Break
    <3>2. /\ poll'[p] = [step |-> "enqueue", q |-> q, reached |-> n, batch |-> {}]
          /\ \A u \in Poll : u # p => poll'[u] = poll[u]
          /\ cursor' = cursor
      BY <2>0, <2>9, <3>1 DEF Break, PollType, Passing
    <3>3. Reached(n)' /\ Passed(q, n)' BY <2>k, <3>1
    <3>4. PollInv(p)' BY <3>2, <3>3 DEF PollInv
    <3> QED BY <2>5, <3>2, <3>4
  <2>10. ASSUME NEW p \in Poll, SaveCursor(p) PROVE CursorInv'
    <3>1. PICK q \in Queue, n \in Nat, B \in SUBSET Event :
            /\ poll[p] = [step |-> "enqueue", q |-> q, reached |-> n, batch |-> B]
            /\ Reached(n) /\ Passed(q, n)
      BY <2>10, <2>l DEF SaveCursor
    <3>2. /\ poll'[p] = NoPoll /\ \A u \in Poll : u # p => poll'[u] = poll[u]
          /\ \A x \in Queue : cursor'[x] = cursor[x] \/ (x = q /\ cursor'[x] = n)
      BY <2>0, <2>10, <3>1 DEF SaveCursor, PollType
    <3>3. Reached(n)' /\ Passed(q, n)' BY <2>k, <3>1
    <3>4. ASSUME NEW x \in Queue PROVE Reached(cursor[x])' /\ Passed(x, cursor[x])'
      <4>1. CASE cursor'[x] = cursor[x] BY <2>2, <4>1
      <4>2. CASE x = q /\ cursor'[x] = n BY <3>3, <4>2
      <4> QED BY <3>2, <4>1, <4>2
    <3>5. \A u \in Poll : PollInv(u)' BY <2>3, <2>4, <3>2
    <3> QED BY <3>4, <3>5 DEF CursorInv
  <2>11. CASE Crash
    <3>1. cursor' = cursor /\ \A u \in Poll : poll'[u] = NoPoll BY <2>11 DEF Crash
    <3> QED BY <2>2, <2>4, <3>1 DEF CursorInv
  <2>12. ASSUME UNCHANGED <<cursor, poll>> PROVE CursorInv'
    BY <2>2, <2>3, <2>12 DEF CursorInv
  <2>13. ASSUME NEW t \in Tx, TxStep(t) PROVE CursorInv'
    BY <2>12, <2>13 DEF TxStep, Begin, Commit, Flush, CommitLost, Rollback, Enqueue, Dispatch, Emit
  <2>14. ASSUME NEW e \in Event, EmitAlone(e) PROVE CursorInv' BY <2>12, <2>14 DEF EmitAlone
  <2>15. ASSUME NEW q \in Queue, NEW e \in Event, JobStep(q, e) PROVE CursorInv'
    BY <2>12, <2>15 DEF JobStep, LoseLock, Stalled, Forget, Take
  <2>16. ASSUME NEW w \in Worker, Handle(w) \/ Record(w) \/ Throw(w) PROVE CursorInv'
    BY <2>12, <2>16 DEF Handle, Record, Throw
  <2>17. CASE UNCHANGED vars BY <2>12, <2>17 DEF vars
  <2> QED BY <1>2, <2>6, <2>7, <2>8, <2>9, <2>10, <2>11, <2>13, <2>14, <2>15, <2>16, <2>17
          DEF Next, PollStep
<1> QED BY <1>1, <1>2, TypeCorrect, HandledInvHolds, IdInvHolds, PTL DEF Spec

\* The poller never passes an event by: behind the cursor of a queue every event
\* that was committed in the order of the ids has its job or has been processed.
THEOREM NoEventSkippedHolds == Spec => []NoEventSkipped
<1>1. CursorInv => NoEventSkipped
  BY DEF CursorInv, NoEventSkipped, Passed, Orderly, Handed
<1> QED BY <1>1, CursorInvHolds, PTL

\* What EventuallyHandled needs of the past: behind the cursor an orderly event
\* has been through its subscriber's handler, or its job is still there to be
\* run, or dead. No poll, crash, lost lock or forgotten job loses it.
NothingLost ==
    \A q \in Queue : \A e \in Subscribed[q] :
       Orderly(e) /\ id[e] <= cursor[q]
          => handled[q][e] > 0 \/ job[q][e].st \in {"waiting", "active", "dead"}

\* A subscriber's event is never lost between the cursor and its job.
THEOREM NothingLostHolds == Spec => []NothingLost
<1>1. ASSUME TypeOK, ProcessedWasHandled, CursorInv PROVE NothingLost
  <2> SUFFICES ASSUME NEW q \in Queue, NEW e \in Subscribed[q], Orderly(e), id[e] <= cursor[q]
               PROVE  handled[q][e] > 0 \/ job[q][e].st \in {"waiting", "active", "dead"}
    BY DEF NothingLost
  <2>0. e \in Event BY DeliveryAssumption
  <2>1. Handed(q, e) BY <1>1 DEF CursorInv, Passed
  <2>2. job[q][e].st \in JobState BY <1>1, <2>0 DEF TypeOK, QueueType, Job
  <2> QED BY <1>1, <2>0, <2>1, <2>2 DEF Handed, ProcessedWasHandled, JobState
<1> QED BY <1>1, TypeCorrect, ProcessedWasHandledHolds, CursorInvHolds, PTL
=============================================================================
