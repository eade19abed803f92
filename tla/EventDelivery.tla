--------------------------- MODULE EventDelivery ---------------------------
(***************************************************************************)
(* Transactions and their after-commit hooks (database.transaction.ts),    *)
(* the event bus that writes an event in the transaction and hands it to   *)
(* its queues by a hook (event-bus.v2.ts), the poller that recovers what   *)
(* the hooks missed (outbox-poller.ts) and the workers that run the        *)
(* subscribers (subscriber.worker.ts).                                     *)
(*                                                                         *)
(* The hooks of every transaction live in ONE list of the process.  A      *)
(* transaction keeps the length the list had when it began and cuts the    *)
(* list there when it ends, so two transactions that overlap take or drop  *)
(* each other's hooks.                                                     *)
(***************************************************************************)
EXTENDS Naturals, Sequences, FiniteSets

CONSTANTS
    Tx,          \* calls of withTransaction or runProvidedTransaction
    Event,       \* events, each emitted once
    Owner,       \* Owner[e]: the transaction that emits e, or Alone
    Alone,       \* emitted outside a transaction
    Queue,       \* the queues of durable subscribers
    Subscribed,  \* Subscribed[q]: the events queue q has a subscriber for
    Worker,      \* concurrent runs of the BullMQ workers
    Poll,        \* runs of the poller (a slow one overlaps the next)
    NoWorker,
    Batch,       \* OUTBOX_BATCH_SIZE
    Attempts,    \* attempts of a job (6 in the code)
    MaxStalled,  \* maxStalledCount of BullMQ (1)
    MaxFaults    \* bound on crashes and failed calls

ASSUME DeliveryAssumption ==
    /\ Alone \notin Tx
    /\ Owner \in [Event -> Tx \cup {Alone}]
    /\ Subscribed \in [Queue -> SUBSET Event]
    /\ NoWorker \notin Worker
    /\ IsFiniteSet(Event) /\ IsFiniteSet(Worker)
    /\ Batch \in Nat \ {0}
    /\ Attempts \in Nat \ {0}
    /\ MaxStalled \in Nat
    /\ MaxFaults \in Nat

VARIABLES
    stage,     \* stage[t]: where the transaction is
    mark,      \* mark[t]: hookCount, the length of the list when it began (0 once used)
    hooks,     \* afterCommitHooks: the events whose hooks wait in the process
    flushing,  \* flushing[t]: the hooks cut off and being run, in order
    sent,      \* sent[t]: the first of them has done its enqueues
    id,        \* id[e]: published_events.id, 0 while not inserted
    last,      \* AUTO_INCREMENT of published_events
    cursor,    \* cursor[q]: outbox_cursors.last_event_id
    poll,      \* poll[p]: the loop body of poll() for one queue
    job,       \* job[q][e]: the BullMQ job `${eventId}--${queueName}`
    work,      \* work[w]: what a worker is at
    processed, \* processed[q]: rows of processed_events
    handled,   \* handled[q][e]: completed runs of the handler
    shown,     \* shown[e]: dispatches to the in-memory handlers by emit
    met,       \* transactions that overlapped another one before the cut
    overtaken, \* events committed after an event with a higher id
    faults     \* faults so far

txVars    == <<stage, mark, hooks, flushing, sent, met>>
rowVars   == <<id, last, overtaken>>
pollVars  == <<cursor, poll>>
queueVars == <<job, work, processed, handled>>
vars      == <<txVars, rowVars, pollVars, queueVars, shown, faults>>

JobState == {"none", "waiting", "active", "done", "dead"}
NoJob  == [st |-> "none", tries |-> 0, stalled |-> 0, lock |-> NoWorker]
NoPoll == [step |-> "idle"]
NoWork == [step |-> "idle"]

Init ==
    /\ stage = [t \in Tx |-> "idle"]
    /\ mark = [t \in Tx |-> 0]
    /\ hooks = <<>>
    /\ flushing = [t \in Tx |-> <<>>]
    /\ sent = [t \in Tx |-> FALSE]
    /\ id = [e \in Event |-> 0]
    /\ last = 0
    /\ cursor = [q \in Queue |-> 0]
    /\ poll = [p \in Poll |-> NoPoll]
    /\ job = [q \in Queue |-> [e \in Event |-> NoJob]]
    /\ work = [w \in Worker |-> NoWork]
    /\ processed = [q \in Queue |-> {}]
    /\ handled = [q \in Queue |-> [e \in Event |-> 0]]
    /\ shown = [e \in Event |-> 0]
    /\ met = {}
    /\ overtaken = {}
    /\ faults = 0

\* An event every reader of published_events sees.
Published(e) ==
    /\ id[e] > 0
    /\ Owner[e] = Alone \/ stage[Owner[e]] \in {"committed", "flushing", "done"}

Fault == faults < MaxFaults /\ faults' = faults + 1

---------------------------------------------------------------------------
(* Transactions                                                            *)

\* withTransaction, up to the callback: hookCount and beginTransaction.
Begin(t) ==
    /\ stage[t] = "idle"
    /\ stage' = [stage EXCEPT ![t] = "open"]
    /\ mark' = [mark EXCEPT ![t] = Len(hooks)]
    /\ LET others == {u \in Tx : stage[u] \in {"open", "committed"}}
       IN  met' = IF others = {} THEN met ELSE met \cup others \cup {t}
    /\ UNCHANGED <<hooks, flushing, sent, rowVars, pollVars, queueVars, shown, faults>>

\* Faulty variant: the in-memory handlers run in the transaction.
Emit_DispatchesNow(t, e) ==
    /\ stage[t] = "open" /\ Owner[e] = t /\ id[e] = 0
    /\ last' = last + 1
    /\ id' = [id EXCEPT ![e] = last + 1]
    /\ hooks' = Append(hooks, e)
    /\ shown' = [shown EXCEPT ![e] = @ + 1]
    /\ UNCHANGED <<stage, mark, flushing, sent, met, overtaken, pollVars, queueVars, faults>>

\* emit in a transaction: the row, then a hook for everything else.
Emit(t, e) ==
    /\ stage[t] = "open" /\ Owner[e] = t /\ id[e] = 0
    /\ last' = last + 1
    /\ id' = [id EXCEPT ![e] = last + 1]
    /\ hooks' = Append(hooks, e)
    /\ UNCHANGED <<stage, mark, flushing, sent, met, overtaken, pollVars, queueVars, shown, faults>>

\* emit outside a transaction: the row is committed, the in-memory handlers
\* run at once, and the enqueues become a hook of nobody's.
EmitAlone(e) ==
    /\ Owner[e] = Alone /\ id[e] = 0
    /\ last' = last + 1
    /\ id' = [id EXCEPT ![e] = last + 1]
    /\ shown' = [shown EXCEPT ![e] = @ + 1]
    /\ hooks' = IF \E q \in Queue : e \in Subscribed[q] THEN Append(hooks, e) ELSE hooks
    /\ UNCHANGED <<stage, mark, flushing, sent, met, overtaken, pollVars, queueVars, faults>>

\* What splice(hookCount) leaves, and what it removes.
Kept(t)   == SubSeq(hooks, 1, IF mark[t] < Len(hooks) THEN mark[t] ELSE Len(hooks))
Spliced(t) == SubSeq(hooks, mark[t] + 1, Len(hooks))

\* Rows of t that become visible behind a row with a higher id.
Overtaken(t) ==
    {e \in Event : /\ Owner[e] = t /\ id[e] > 0
                   /\ \E x \in Event : Published(x) /\ id[x] > id[e]}

\* connection.commit() returns.
Commit(t) ==
    /\ stage[t] = "open"
    /\ stage' = [stage EXCEPT ![t] = "committed"]
    /\ overtaken' = overtaken \cup Overtaken(t)
    /\ UNCHANGED <<mark, hooks, flushing, sent, met, id, last, pollVars, queueVars, shown, faults>>

\* Faulty variant: the hooks are copied (slice) instead of cut off (splice).
Flush_Copies(t) ==
    /\ stage[t] = "committed"
    /\ stage' = [stage EXCEPT ![t] = IF Spliced(t) = <<>> THEN "done" ELSE "flushing"]
    /\ flushing' = [flushing EXCEPT ![t] = Spliced(t)]
    /\ mark' = [mark EXCEPT ![t] = 0]
    /\ UNCHANGED <<hooks, sent, met, rowVars, pollVars, queueVars, shown, faults>>

\* The hooks from hookCount on are cut off the list.
Flush(t) ==
    /\ stage[t] = "committed"
    /\ stage' = [stage EXCEPT ![t] = IF Spliced(t) = <<>> THEN "done" ELSE "flushing"]
    /\ flushing' = [flushing EXCEPT ![t] = Spliced(t)]
    /\ hooks' = Kept(t)
    /\ mark' = [mark EXCEPT ![t] = 0]
    /\ UNCHANGED <<sent, met, rowVars, pollVars, queueVars, shown, faults>>

\* The commit took effect and its answer is lost: the catch drops the hooks.
CommitLost(t) ==
    /\ stage[t] = "open"
    /\ Fault
    /\ stage' = [stage EXCEPT ![t] = "done"]
    /\ hooks' = Kept(t)
    /\ overtaken' = overtaken \cup Overtaken(t)
    /\ mark' = [mark EXCEPT ![t] = 0]
    /\ UNCHANGED <<flushing, sent, met, id, last, pollVars, queueVars, shown>>

\* The callback throws: hooks dropped, transaction rolled back.
Rollback(t) ==
    /\ stage[t] = "open"
    /\ stage' = [stage EXCEPT ![t] = "failed"]
    /\ hooks' = Kept(t)
    /\ mark' = [mark EXCEPT ![t] = 0]
    /\ UNCHANGED <<flushing, sent, met, rowVars, pollVars, queueVars, shown, faults>>

\* addToQueue: a job whose jobId is known is not added again.
Added(jobs, e) ==
    IF jobs[e].st = "none" THEN [jobs EXCEPT ![e] = [NoJob EXCEPT !.st = "waiting"]] ELSE jobs

\* A hook, first part: one job per subscriber.  A refused enqueue is only logged.
Enqueue(t) ==
    /\ stage[t] = "flushing" /\ flushing[t] # <<>> /\ ~sent[t]
    /\ LET e  == Head(flushing[t])
           to == {q \in Queue : e \in Subscribed[q]}
       IN  \E refused \in SUBSET to :
              /\ IF refused = {} THEN UNCHANGED faults ELSE Fault
              /\ job' = [q \in Queue |-> IF q \in to \ refused THEN Added(job[q], e) ELSE job[q]]
    /\ sent' = [sent EXCEPT ![t] = TRUE]
    /\ UNCHANGED <<stage, mark, hooks, flushing, met, rowVars, pollVars, work, processed, handled, shown>>

\* A hook, second part: the in-memory handlers, which emit has already run
\* for an event outside a transaction.  After the last hook the connection is
\* released.
Dispatch(t) ==
    /\ stage[t] = "flushing" /\ flushing[t] # <<>> /\ sent[t]
    /\ LET e == Head(flushing[t])
       IN  shown' = IF Owner[e] = Alone THEN shown ELSE [shown EXCEPT ![e] = @ + 1]
    /\ flushing' = [flushing EXCEPT ![t] = Tail(@)]
    /\ stage' = [stage EXCEPT ![t] = IF Tail(flushing[t]) = <<>> THEN "done" ELSE @]
    /\ sent' = [sent EXCEPT ![t] = FALSE]
    /\ UNCHANGED <<mark, hooks, met, rowVars, pollVars, queueVars, faults>>

---------------------------------------------------------------------------
(* The poller                                                              *)

\* poll() for one queue: the cursor is read.
ReadCursor(p, q) ==
    /\ poll[p] = NoPoll
    /\ poll' = [poll EXCEPT ![p] = [step |-> "select", q |-> q, from |-> cursor[q]]]
    /\ UNCHANGED <<txVars, rowVars, cursor, queueVars, shown, faults>>

\* SELECT ... WHERE id > cursor ORDER BY id LIMIT OUTBOX_BATCH_SIZE.
Selected(from) ==
    {e \in Event : /\ Published(e) /\ id[e] > from
                   /\ Cardinality({x \in Event : /\ Published(x) /\ id[x] > from
                                                 /\ id[x] < id[e]}) < Batch}

\* The loop of poll l: newCursor and the events still to pass.
Passing(l, reached, batch) ==
    [step |-> "enqueue", q |-> l.q, reached |-> reached, batch |-> batch]

Select(p) ==
    /\ poll[p].step = "select"
    /\ LET from == poll[p].from
       IN  poll' = [poll EXCEPT ![p] =
               IF Selected(from) = {} THEN NoPoll
               ELSE Passing(@, from, Selected(from))]
    /\ UNCHANGED <<txVars, rowVars, cursor, queueVars, shown, faults>>

\* Faulty variant: newCursor = event instead of event.id.
Recover_KeepsEvent(p) ==
    /\ poll[p].step = "enqueue"
    /\ \E e \in poll[p].batch :
          /\ poll' = [poll EXCEPT ![p] = Passing(@, e, @.batch \ {e})]
          /\ job' = [job EXCEPT ![poll[p].q] = Added(@, e)]
    /\ UNCHANGED <<txVars, rowVars, cursor, work, processed, handled, shown, faults>>

\* The loop over the batch: subscribed events get a job, the others are passed.
Recover(p) ==
    /\ poll[p].step = "enqueue"
    /\ \E e \in poll[p].batch :
          /\ \A x \in poll[p].batch : id[e] <= id[x]
          /\ poll' = [poll EXCEPT ![p] = Passing(@, id[e], @.batch \ {e})]
          /\ job' = IF e \in Subscribed[poll[p].q]
                    THEN [job EXCEPT ![poll[p].q] = Added(@, e)] ELSE job
    /\ UNCHANGED <<txVars, rowVars, cursor, work, processed, handled, shown, faults>>

\* Faulty variant: the loop goes on behind the refused event.
Break_Continues(p) ==
    /\ poll[p].step = "enqueue"
    /\ \E e \in poll[p].batch :
          /\ \A x \in poll[p].batch : id[e] <= id[x]
          /\ poll' = [poll EXCEPT ![p] = Passing(@, id[e], @.batch \ {e})]
    /\ Fault
    /\ UNCHANGED <<txVars, rowVars, cursor, queueVars, shown>>

\* The enqueue of a subscribed event fails: the loop stops there.
Break(p) ==
    /\ poll[p].step = "enqueue"
    /\ \E e \in poll[p].batch :
          /\ \A x \in poll[p].batch : id[e] <= id[x]
          /\ e \in Subscribed[poll[p].q]
    /\ Fault
    /\ poll' = [poll EXCEPT ![p] = Passing(@, @.reached, {})]
    /\ UNCHANGED <<txVars, rowVars, cursor, queueVars, shown>>

\* Faulty variant: the cursor goes to the newest id there is.
SaveCursor_Newest(p) ==
    /\ poll[p].step = "enqueue" /\ poll[p].batch = {}
    /\ cursor' = [cursor EXCEPT ![poll[p].q] = last]
    /\ poll' = [poll EXCEPT ![p] = NoPoll]
    /\ UNCHANGED <<txVars, rowVars, queueVars, shown, faults>>

\* UPDATE ... SET last_event_id = newCursor ... AND last_event_id < newCursor.
SaveCursor(p) ==
    /\ poll[p].step = "enqueue" /\ poll[p].batch = {}
    /\ cursor' = [cursor EXCEPT ![poll[p].q] = IF @ < poll[p].reached THEN poll[p].reached ELSE @]
    /\ poll' = [poll EXCEPT ![p] = NoPoll]
    /\ UNCHANGED <<txVars, rowVars, queueVars, shown, faults>>

---------------------------------------------------------------------------
(* The subscriber workers                                                  *)

Became(q, e, j) == [job EXCEPT ![q][e] = j]

\* Faulty variant: a job that is being handled is taken again.
Take_Active(w, q, e) ==
    /\ work[w] = NoWork
    /\ job[q][e].st \in {"waiting", "active"} /\ e \notin processed[q]
    /\ job' = Became(q, e, [job[q][e] EXCEPT !.st = "active", !.lock = w])
    /\ work' = [work EXCEPT ![w] = [step |-> "handle", q |-> q, e |-> e]]
    /\ UNCHANGED <<txVars, rowVars, pollVars, processed, handled, shown, faults>>

\* A worker takes a job and asks hasBeenProcessed.
Take(w, q, e) ==
    /\ work[w] = NoWork
    /\ job[q][e].st = "waiting"
    /\ IF e \in processed[q]
       THEN /\ job' = Became(q, e, [job[q][e] EXCEPT !.st = "done"])
            /\ work' = work
       ELSE /\ job' = Became(q, e, [job[q][e] EXCEPT !.st = "active", !.lock = w])
            /\ work' = [work EXCEPT ![w] = [step |-> "handle", q |-> q, e |-> e]]
    /\ UNCHANGED <<txVars, rowVars, pollVars, processed, handled, shown, faults>>

\* The handler returns.
Handle(w) ==
    /\ work[w].step = "handle"
    /\ handled' = [handled EXCEPT ![work[w].q][work[w].e] = @ + 1]
    /\ work' = [work EXCEPT ![w] = [step |-> "record", q |-> @.q, e |-> @.e]]
    /\ UNCHANGED <<txVars, rowVars, pollVars, job, processed, shown, faults>>

\* BullMQ lets the holder of the lock end a job: what becomes of it.
Ended(w, q, e, ended) ==
    IF job[q][e].lock = w THEN Became(q, e, ended) ELSE job

\* recordProcessing (a duplicate is swallowed), then the job is completed.
Record(w) ==
    /\ work[w].step = "record"
    /\ LET q == work[w].q
           e == work[w].e
       IN  /\ processed' = [processed EXCEPT ![q] = @ \cup {e}]
           /\ job' = Ended(w, q, e, [job[q][e] EXCEPT !.st = "done", !.lock = NoWorker])
    /\ work' = [work EXCEPT ![w] = NoWork]
    /\ UNCHANGED <<txVars, rowVars, pollVars, handled, shown, faults>>

\* The handler or the record throws: the job waits for its next attempt, or is
\* dead (only logged as event.dead_letter).
Throw(w) ==
    /\ work[w].step \in {"handle", "record"}
    /\ Fault
    /\ LET q == work[w].q
           e == work[w].e
           n == job[q][e].tries + 1
       IN  job' = Ended(w, q, e, [job[q][e] EXCEPT
                     !.st = IF n < Attempts THEN "waiting" ELSE "dead",
                     !.tries = n, !.lock = NoWorker])
    /\ work' = [work EXCEPT ![w] = NoWork]
    /\ UNCHANGED <<txVars, rowVars, pollVars, processed, handled, shown>>

\* The lock of a job lapses while its worker goes on (lockDuration).
LoseLock(q, e) ==
    /\ job[q][e].st = "active" /\ job[q][e].lock # NoWorker
    /\ Fault
    /\ job' = Became(q, e, [job[q][e] EXCEPT !.lock = NoWorker])
    /\ UNCHANGED <<txVars, rowVars, pollVars, work, processed, handled, shown>>

\* BullMQ's check for stalled jobs finds an active job without a lock.
Stalled(q, e) ==
    /\ job[q][e].st = "active" /\ job[q][e].lock = NoWorker
    /\ job' = Became(q, e, [job[q][e] EXCEPT
                  !.st = IF job[q][e].stalled < MaxStalled THEN "waiting" ELSE "dead",
                  !.stalled = @ + 1])
    /\ UNCHANGED <<txVars, rowVars, pollVars, work, processed, handled, shown, faults>>

\* removeOnComplete: a completed job is forgotten, and with it its jobId.
Forget(q, e) ==
    /\ job[q][e].st = "done"
    /\ job' = Became(q, e, NoJob)
    /\ UNCHANGED <<txVars, rowVars, pollVars, work, processed, handled, shown, faults>>

---------------------------------------------------------------------------
\* The process dies: what it held in memory is gone, open transactions roll
\* back, committed ones stay; Redis and the database keep their rows.
Crash ==
    /\ Fault
    /\ stage' = [t \in Tx |-> CASE stage[t] = "open" -> "failed"
                                [] stage[t] \in {"committed", "flushing"} -> "done"
                                [] OTHER -> stage[t]]
    /\ hooks' = <<>>
    /\ flushing' = [t \in Tx |-> <<>>]
    /\ sent' = [t \in Tx |-> FALSE]
    /\ poll' = [p \in Poll |-> NoPoll]
    /\ work' = [w \in Worker |-> NoWork]
    /\ job' = [q \in Queue |-> [e \in Event |-> [job[q][e] EXCEPT !.lock = NoWorker]]]
    /\ mark' = [t \in Tx |-> 0]
    /\ UNCHANGED <<met, rowVars, cursor, processed, handled, shown>>

TxStep(t) ==
    \/ Begin(t) \/ Commit(t) \/ Flush(t) \/ CommitLost(t) \/ Rollback(t)
    \/ Enqueue(t) \/ Dispatch(t)
    \/ \E e \in Event : Emit(t, e)

PollStep(p) ==
    \/ Select(p) \/ Recover(p) \/ Break(p) \/ SaveCursor(p)
    \/ \E q \in Queue : ReadCursor(p, q)

JobStep(q, e) ==
    \/ LoseLock(q, e) \/ Stalled(q, e) \/ Forget(q, e)
    \/ \E w \in Worker : Take(w, q, e)

Next ==
    \/ \E t \in Tx : TxStep(t)
    \/ \E e \in Event : EmitAlone(e)
    \/ \E p \in Poll : PollStep(p)
    \/ \E q \in Queue, e \in Event : JobStep(q, e)
    \/ \E w \in Worker : Handle(w) \/ Record(w) \/ Throw(w)
    \/ Crash

\* The poller's timer goes on; workers take jobs and end them; BullMQ looks for
\* stalled jobs.  No transaction is promised to end.
Fairness ==
    /\ \A p \in Poll : WF_vars(Select(p)) /\ WF_vars(Recover(p)) /\ WF_vars(SaveCursor(p))
    /\ \A p \in Poll, q \in Queue : SF_vars(ReadCursor(p, q))
    /\ \A q \in Queue, e \in Event :
          WF_vars(Stalled(q, e)) /\ SF_vars(\E w \in Worker : Take(w, q, e))
    /\ \A w \in Worker : WF_vars(Handle(w)) /\ WF_vars(Record(w))

Spec == Init /\ [][Next]_vars /\ Fairness

---------------------------------------------------------------------------
(* Properties                                                              *)

Job == [st : JobState, tries : Nat, stalled : Nat, lock : Worker \cup {NoWorker}]
WorkState == {NoWork} \cup [step : {"handle", "record"}, q : Queue, e : Event]

PollState ==
    {NoPoll}
    \cup [step : {"select"}, q : Queue, from : Nat]
    \cup [step : {"enqueue"}, q : Queue, reached : Nat, batch : SUBSET Event]

TxType ==
    /\ stage \in [Tx -> {"idle", "open", "committed", "flushing", "done", "failed"}]
    /\ mark \in [Tx -> Nat]
    /\ hooks \in Seq(Event)
    /\ flushing \in [Tx -> Seq(Event)]
    /\ sent \in [Tx -> BOOLEAN]
    /\ met \subseteq Tx

RowType ==
    /\ id \in [Event -> Nat]
    /\ last \in Nat
    /\ overtaken \subseteq Event

PollType ==
    /\ cursor \in [Queue -> Nat]
    /\ poll \in [Poll -> PollState]

QueueType ==
    /\ job \in [Queue -> [Event -> Job]]
    /\ work \in [Worker -> WorkState]
    /\ processed \in [Queue -> SUBSET Event]
    /\ handled \in [Queue -> [Event -> Nat]]

\* Every table, list and job has its type (the schema and the in-process state).
TypeOK ==
    /\ TxType /\ RowType /\ PollType /\ QueueType
    /\ shown \in [Event -> Nat]
    /\ faults \in 0..MaxFaults

\* Somebody was told of e: a subscriber's handler or the in-memory ones ran.
Told(e) == shown[e] > 0 \/ \E q \in Queue : handled[q][e] > 0

\* Nobody is told of an event whose transaction has not committed ("A failed
\* transaction must NEVER publish its buffered domain events").  The shared list
\* of hooks breaks it for transactions that overlap.
ToldWasCommitted == \A e \in Event : Told(e) => Published(e)

\* It takes an overlap: the events of a transaction that met no other one
\* between its begin and its cut are told to nobody before they are committed,
\* whatever the other transactions, the poller and the workers do.
OnlyOverlapLeaks ==
    \A e \in Event : Told(e) => Published(e) \/ Owner[e] \in met

\* The in-memory handlers are run at most once for an event by emit and its
\* hooks: a hook that is cut off the list is never found there again.
ShownOnce == \A e \in Event : shown[e] <= 1

\* The poller never passes an event by: behind the cursor every event that was
\* committed in the order of the ids has its job or has been processed, with
\* polls that overlap, refused enqueues and crashes.
NoEventSkipped ==
    \A q \in Queue : \A e \in Subscribed[q] :
       Published(e) /\ e \notin overtaken /\ id[e] <= cursor[q]
          => job[q][e].st # "none" \/ e \in processed[q]

\* At-least-once is once unless something failed: each run of a handler after
\* the first takes a crash, a lost lock or a failed call.
HandledOncePerFault ==
    \A q \in Queue, e \in Event : handled[q][e] <= 1 + faults

\* A subscriber is not skipped: an event recorded as processed, or whose job is
\* completed, has been through its handler.
ProcessedWasHandled ==
    \A q \in Queue, e \in Event :
       e \in processed[q] \/ job[q][e].st = "done" => handled[q][e] > 0

\* The outbox delivers: an event committed in the order of the ids reaches its
\* subscriber in the end, or its job used up its attempts.
EventuallyHandled ==
    \A q \in Queue, e \in Event :
       e \in Subscribed[q] /\ Published(e) /\ e \notin overtaken
          ~> handled[q][e] > 0 \/ job[q][e].st = "dead"
=============================================================================
