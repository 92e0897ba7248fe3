---------------------------- MODULE BufferedSink ----------------------------
(***************************************************************************)
(* createBufferedBatchSink: the bounded in-memory queue between the router *)
(* and a batch handler (the OTLP exporter or the Supabase audit RPC).      *)
(*                                                                         *)
(* sink(record) enqueues; flush() and close() append a drain to a promise  *)
(* chain, so that drains run one at a time; a drain hands batches to the   *)
(* handler and awaits each call against a deadline.  A call abandoned at   *)
(* the deadline is not cancelled: it goes on as a "stray" and may still    *)
(* reach the downstream store.                                             *)
(*                                                                         *)
(* JavaScript runs each callback to completion, so one action is one       *)
(* stretch of code between two awaits.  Records are numbered in the order  *)
(* of their sink() calls.  Clock readings are abstracted: a deadline has   *)
(* passed or not (late), a backoff has elapsed or not (backingOff), an     *)
(* armed timer may fire at any time.                                       *)
(*                                                                         *)
(* An operator Wrong<X> is a faulty variant of X; the specification does   *)
(* not use it.  PROJECT.json says which property each of them breaks.      *)
(***************************************************************************)
EXTENDS Naturals, FiniteSets, Sequences

CONSTANTS
  MaxRecords,      \* bound of the model: sink() calls made in all
  MaxControlCalls, \* bound of the model: explicit flush() and close() calls
  MaxQueueSize,    \* options.maxQueueSize
  MaxBatchSize,    \* options.maxBatchSize
  MaxAttempts,     \* options.maxAttempts
  OverflowPolicy,  \* options.overflowPolicy
  DeliveryMode     \* options.deliveryMode

ASSUME SizesAssumption ==
  /\ MaxRecords \in Nat /\ MaxControlCalls \in Nat
  /\ MaxQueueSize \in Nat \ {0}
  /\ MaxBatchSize \in Nat \ {0}
  /\ MaxAttempts \in Nat \ {0}

ASSUME PolicyAssumption ==
  /\ OverflowPolicy \in {"drop_oldest", "fail_closed"}
  /\ DeliveryMode \in {"best_effort", "must_accept"}

VARIABLES
  calls,       \* number of sink() calls made so far
  controls,    \* number of explicit flush() and close() calls made so far
  queue,       \* records in the ring buffer
  ahead,       \* ahead[r]: the queued (or co-batched) records in front of r
  attempts,    \* attempts[r]: entry.attempts of the record's entry
  backingOff,  \* queued records whose nextAttemptAt is in the future
  timer,       \* is the flush timer armed?
  closed,      \* has close() been called?
  chain,       \* drains waiting on flushChain, in order
  running,     \* the drain that runs now, or Idle
  late,        \* has the running drain's deadline passed?
  batch,       \* records of the handler call that is awaited
  reached,     \* those of them that this call has put downstream
  stray,       \* stray[r]: abandoned handler calls still holding r
  received,    \* received[r]: how many times r arrived downstream
  outcome,     \* what the caller of sink(r) has seen
  delivered,   \* records counted in stats.delivered
  evicted,     \* records counted in stats.droppedOldest
  exhausted    \* records counted in stats.droppedAfterRetries

storage    == <<queue, ahead, attempts, backingOff>>
scheduling == <<timer, closed, chain, running, late>>
handler    == <<batch, reached, stray, received>>
ledger     == <<delivered, evicted, exhausted>>
vars       == <<calls, controls, storage, scheduling, handler, outcome, ledger>>

Records      == 1 .. MaxRecords
NoCaller     == 0
DropOldest   == OverflowPolicy = "drop_oldest"
BestEffort   == DeliveryMode = "best_effort"
WrongMustAccept == FALSE
MustAccept   == DeliveryMode = "must_accept"

\* A drain on the chain: who awaits it, its force option and whether a failed
\* batch makes it throw (drain's throwOnFailure: never for close()).
Task == [caller : Records \cup {NoCaller}, force : BOOLEAN, throws : BOOLEAN]
Idle == [idle |-> TRUE]

Outcomes == {"none", "refused", "returned", "pending", "resolved", "rejected"}
\* Records whose sink() call did not throw at the door.
Accepted == {r \in Records : outcome[r] \notin {"none", "refused"}}

TypeOK ==
  /\ calls \in 0 .. MaxRecords
  /\ controls \in 0 .. MaxControlCalls
  /\ queue \in SUBSET Records
  /\ ahead \in [Records -> SUBSET Records]
  /\ attempts \in [Records -> 0 .. MaxAttempts - 1]
  /\ backingOff \in SUBSET queue
  /\ timer \in BOOLEAN /\ closed \in BOOLEAN /\ late \in BOOLEAN
  /\ chain \in Seq(Task)
  /\ running \in Task \cup {Idle}
  /\ batch \in SUBSET Records
  /\ reached \in SUBSET batch
  /\ stray \in [Records -> Nat]
  /\ received \in [Records -> Nat]
  /\ outcome \in [Records -> Outcomes]
  /\ delivered \in SUBSET Records
  /\ evicted \in SUBSET Records
  /\ exhausted \in SUBSET Records

Init ==
  /\ calls = 0 /\ controls = 0
  /\ queue = {} /\ backingOff = {}
  /\ ahead = [r \in Records |-> {}]
  /\ attempts = [r \in Records |-> 0]
  /\ timer = FALSE /\ closed = FALSE /\ late = FALSE
  /\ chain = <<>> /\ running = Idle
  /\ batch = {} /\ reached = {}
  /\ stray = [r \in Records |-> 0]
  /\ received = [r \in Records |-> 0]
  /\ outcome = [r \in Records |-> "none"]
  /\ delivered = {} /\ evicted = {} /\ exhausted = {}

-----------------------------------------------------------------------------
(* The ring buffer                                                         *)

Smaller(m, n) == IF m <= n THEN m ELSE n

\* Any n members of S, whatever their place.
WrongOldest(n, S) == {D \in SUBSET S : Cardinality(D) = n}

\* The n members of S that are in front of all its other members: a set of
\* one set, because the queue is totally ordered.
Oldest(n, S) ==
  {D \in SUBSET S : Cardinality(D) = n /\ \A d \in D, q \in S \ D : d \in ahead[q]}

\* The order that is left when the queue holds q and the awaited batch is b.
Order(q, b) ==
  [r \in Records |-> IF r \in q THEN ahead[r] \cap q
                     ELSE IF r \in b THEN ahead[r] \cap b ELSE {}]

\* By how many entries n more would overflow the queue (enqueueEntry's test).
Excess(n) ==
  IF Cardinality(queue) + n > MaxQueueSize
  THEN Cardinality(queue) + n - MaxQueueSize ELSE 0

\* enqueueEntry, for a new record that the overflow policy lets in.
Enqueue(r) ==
  /\ \E D \in Oldest(Excess(1), queue) :
       /\ queue' = (queue \ D) \cup {r}
       /\ ahead' = [Order(queue \ D, batch) EXCEPT ![r] = queue \ D]
       /\ backingOff' = backingOff \ D
       /\ evicted' = evicted \cup D
  /\ UNCHANGED attempts

-----------------------------------------------------------------------------
(* Calls made by the router                                                *)

\* The door is shut by close(), and by a full queue that must not evict.
Shut == closed \/ (Excess(1) > 0 /\ ~ DropOldest)

\* sink(record) throws.
Refuse(r) ==
  /\ Shut
  /\ outcome' = [outcome EXCEPT ![r] = "refused"]
  /\ UNCHANGED <<storage, scheduling, ledger>>

\* sink(record) enqueues, then flushes at once and hands the caller the promise
\* (must_accept), or makes sure a timer is armed (best_effort).
Admit(r) ==
  /\ ~ Shut
  /\ Enqueue(r)
  /\ \/ /\ ~ BestEffort
        /\ chain' = Append(chain, [caller |-> r, force |-> TRUE, throws |-> MustAccept])
        /\ outcome' = [outcome EXCEPT ![r] = "pending"]
        /\ UNCHANGED timer
     \/ /\ BestEffort
        /\ timer' = TRUE
        /\ outcome' = [outcome EXCEPT ![r] = "returned"]
        /\ UNCHANGED chain
  /\ UNCHANGED <<closed, running, late, delivered, exhausted>>

Sink ==
  /\ calls < MaxRecords
  /\ calls' = calls + 1
  /\ Refuse(calls + 1) \/ Admit(calls + 1)
  /\ UNCHANGED <<controls, handler>>

\* flush({ force }), by a caller or by the unload hook.
Flush(force) ==
  /\ controls < MaxControlCalls
  /\ controls' = controls + 1
  /\ chain' = Append(chain, [caller |-> NoCaller, force |-> force, throws |-> MustAccept])
  /\ UNCHANGED <<calls, storage, timer, closed, running, late, handler, outcome, ledger>>

\* close({ force }): its drain never throws on a failed batch.
Close(force) ==
  /\ controls < MaxControlCalls
  /\ controls' = controls + 1
  /\ closed' = TRUE
  /\ timer' = FALSE
  /\ chain' = Append(chain, [caller |-> NoCaller, force |-> force, throws |-> FALSE])
  /\ UNCHANGED <<calls, storage, running, late, handler, outcome, ledger>>

-----------------------------------------------------------------------------
(* The clock                                                               *)

\* The flush timer fires: a drain that takes one batch of what is due.
TimerFires ==
  /\ timer
  /\ timer' = FALSE
  /\ chain' = Append(chain, [caller |-> NoCaller, force |-> FALSE, throws |-> MustAccept])
  /\ UNCHANGED <<calls, controls, storage, closed, running, late, handler, outcome, ledger>>

BackoffElapses(r) ==
  /\ r \in backingOff
  /\ backingOff' = backingOff \ {r}
  /\ UNCHANGED <<calls, controls, queue, ahead, attempts, scheduling, handler, outcome, ledger>>

DeadlinePasses ==
  /\ running # Idle /\ ~ late
  /\ late' = TRUE
  /\ UNCHANGED <<calls, controls, storage, timer, closed, chain, running, handler, outcome, ledger>>

-----------------------------------------------------------------------------
(* The parts of a drain.  task is the drain, q the entries queued by then, *)
(* armed whether the flush timer is armed by then.                         *)

\* planEligibleBatch: the entries of q that are due, all of them with force.
Due(q, force) == IF force THEN q ELSE q \ backingOff

\* The batch leaves the queue before its call has succeeded.
WrongKept(task, b) == {}

\* The part of batch b that stays queued during its call: all of it if failures
\* throw (peekEligibleBatch), else none (selectEligibleBatch).
Kept(task, b) == IF task.throws THEN b ELSE {}

\* flushBatch hands the oldest due entries to the handler.
CallHandler(q, task) ==
  /\ \E b \in Oldest(Smaller(MaxBatchSize, Cardinality(Due(q, task.force))),
                     Due(q, task.force)) :
       /\ batch' = b
       /\ queue' = (q \ b) \cup Kept(task, b)
       /\ ahead' = Order(queue', b)
  /\ backingOff' = backingOff \cap queue'
  /\ reached' = {}
  /\ running' = task

\* The drain swallows the failure and its promise never settles.
WrongSettle(task, result) ==
  /\ outcome' = IF task.caller = NoCaller \/ result = "rejected" THEN outcome
                ELSE [outcome EXCEPT ![task.caller] = result]
  /\ running' = Idle /\ late' = FALSE
  /\ batch' = {} /\ reached' = {}

\* The drain ends, and with it the promise of the sink() call that asked for it.
Settle(task, result) ==
  /\ outcome' = IF task.caller = NoCaller THEN outcome
                ELSE [outcome EXCEPT ![task.caller] = result]
  /\ running' = Idle /\ late' = FALSE
  /\ batch' = {} /\ reached' = {}

\* The last statement of drain is missing.
WrongReturn(q, task, armed) == timer' = armed /\ Settle(task, "resolved")

\* The drain returns: it re-arms the timer if entries are left.
Return(q, task, armed) ==
  /\ timer' = (armed \/ (~ closed /\ BestEffort /\ q # {}))
  /\ Settle(task, "resolved")

\* The drain throws: no timer is armed.
Throw(task) ==
  /\ Settle(task, "rejected")
  /\ UNCHANGED timer

\* The entries left are q, in the order they had.
Leave(q) ==
  /\ queue' = q
  /\ ahead' = Order(q, {})
  /\ backingOff' = backingOff \cap q

\* The test of drain's while loop: one more batch, or the end.
Loop(q, task, armed, isLate) ==
  \/ /\ ~ isLate /\ Due(q, task.force) # {}
     /\ CallHandler(q, task)
     /\ timer' = armed /\ late' = FALSE
     /\ UNCHANGED outcome
  \/ /\ isLate \/ Due(q, task.force) = {}
     /\ Leave(q)
     /\ Return(q, task, armed)

-----------------------------------------------------------------------------
(* The steps of a drain                                                    *)

\* The next drain of the chain starts (runSerialized): it clears the timer and
\* takes its first batch.
StartDrain ==
  /\ running = Idle /\ chain # <<>>
  /\ chain' = Tail(chain)
  /\ Loop(queue, Head(chain), FALSE, FALSE)
  /\ UNCHANGED <<calls, controls, attempts, closed, stray, received, ledger>>

\* The handler's promise is not awaited.
WrongCallResolved == TRUE

\* The awaited call can only resolve once it has put its batch downstream.
CallResolved == reached = batch

\* The awaited call resolved: count the batch, and go round if forced.
BatchSucceeds ==
  /\ running # Idle
  /\ CallResolved
  /\ delivered' = delivered \cup batch
  /\ LET left == IF running.throws THEN queue \ batch ELSE queue
     IN  \/ /\ running.force
            /\ Loop(left, running, timer, late)
         \/ /\ ~ running.force
            /\ Leave(left)
            /\ Return(left, running, timer)
  /\ UNCHANGED <<calls, controls, attempts, closed, chain, stray, received,
                 evicted, exhausted>>

WrongRetryable == {r \in batch : attempts[r] < MaxAttempts}

\* The entries of a failed batch that have attempts left.
Retryable == {r \in batch : attempts[r] + 1 < MaxAttempts}

\* requeueAfterFailure, not forced: retryable entries go to the back of the
\* queue in batch order.  Where there is no room they push out the oldest
\* entries (drop_oldest), or make enqueueEntry throw in the middle of the loop,
\* which loses that entry and every one after it (fail_closed).
Requeue ==
  LET excess == Excess(Cardinality(Retryable))
      out    == IF DropOldest THEN excess ELSE 0
      lost   == IF DropOldest THEN 0 ELSE excess
  IN  \E D \in Oldest(out, queue),
         back \in Oldest(Cardinality(Retryable) - lost, Retryable) :
        /\ queue' = (queue \ D) \cup back
        /\ ahead' = [r \in Records |->
                       IF r \in back THEN (queue \ D) \cup (ahead[r] \cap back)
                       ELSE Order(queue \ D, {})[r]]
        /\ attempts' = [r \in Records |-> IF r \in back THEN attempts[r] + 1 ELSE attempts[r]]
        /\ backingOff' = (backingOff \ D) \cup back
        /\ evicted' = evicted \cup D
        /\ exhausted' = exhausted \cup
             {r \in batch \ Retryable : \A s \in Retryable \ back : r \in ahead[s]}
        /\ IF back = Retryable THEN Return(queue', running, timer) ELSE Throw(running)

\* flushBatch's catch block: rethrow, drop the batch (forced) or requeue it.
BatchFails ==
  \/ /\ running.throws
     /\ Leave(queue)
     /\ Throw(running)
     /\ UNCHANGED <<attempts, evicted, exhausted>>
  \/ /\ ~ running.throws /\ running.force
     /\ exhausted' = exhausted \cup batch
     /\ Loop(queue, running, timer, late)
     /\ UNCHANGED <<attempts, evicted>>
  \/ /\ ~ running.throws /\ ~ running.force
     /\ Requeue

\* The awaited call rejected.
HandlerRejects ==
  /\ running # Idle
  /\ BatchFails
  /\ UNCHANGED <<calls, controls, closed, chain, stray, received, delivered>>

\* awaitWithDeadline rejects first: the call is abandoned, but goes on.
HandlerTimesOut ==
  /\ running # Idle /\ late
  /\ stray' = [r \in Records |-> IF r \in batch \ reached THEN stray[r] + 1 ELSE stray[r]]
  /\ BatchFails
  /\ UNCHANGED <<calls, controls, closed, chain, received, delivered>>

-----------------------------------------------------------------------------
(* The downstream store                                                    *)

\* The awaited call puts one of its records downstream.
Arrive(r) ==
  /\ r \in batch \ reached
  /\ reached' = reached \cup {r}
  /\ received' = [received EXCEPT ![r] = @ + 1]
  /\ UNCHANGED <<calls, controls, storage, scheduling, batch, stray, outcome, ledger>>

\* An abandoned call puts one of its records downstream after all.
ArriveLate(r) ==
  /\ stray[r] > 0
  /\ stray' = [stray EXCEPT ![r] = @ - 1]
  /\ received' = [received EXCEPT ![r] = @ + 1]
  /\ UNCHANGED <<calls, controls, storage, scheduling, batch, reached, outcome, ledger>>

-----------------------------------------------------------------------------
Next ==
  \/ Sink
  \/ \E force \in BOOLEAN : Flush(force) \/ Close(force)
  \/ TimerFires
  \/ DeadlinePasses
  \/ \E r \in Records : BackoffElapses(r)
  \/ StartDrain
  \/ BatchSucceeds
  \/ HandlerRejects
  \/ HandlerTimesOut
  \/ \E r \in Records : Arrive(r) \/ ArriveLate(r)

Spec == Init /\ [][Next]_vars

\* The event loop runs what is due: timers, elapsed delays and chained drains.
\* Nothing is assumed of the handler, which may never settle.
Fairness ==
  /\ WF_vars(StartDrain)
  /\ WF_vars(TimerFires)
  /\ WF_vars(DeadlinePasses)
  /\ WF_vars(HandlerTimesOut)
  /\ \A r \in Records : WF_vars(BackoffElapses(r))

FairSpec == Spec /\ Fairness

-----------------------------------------------------------------------------
(* Properties                                                              *)

\* The queue never outgrows maxQueueSize, though a failed batch comes back to
\* a queue that sink() calls have filled in the meantime (requeueAfterFailure).
QueueBounded == Cardinality(queue) <= MaxQueueSize

\* No record is lost or counted twice: each accepted record is queued, in the
\* awaited batch, or in exactly one of the counters that stats() reports.
Accounted ==
  /\ Accepted = queue \cup batch \cup delivered \cup evicted \cup exhausted
  /\ (queue \cup batch) \cap (delivered \cup evicted \cup exhausted) = {}
  /\ delivered \cap (evicted \cup exhausted) = {}
  /\ evicted \cap exhausted = {}

\* Duplicates come from retries alone: with strays included, a record reaches
\* the store at most once per attempt, so at most maxAttempts times.
AttemptsBoundCopies ==
  \A r \in Records : received[r] + stray[r] <= Smaller(attempts[r] + 1, MaxAttempts)

\* Telemetry never gets stuck in an open sink: while entries are queued, the
\* timer is armed or a drain runs or waits, whatever interleaving of sink(),
\* firing timers and failing batches led there.
NeverStuck ==
  ~ closed /\ queue # {} => timer \/ running # Idle \/ chain # <<>>

\* No record overtakes one that still waits for its first attempt: retries and
\* newer records never go into a batch that leaves it behind.
FirstAttemptsInOrder ==
  \A r \in batch, q \in queue \ batch : attempts[q] = 0 => r < q

\* Must-accept records are delivered in the order they were accepted, over
\* failed batches and abandoned calls.  Only close() may let one be overtaken: it
\* gives a failed batch up or, if it is not forced, puts it behind the others.
AuditInOrder ==
  \A r \in delivered, q \in Accepted :
    q < r => q \in delivered \cup exhausted \/ attempts[q] > 0

\* An open must-accept sink keeps every accepted record until it is delivered,
\* even when its caller was told that the flush failed.
AuditKept == ~ closed => Accepted = queue \cup delivered

\* A caller of a must-accept sink() whose promise resolved has its record
\* delivered.
ResolvedDelivered ==
  \A r \in Records : outcome[r] = "resolved" => r \in delivered

\* Every caller that awaits a must-accept sink() gets an answer, even if no
\* handler call ever settles.
CallersAnswered ==
  \A r \in Records : outcome[r] = "pending" ~> outcome[r] \in {"resolved", "rejected"}

\* Every accepted telemetry record leaves an open sink: delivered, pushed out or
\* given up after maxAttempts, even if no handler call ever settles.  There are
\* MaxRecords calls, so that again and again an open sink has settled them all.
RecordsSettle ==
  []<>(closed \/ Accepted = delivered \cup evicted \cup exhausted)

\* Where a record stands in the abstract ledger.
Fate ==
  [r \in Records |->
     IF outcome[r] = "none" THEN "new"
     ELSE IF outcome[r] = "refused" THEN "refused"
     ELSE IF r \in delivered THEN "delivered"
     ELSE IF r \in evicted \cup exhausted THEN "dropped"
     ELSE "pending"]

Ledger == INSTANCE DeliveryLedger WITH fate <- Fate, Lossy <- BestEffort

\* The sink implements the delivery ledger, lossy for best_effort and lossless
\* while open for must_accept: a record counts as delivered only after it arrived
\* downstream, is dropped only where the policy allows it and settles once.
ImplementsLedger == Ledger!Spec
=============================================================================
