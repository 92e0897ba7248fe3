------------------------- MODULE BufferedSinkProofs -------------------------
(***************************************************************************)
(* Theorems about the buffered sink, for every number of records, every    *)
(* queue, batch and attempt limit and both policies: its types and its     *)
(* queue; what becomes of accepted records; that it never gets stuck; how  *)
(* often and in which order it delivers; and that it implements the        *)
(* delivery ledger.                                                        *)
(***************************************************************************)
EXTENDS BufferedSink, FiniteSetTheorems, TLAPS

\* The oldest members of a set are members of it.
LEMMA OldestInside ==
  ASSUME NEW n, NEW S, NEW D \in Oldest(n, S)
  PROVE  D \subseteq S
  BY DEF Oldest

\* Restricting the queue order keeps its type.
LEMMA OrderType ==
  ASSUME ahead \in [Records -> SUBSET Records], NEW q, NEW b
  PROVE  Order(q, b) \in [Records -> SUBSET Records]
  BY DEF Order

\* The variables that the end of a drain or its next batch assigns.
DrainTypes ==
  /\ queue \in SUBSET Records
  /\ ahead \in [Records -> SUBSET Records]
  /\ backingOff \in SUBSET queue
  /\ timer \in BOOLEAN /\ late \in BOOLEAN
  /\ running \in Task \cup {Idle}
  /\ batch \in SUBSET Records
  /\ reached \in SUBSET batch
  /\ outcome \in [Records -> Outcomes]

\* Ending a drain keeps the types of what it settles.
LEMMA SettleType ==
  ASSUME TypeOK, NEW task \in Task, NEW result \in Outcomes, Settle(task, result)
  PROVE  /\ late' \in BOOLEAN
         /\ running' \in Task \cup {Idle}
         /\ batch' \in SUBSET Records
         /\ reached' \in SUBSET batch'
         /\ outcome' \in [Records -> Outcomes]
<1>1. outcome' \in [Records -> Outcomes]
  BY DEF Settle, TypeOK, Task
<1>2. QED
  BY <1>1 DEF Settle

\* A drain that throws keeps the types.
LEMMA ThrowType ==
  ASSUME TypeOK, NEW task \in Task, Throw(task)
  PROVE  /\ late' \in BOOLEAN /\ timer' \in BOOLEAN
         /\ running' \in Task \cup {Idle}
         /\ batch' \in SUBSET Records
         /\ reached' \in SUBSET batch'
         /\ outcome' \in [Records -> Outcomes]
<1>1. Settle(task, "rejected") /\ "rejected" \in Outcomes /\ timer' = timer
  BY DEF Throw, Outcomes
<1>2. QED
  BY <1>1, SettleType DEF TypeOK

\* A drain that returns keeps the types.
LEMMA ReturnType ==
  ASSUME TypeOK, NEW q, NEW task \in Task, NEW armed \in BOOLEAN, Return(q, task, armed)
  PROVE  /\ late' \in BOOLEAN /\ timer' \in BOOLEAN
         /\ running' \in Task \cup {Idle}
         /\ batch' \in SUBSET Records
         /\ reached' \in SUBSET batch'
         /\ outcome' \in [Records -> Outcomes]
<1>1. Settle(task, "resolved") /\ "resolved" \in Outcomes
  BY DEF Return, Outcomes
<1>2. timer' \in BOOLEAN
  BY DEF Return
<1>3. QED
  BY <1>1, <1>2, SettleType

\* What is left of the queue has the type of a queue.
LEMMA LeaveType ==
  ASSUME TypeOK, NEW q \in SUBSET Records, Leave(q)
  PROVE  /\ queue' \in SUBSET Records
         /\ ahead' \in [Records -> SUBSET Records]
         /\ backingOff' \in SUBSET queue'
  BY OrderType DEF Leave, TypeOK

\* A batch handed to the handler consists of queued records.
LEMMA CallHandlerType ==
  ASSUME TypeOK, NEW q \in SUBSET Records, NEW task \in Task, CallHandler(q, task)
  PROVE  /\ queue' \in SUBSET Records
         /\ ahead' \in [Records -> SUBSET Records]
         /\ backingOff' \in SUBSET queue'
         /\ running' \in Task \cup {Idle}
         /\ batch' \in SUBSET Records
         /\ reached' \in SUBSET batch'
<1>1. PICK b \in Oldest(Smaller(MaxBatchSize, Cardinality(Due(q, task.force))),
                        Due(q, task.force)) :
        /\ batch' = b
        /\ queue' = (q \ b) \cup Kept(task, b)
        /\ ahead' = Order(queue', b)
  BY DEF CallHandler
<1>2. b \subseteq Records
  BY OldestInside DEF Due
<1>3. queue' \in SUBSET Records
  BY <1>1, <1>2 DEF Kept
<1>4. ahead' \in [Records -> SUBSET Records]
  BY <1>1, OrderType DEF TypeOK
<1>5. QED
  BY <1>1, <1>2, <1>3, <1>4 DEF CallHandler

\* Both ways out of the loop test keep the types.
LEMMA LoopType ==
  ASSUME TypeOK, NEW q \in SUBSET Records, NEW task \in Task,
         NEW armed \in BOOLEAN, NEW isLate \in BOOLEAN,
         Loop(q, task, armed, isLate)
  PROVE  DrainTypes'
<1>1. CASE /\ CallHandler(q, task)
           /\ timer' = armed /\ late' = FALSE
           /\ UNCHANGED outcome
  BY <1>1, CallHandlerType DEF DrainTypes, TypeOK
<1>2. CASE Leave(q) /\ Return(q, task, armed)
  BY <1>2, LeaveType, ReturnType DEF DrainTypes
<1>3. QED
  BY <1>1, <1>2 DEF Loop

\* Putting a failed batch back keeps the types; an entry goes back only with
\* attempts left.
LEMMA RequeueType ==
  ASSUME TypeOK, running # Idle, Requeue
  PROVE  /\ DrainTypes'
         /\ attempts' \in [Records -> 0 .. MaxAttempts - 1]
         /\ evicted' \in SUBSET Records
         /\ exhausted' \in SUBSET Records
<1>. DEFINE excess == Excess(Cardinality(Retryable))
            out    == IF DropOldest THEN excess ELSE 0
            lost   == IF DropOldest THEN 0 ELSE excess
<1>1. PICK D \in Oldest(out, queue),
           back \in Oldest(Cardinality(Retryable) - lost, Retryable) :
        /\ queue' = (queue \ D) \cup back
        /\ ahead' = [r \in Records |->
                       IF r \in back THEN (queue \ D) \cup (ahead[r] \cap back)
                       ELSE Order(queue \ D, {})[r]]
        /\ attempts' = [r \in Records |-> IF r \in back THEN attempts[r] + 1 ELSE attempts[r]]
        /\ backingOff' = (backingOff \ D) \cup back
        /\ evicted' = evicted \cup D
        /\ exhausted' = exhausted \cup
             {r \in batch \ Retryable : \A s \in Retryable \ back : r \in ahead[s]}
        /\ IF back = Retryable THEN Return(queue', running, timer) ELSE Throw(running)
  BY DEF Requeue
<1>2. D \subseteq queue /\ back \subseteq Retryable /\ Retryable \subseteq batch
  BY OldestInside DEF Retryable
<1>3. queue' \in SUBSET Records /\ backingOff' \in SUBSET queue'
  BY <1>1, <1>2 DEF TypeOK
<1>4. ahead' \in [Records -> SUBSET Records]
  <2>1. Order(queue \ D, {}) \in [Records -> SUBSET Records]
    BY OrderType DEF TypeOK
  <2>2. QED
    BY <1>1, <1>2, <2>1 DEF TypeOK
<1>5. attempts' \in [Records -> 0 .. MaxAttempts - 1]
  <2>1. ASSUME NEW r \in Records
        PROVE  (IF r \in back THEN attempts[r] + 1 ELSE attempts[r]) \in 0 .. MaxAttempts - 1
    BY <1>2, SizesAssumption DEF Retryable, TypeOK
  <2>2. QED
    BY <1>1, <2>1
<1>6. evicted' \in SUBSET Records /\ exhausted' \in SUBSET Records
  BY <1>1, <1>2 DEF TypeOK
<1>7. running \in Task /\ timer \in BOOLEAN
  BY DEF TypeOK
<1>8. /\ late' \in BOOLEAN /\ timer' \in BOOLEAN
      /\ running' \in Task \cup {Idle}
      /\ batch' \in SUBSET Records
      /\ reached' \in SUBSET batch'
      /\ outcome' \in [Records -> Outcomes]
  <2>1. CASE Return(queue', running, timer)
    BY <2>1, <1>7, ReturnType
  <2>2. CASE Throw(running)
    BY <2>2, <1>7, ThrowType
  <2>3. QED
    BY <1>1, <2>1, <2>2
<1>9. QED
  BY <1>3, <1>4, <1>5, <1>6, <1>8 DEF DrainTypes

\* The catch block of flushBatch keeps the types.
LEMMA BatchFailsType ==
  ASSUME TypeOK, running # Idle, BatchFails
  PROVE  /\ DrainTypes'
         /\ attempts' \in [Records -> 0 .. MaxAttempts - 1]
         /\ evicted' \in SUBSET Records
         /\ exhausted' \in SUBSET Records
<1>1. running \in Task /\ queue \in SUBSET Records /\ timer \in BOOLEAN /\ late \in BOOLEAN
  BY DEF TypeOK
<1>2. CASE /\ Leave(queue)
           /\ Throw(running)
           /\ UNCHANGED <<attempts, evicted, exhausted>>
  BY <1>1, <1>2, LeaveType, ThrowType DEF DrainTypes, TypeOK
<1>3. CASE /\ exhausted' = exhausted \cup batch
           /\ Loop(queue, running, timer, late)
           /\ UNCHANGED <<attempts, evicted>>
  BY <1>1, <1>3, LoopType DEF TypeOK
<1>4. CASE Requeue
  BY <1>4, RequeueType
<1>5. QED
  BY <1>2, <1>3, <1>4 DEF BatchFails

-----------------------------------------------------------------------------
\* Every variable of the sink keeps its type: in particular the attempts of an
\* entry stay below maxAttempts, only queued entries back off, and a call puts
\* nothing downstream that is not in its batch.
THEOREM TypeCorrect == Spec => []TypeOK
<1>1. Init => TypeOK
  <2>1. 0 \in 0 .. MaxRecords /\ 0 \in 0 .. MaxControlCalls /\ 0 \in 0 .. MaxAttempts - 1
    BY SizesAssumption
  <2>2. <<>> \in Seq(Task) /\ "none" \in Outcomes
    BY DEF Outcomes
  <2>3. SUFFICES ASSUME Init PROVE TypeOK
    OBVIOUS
  <2>4. /\ ahead \in [Records -> SUBSET Records]
        /\ attempts \in [Records -> 0 .. MaxAttempts - 1]
        /\ outcome \in [Records -> Outcomes]
        /\ stray \in [Records -> Nat] /\ received \in [Records -> Nat]
    BY <2>1, <2>2, <2>3 DEF Init
  <2>5. QED
    BY <2>1, <2>2, <2>3, <2>4 DEF Init, TypeOK
<1>2. TypeOK /\ [Next]_vars => TypeOK'
  <2>. SUFFICES ASSUME TypeOK, [Next]_vars PROVE TypeOK'
    OBVIOUS
  <2>1. CASE Sink
    <3>1. calls + 1 \in Records /\ calls' \in 0 .. MaxRecords
      BY <2>1, SizesAssumption DEF Sink, TypeOK, Records
    <3>2. CASE Refuse(calls + 1)
      BY <2>1, <3>1, <3>2 DEF Sink, Refuse, TypeOK, storage, scheduling, ledger, handler, Outcomes
    <3>3. CASE Admit(calls + 1)
      <4>. DEFINE r == calls + 1
      <4>1. PICK D \in Oldest(Excess(1), queue) :
              /\ queue' = (queue \ D) \cup {r}
              /\ ahead' = [Order(queue \ D, batch) EXCEPT ![r] = queue \ D]
              /\ backingOff' = backingOff \ D
              /\ evicted' = evicted \cup D
        BY <3>3 DEF Admit, Enqueue
      <4>2. D \subseteq queue
        BY OldestInside
      <4>3. ahead' \in [Records -> SUBSET Records]
        BY <3>1, <4>1, OrderType DEF TypeOK
      <4>4. chain' \in Seq(Task)
        <5>1. [caller |-> r, force |-> TRUE, throws |-> MustAccept] \in Task
          BY <3>1 DEF Task, MustAccept
        <5>2. chain \in Seq(Task)
          BY DEF TypeOK
        <5>3. \/ chain' = Append(chain, [caller |-> r, force |-> TRUE, throws |-> MustAccept])
              \/ chain' = chain
          BY <3>3 DEF Admit
        <5>4. QED
          BY <5>1, <5>2, <5>3
      <4>5. outcome' \in [Records -> Outcomes]
        BY <3>1, <3>3 DEF Admit, TypeOK, Outcomes
      <4>6. timer' \in BOOLEAN
        BY <3>3 DEF Admit, TypeOK
      <4>7. /\ queue' \in SUBSET Records /\ backingOff' \in SUBSET queue'
            /\ evicted' \in SUBSET Records
        BY <3>1, <4>1, <4>2 DEF TypeOK
      <4>8. QED
        BY <2>1, <3>1, <3>3, <4>3, <4>4, <4>5, <4>6, <4>7
        DEF Sink, Admit, Enqueue, TypeOK, handler
    <3>4. QED
      BY <2>1, <3>2, <3>3 DEF Sink
  <2>2. ASSUME NEW force \in BOOLEAN, Flush(force)
        PROVE  TypeOK'
    <3>1. chain' \in Seq(Task)
      BY <2>2 DEF Flush, TypeOK, Task, NoCaller, MustAccept
    <3>2. controls' \in 0 .. MaxControlCalls
      BY <2>2, SizesAssumption DEF Flush, TypeOK
    <3>3. QED
      BY <2>2, <3>1, <3>2 DEF Flush, TypeOK, storage, handler, ledger
  <2>3. ASSUME NEW force \in BOOLEAN, Close(force)
        PROVE  TypeOK'
    <3>1. chain' \in Seq(Task)
      BY <2>3 DEF Close, TypeOK, Task, NoCaller
    <3>2. controls' \in 0 .. MaxControlCalls
      BY <2>3, SizesAssumption DEF Close, TypeOK
    <3>3. QED
      BY <2>3, <3>1, <3>2 DEF Close, TypeOK, storage, handler, ledger
  <2>4. CASE TimerFires
    <3>1. chain' \in Seq(Task)
      BY <2>4 DEF TimerFires, TypeOK, Task, NoCaller, MustAccept
    <3>2. QED
      BY <2>4, <3>1 DEF TimerFires, TypeOK, storage, handler, ledger
  <2>5. CASE DeadlinePasses
    BY <2>5 DEF DeadlinePasses, TypeOK, storage, handler, ledger
  <2>6. ASSUME NEW r \in Records, BackoffElapses(r)
        PROVE  TypeOK'
    BY <2>6 DEF BackoffElapses, TypeOK, scheduling, handler, ledger
  <2>7. CASE StartDrain
    <3>1. Head(chain) \in Task /\ chain' \in Seq(Task)
      BY <2>7 DEF StartDrain, TypeOK
    <3>2. Loop(queue, Head(chain), FALSE, FALSE)
      BY <2>7 DEF StartDrain
    <3>3. DrainTypes'
      BY <3>1, <3>2, LoopType DEF TypeOK
    <3>4. QED
      BY <2>7, <3>1, <3>3 DEF StartDrain, DrainTypes, TypeOK, ledger
  <2>8. CASE BatchSucceeds
    <3>. DEFINE left == IF running.throws THEN queue \ batch ELSE queue
    <3>1. left \in SUBSET Records /\ running \in Task /\ timer \in BOOLEAN /\ late \in BOOLEAN
      BY <2>8 DEF BatchSucceeds, TypeOK
    <3>2. ASSUME Loop(left, running, timer, late)
          PROVE  DrainTypes'
      BY <3>1, <3>2, LoopType
    <3>3. ASSUME Leave(left), Return(left, running, timer)
          PROVE  DrainTypes'
      <4>1. /\ queue' \in SUBSET Records
            /\ ahead' \in [Records -> SUBSET Records]
            /\ backingOff' \in SUBSET queue'
        BY <3>1, <3>3, LeaveType
      <4>2. QED
        BY <3>1, <3>3, <4>1, ReturnType DEF DrainTypes
    <3>4. DrainTypes'
      BY <2>8, <3>2, <3>3 DEF BatchSucceeds
    <3>5. QED
      BY <2>8, <3>4 DEF BatchSucceeds, DrainTypes, TypeOK
  <2>9. CASE HandlerRejects
    BY <2>9, BatchFailsType DEF HandlerRejects, DrainTypes, TypeOK
  <2>10. CASE HandlerTimesOut
    <3>1. stray' \in [Records -> Nat]
      BY <2>10 DEF HandlerTimesOut, TypeOK
    <3>2. QED
      BY <2>10, <3>1, BatchFailsType DEF HandlerTimesOut, DrainTypes, TypeOK
  <2>11. ASSUME NEW r \in Records, Arrive(r)
         PROVE  TypeOK'
    BY <2>11 DEF Arrive, TypeOK, storage, scheduling, ledger
  <2>12. ASSUME NEW r \in Records, ArriveLate(r)
         PROVE  TypeOK'
    BY <2>12 DEF ArriveLate, TypeOK, storage, scheduling, ledger
  <2>13. CASE UNCHANGED vars
    BY <2>13 DEF vars, TypeOK, storage, scheduling, handler, ledger
  <2>14. QED
    BY <2>1, <2>2, <2>3, <2>4, <2>5, <2>6, <2>7, <2>8, <2>9, <2>10, <2>11, <2>12, <2>13
    DEF Next
<1>3. QED
  BY <1>1, <1>2, PTL DEF Spec

-----------------------------------------------------------------------------
(* The bound of the queue                                                  *)

\* Sets of records are finite and sizes compare as expected.
LEMMA RecordSets ==
  ASSUME NEW S \in SUBSET Records, NEW T \in SUBSET S
  PROVE  /\ IsFiniteSet(S) /\ Cardinality(S) \in Nat
         /\ IsFiniteSet(T) /\ Cardinality(T) \in Nat
         /\ Cardinality(T) <= Cardinality(S)
<1>1. IsFiniteSet(Records)
  BY SizesAssumption, FS_Interval DEF Records
<1>2. IsFiniteSet(S)
  BY <1>1, FS_Subset
<1>3. QED
  BY <1>2, FS_Subset, FS_CardinalityType

\* Swapping the subset D of S for the set E changes the size accordingly.
LEMMA SwapBound ==
  ASSUME NEW S \in SUBSET Records, NEW D \in SUBSET S, NEW E \in SUBSET Records
  PROVE  Cardinality((S \ D) \cup E) <= Cardinality(S) - Cardinality(D) + Cardinality(E)
<1>1. /\ IsFiniteSet(S) /\ IsFiniteSet(D) /\ IsFiniteSet(E) /\ IsFiniteSet(S \ D)
      /\ Cardinality(S) \in Nat /\ Cardinality(D) \in Nat /\ Cardinality(E) \in Nat
      /\ Cardinality(S \ D) \in Nat
  BY RecordSets
<1>2. Cardinality(S \ D) = Cardinality(S) - Cardinality(D)
  <2>1. S \cap D = D
    OBVIOUS
  <2>2. QED
    BY <1>1, <2>1, FS_Difference
<1>3. /\ Cardinality((S \ D) \cup E) =
           Cardinality(S \ D) + Cardinality(E) - Cardinality((S \ D) \cap E)
      /\ Cardinality((S \ D) \cap E) \in Nat
  <2>1. Cardinality((S \ D) \cap E) \in Nat
    BY RecordSets
  <2>2. QED
    BY <1>1, <2>1, FS_Union
<1>4. QED
  BY <1>1, <1>2, <1>3

\* The size of a set of oldest entries is the number asked for.
LEMMA OldestSize ==
  ASSUME NEW n, NEW S, NEW D \in Oldest(n, S)
  PROVE  Cardinality(D) = n
  BY DEF Oldest

\* The loop test only takes entries out of the queue.
LEMMA LoopShrinks ==
  ASSUME NEW q \in SUBSET Records, NEW task, NEW armed, NEW isLate,
         Loop(q, task, armed, isLate)
  PROVE  queue' \subseteq q
<1>1. CASE CallHandler(q, task)
  <2>1. PICK b \in Oldest(Smaller(MaxBatchSize, Cardinality(Due(q, task.force))),
                          Due(q, task.force)) :
          queue' = (q \ b) \cup Kept(task, b)
    BY <1>1 DEF CallHandler
  <2>2. b \subseteq q
    BY OldestInside DEF Due
  <2>3. QED
    BY <2>1, <2>2 DEF Kept
<1>2. CASE Leave(q)
  BY <1>2 DEF Leave
<1>3. QED
  BY <1>1, <1>2 DEF Loop

\* A queue that only shrinks stays within its bound.
LEMMA ShrinkingBounded ==
  ASSUME TypeOK, QueueBounded, queue' \subseteq queue
  PROVE  QueueBounded'
<1>1. /\ Cardinality(queue') <= Cardinality(queue)
      /\ Cardinality(queue) \in Nat /\ Cardinality(queue') \in Nat
  BY RecordSets DEF TypeOK
<1>2. QED
  BY <1>1, SizesAssumption DEF QueueBounded

\* A failed batch goes back within the bound: the overflow is pushed out of
\* the queue or not put back.
LEMMA RequeueBounded ==
  ASSUME TypeOK, QueueBounded, Requeue
  PROVE  QueueBounded'
<1>. DEFINE n      == Cardinality(Retryable)
            excess == Excess(n)
            out    == IF DropOldest THEN excess ELSE 0
            lost   == IF DropOldest THEN 0 ELSE excess
<1>1. PICK D \in Oldest(out, queue), back \in Oldest(n - lost, Retryable) :
        queue' = (queue \ D) \cup back
  BY DEF Requeue
<1>2. D \in SUBSET queue /\ back \in SUBSET Records /\ queue \in SUBSET Records
  BY OldestInside DEF Retryable, TypeOK
<1>3. Cardinality(queue') <= Cardinality(queue) - Cardinality(D) + Cardinality(back)
  BY <1>1, <1>2, SwapBound
<1>4. Cardinality(D) = out /\ Cardinality(back) = n - lost
  BY OldestSize
<1>5. n \in Nat /\ Cardinality(queue) \in Nat /\ MaxQueueSize \in Nat
  <2>1. Retryable \in SUBSET Records
    BY DEF Retryable, TypeOK
  <2>2. QED
    BY <1>2, <2>1, RecordSets, SizesAssumption
<1>6. Cardinality(queue) - out + (n - lost) <= MaxQueueSize
  BY <1>5 DEF Excess, QueueBounded
<1>7. Cardinality(queue') \in Nat
  <2>1. queue' \in SUBSET Records
    BY <1>1, <1>2
  <2>2. QED
    BY <2>1, RecordSets
<1>8. out \in Int /\ lost \in Int
  BY <1>5 DEF Excess
<1>9. QED
  BY <1>3, <1>4, <1>5, <1>6, <1>7, <1>8 DEF QueueBounded

\* The bound survives the catch block of flushBatch.
LEMMA BatchFailsBounded ==
  ASSUME TypeOK, QueueBounded, BatchFails
  PROVE  QueueBounded'
<1>1. queue \in SUBSET Records
  BY DEF TypeOK
<1>2. CASE Leave(queue)
  BY <1>2, ShrinkingBounded DEF Leave
<1>3. CASE Loop(queue, running, timer, late)
  BY <1>1, <1>3, LoopShrinks, ShrinkingBounded
<1>4. CASE Requeue
  BY <1>4, RequeueBounded
<1>5. QED
  BY <1>2, <1>3, <1>4 DEF BatchFails

\* The queue never outgrows maxQueueSize, for any sizes and either overflow
\* policy.
THEOREM QueueBoundedCorrect == Spec => []QueueBounded
<1>1. Init => QueueBounded
  BY SizesAssumption, FS_EmptySet DEF Init, QueueBounded
<1>2. TypeOK /\ QueueBounded /\ [Next]_vars => QueueBounded'
  <2>. SUFFICES ASSUME TypeOK, QueueBounded, [Next]_vars PROVE QueueBounded'
    OBVIOUS
  <2>1. CASE Sink
    <3>1. calls + 1 \in Records
      BY <2>1, SizesAssumption DEF Sink, TypeOK, Records
    <3>2. CASE Refuse(calls + 1)
      BY <3>2, ShrinkingBounded DEF Refuse, storage
    <3>3. CASE Admit(calls + 1)
      <4>1. PICK D \in Oldest(Excess(1), queue) :
              queue' = (queue \ D) \cup {calls + 1}
        BY <3>3 DEF Admit, Enqueue
      <4>2. D \in SUBSET queue /\ queue \in SUBSET Records /\ Cardinality(D) = Excess(1)
        BY OldestInside, OldestSize DEF TypeOK
      <4>3. Cardinality({calls + 1}) = 1
        BY FS_Singleton
      <4>4. Cardinality(queue') <= Cardinality(queue) - Excess(1) + 1
        BY <3>1, <4>1, <4>2, <4>3, SwapBound
      <4>5. Cardinality(queue) \in Nat /\ Cardinality(queue') \in Nat
        <5>1. queue' \in SUBSET Records
          BY <3>1, <4>1, <4>2
        <5>2. QED
          BY <4>2, <5>1, RecordSets
      <4>6. QED
        BY <4>4, <4>5, SizesAssumption DEF QueueBounded, Excess
    <3>4. QED
      BY <2>1, <3>2, <3>3 DEF Sink
  <2>2. CASE StartDrain
    BY <2>2, LoopShrinks, ShrinkingBounded DEF StartDrain, TypeOK
  <2>3. CASE BatchSucceeds
    <3>. DEFINE left == IF running.throws THEN queue \ batch ELSE queue
    <3>1. left \in SUBSET Records /\ left \subseteq queue
      BY DEF TypeOK
    <3>2. Loop(left, running, timer, late) \/ Leave(left)
      BY <2>3 DEF BatchSucceeds
    <3>3. queue' \subseteq left
      BY <3>1, <3>2, LoopShrinks DEF Leave
    <3>4. QED
      BY <3>1, <3>3, ShrinkingBounded
  <2>4. CASE HandlerRejects \/ HandlerTimesOut
    BY <2>4, BatchFailsBounded DEF HandlerRejects, HandlerTimesOut
  <2>5. ASSUME \/ \E force \in BOOLEAN : Flush(force) \/ Close(force)
               \/ TimerFires \/ DeadlinePasses
               \/ \E r \in Records : BackoffElapses(r) \/ Arrive(r) \/ ArriveLate(r)
               \/ UNCHANGED vars
        PROVE  QueueBounded'
    <3>1. queue' = queue
      BY <2>5 DEF Flush, Close, TimerFires, DeadlinePasses, BackoffElapses, Arrive,
                  ArriveLate, vars, storage
    <3>2. QED
      BY <3>1 DEF QueueBounded
  <2>6. QED
    BY <2>1, <2>2, <2>3, <2>4, <2>5 DEF Next
<1>3. QED
  BY <1>1, <1>2, TypeCorrect, PTL DEF Spec

-----------------------------------------------------------------------------
(* Who waits for a drain                                                   *)

\* Calls that were not made have no outcome, and a drain is only ever awaited
\* by the caller of an accepted record.
CallersKnown ==
  /\ \A r \in Records : r > calls => outcome[r] = "none"
  /\ \A i \in 1 .. Len(chain) : chain[i].caller \in Accepted \cup {NoCaller}
  /\ running # Idle => running.caller \in Accepted \cup {NoCaller}

\* Answering the caller of an accepted record leaves the accepted records as
\* they are, and does not touch calls still to be made.
LEMMA SettleKeepsAccepted ==
  ASSUME TypeOK, NEW task \in Task, task.caller \in Accepted \cup {NoCaller},
         NEW result \in {"resolved", "rejected"}, Settle(task, result),
         \A r \in Records : r > calls => outcome[r] = "none"
  PROVE  /\ Accepted' = Accepted /\ running' = Idle /\ batch' = {}
         /\ \A r \in Records : r > calls => outcome'[r] = "none"
<1>1. ASSUME NEW r \in Records
      PROVE  outcome'[r] = outcome[r] \/ (r = task.caller /\ outcome'[r] = result)
    BY <1>1 DEF Settle, TypeOK
<1>2. task.caller \in Accepted \/ task.caller \notin Records
  BY DEF NoCaller, Records
<1>3. \A r \in Records : r \in Accepted <=> outcome'[r] \notin {"none", "refused"}
  BY <1>1, <1>2 DEF Accepted
<1>4. \A r \in Records : r > calls => outcome'[r] = "none"
  BY <1>1, <1>2 DEF Accepted
<1>5. QED
  BY <1>3, <1>4 DEF Accepted, Settle

\* What every drain step does to callers: it takes up or leaves a drain and
\* accepts nothing.
LEMMA LoopCallers ==
  ASSUME TypeOK, NEW q, NEW task \in Task, task.caller \in Accepted \cup {NoCaller},
         NEW armed, NEW isLate, Loop(q, task, armed, isLate),
         \A r \in Records : r > calls => outcome[r] = "none"
  PROVE  /\ Accepted' = Accepted /\ running' \in {task, Idle}
         /\ \A r \in Records : r > calls => outcome'[r] = "none"
<1>1. CASE CallHandler(q, task) /\ UNCHANGED outcome
  BY <1>1 DEF CallHandler, Accepted
<1>2. CASE Return(q, task, armed)
  BY <1>2, SettleKeepsAccepted DEF Return
<1>3. QED
  BY <1>1, <1>2 DEF Loop

LEMMA BatchFailsCallers ==
  ASSUME TypeOK, CallersKnown, running # Idle, BatchFails
  PROVE  /\ Accepted' = Accepted /\ running' \in {running, Idle}
         /\ \A r \in Records : r > calls => outcome'[r] = "none"
<1>1. /\ running \in Task /\ running.caller \in Accepted \cup {NoCaller}
      /\ \A r \in Records : r > calls => outcome[r] = "none"
  BY DEF TypeOK, CallersKnown
<1>2. CASE Throw(running)
  BY <1>1, <1>2, SettleKeepsAccepted DEF Throw
<1>3. CASE Loop(queue, running, timer, late)
  BY <1>1, <1>3, LoopCallers
<1>4. CASE Return(queue', running, timer)
  BY <1>1, <1>4, SettleKeepsAccepted DEF Return
<1>5. Throw(running) \/ Loop(queue, running, timer, late) \/ Return(queue', running, timer)
  BY DEF BatchFails, Requeue
<1>6. QED
  BY <1>2, <1>3, <1>4, <1>5

\* The four steps of a drain, seen from the callers.
LEMMA DrainCallers ==
  ASSUME TypeOK, CallersKnown,
         StartDrain \/ BatchSucceeds \/ HandlerRejects \/ HandlerTimesOut
  PROVE  /\ Accepted' = Accepted /\ calls' = calls
         /\ \A r \in Records : r > calls => outcome'[r] = "none"
         /\ \/ running' = Idle \/ (running # Idle /\ running' = running)
            \/ chain # <<>> /\ running' = Head(chain)
         /\ chain' = chain \/ (chain # <<>> /\ chain' = Tail(chain))
<1>0. \A r \in Records : r > calls => outcome[r] = "none"
  BY DEF CallersKnown
<1>1. CASE StartDrain
  <2>1. Head(chain) \in Task /\ Head(chain).caller \in Accepted \cup {NoCaller}
    <3>1. chain \in Seq(Task) /\ chain # <<>>
      BY <1>1 DEF StartDrain, TypeOK
    <3>2. Head(chain) = chain[1] /\ 1 \in 1 .. Len(chain) /\ chain[1] \in Task
      BY <3>1
    <3>3. QED
      BY <3>2 DEF CallersKnown
  <2>2. QED
    BY <1>0, <1>1, <2>1, LoopCallers DEF StartDrain
<1>2. CASE BatchSucceeds
  <2>. DEFINE left == IF running.throws THEN queue \ batch ELSE queue
  <2>1. running \in Task /\ running.caller \in Accepted \cup {NoCaller}
    BY <1>2 DEF BatchSucceeds, TypeOK, CallersKnown
  <2>2. Loop(left, running, timer, late) \/ Return(left, running, timer)
    BY <1>2 DEF BatchSucceeds
  <2>3. /\ Accepted' = Accepted /\ running' \in {running, Idle}
        /\ \A r \in Records : r > calls => outcome'[r] = "none"
    <3>1. CASE Loop(left, running, timer, late)
      BY <1>0, <2>1, <3>1, LoopCallers
    <3>2. CASE Return(left, running, timer)
      BY <1>0, <2>1, <3>2, SettleKeepsAccepted DEF Return
    <3>3. QED
      BY <2>2, <3>1, <3>2
  <2>4. QED
    BY <1>2, <2>3 DEF BatchSucceeds
<1>3. CASE HandlerRejects \/ HandlerTimesOut
  BY <1>3, BatchFailsCallers DEF HandlerRejects, HandlerTimesOut
<1>4. QED
  BY <1>1, <1>2, <1>3

\* A new call changes the outcome of its own record only.
LEMMA SinkCallers ==
  ASSUME TypeOK, CallersKnown, Sink
  PROVE  /\ calls + 1 \in Records /\ outcome[calls + 1] = "none"
         /\ \/ Refuse(calls + 1) /\ Accepted' = Accepted
            \/ Admit(calls + 1) /\ Accepted' = Accepted \cup {calls + 1}
         /\ \A r \in Records : r > calls + 1 => outcome'[r] = "none"
<1>1. calls + 1 \in Records /\ calls + 1 > calls
  BY SizesAssumption DEF Sink, TypeOK, Records
<1>2. outcome[calls + 1] = "none"
  BY <1>1 DEF CallersKnown
<1>3. \A r \in Records \ {calls + 1} : outcome'[r] = outcome[r]
  BY DEF Sink, Refuse, Admit, TypeOK
<1>4. CASE Refuse(calls + 1)
  <2>1. outcome'[calls + 1] = "refused"
    BY <1>1, <1>4 DEF Refuse, TypeOK
  <2>2. Accepted' = Accepted
    BY <1>1, <1>2, <1>3, <2>1 DEF Accepted
  <2>3. QED
    BY <1>1, <1>2, <1>3, <1>4, <2>2 DEF CallersKnown, TypeOK, Records
<1>5. CASE Admit(calls + 1)
  <2>1. outcome'[calls + 1] \in {"pending", "returned"}
    BY <1>1, <1>5 DEF Admit, TypeOK
  <2>2. Accepted' = Accepted \cup {calls + 1}
    BY <1>1, <1>3, <2>1 DEF Accepted
  <2>3. QED
    BY <1>1, <1>2, <1>3, <1>5, <2>2 DEF CallersKnown, TypeOK, Records
<1>6. QED
  BY <1>4, <1>5 DEF Sink

\* Appending a drain keeps what holds of every drain of the chain.
LEMMA ChainAppend ==
  ASSUME NEW c \in Seq(Task), NEW t \in Task, NEW i \in 1 .. Len(Append(c, t))
  PROVE  Append(c, t)[i] = t \/ (i \in 1 .. Len(c) /\ Append(c, t)[i] = c[i])
  OBVIOUS

LEMMA ChainTail ==
  ASSUME NEW c \in Seq(Task), c # <<>>, NEW i \in 1 .. Len(Tail(c))
  PROVE  i + 1 \in 1 .. Len(c) /\ Tail(c)[i] = c[i + 1]
  OBVIOUS

\* CallersKnown is an invariant.
LEMMA CallersKnownCorrect == Spec => []CallersKnown
<1>1. Init => CallersKnown
  BY DEF Init, CallersKnown
<1>2. TypeOK /\ CallersKnown /\ [Next]_vars => CallersKnown'
  <2>. SUFFICES ASSUME TypeOK, CallersKnown, [Next]_vars PROVE CallersKnown'
    OBVIOUS
  <2>0. chain \in Seq(Task)
    BY DEF TypeOK
  <2>1. CASE Sink
    <3>1. /\ calls' = calls + 1 /\ running' = running
          /\ \A r \in Records : r > calls' => outcome'[r] = "none"
      BY <2>1, SinkCallers DEF Sink, Refuse, Admit, scheduling
    <3>2. Accepted \subseteq Accepted'
      BY <2>1, SinkCallers
    <3>3. ASSUME NEW i \in 1 .. Len(chain')
          PROVE  chain'[i].caller \in Accepted' \cup {NoCaller}
      <4>1. CASE chain' = chain
        BY <3>2, <3>3, <4>1 DEF CallersKnown
      <4>2. CASE /\ Admit(calls + 1)
                 /\ chain' = Append(chain, [caller |-> calls + 1, force |-> TRUE,
                                            throws |-> MustAccept])
        <5>. DEFINE t == [caller |-> calls + 1, force |-> TRUE, throws |-> MustAccept]
        <5>1. t \in Task /\ t.caller = calls + 1
          BY <2>1, SinkCallers DEF Task, MustAccept
        <5>2. calls + 1 \in Accepted'
          <6>1. outcome'[calls + 1] \in {"pending", "returned"}
            BY <2>1, <4>2, SinkCallers DEF Admit, TypeOK
          <6>2. QED
            BY <2>1, <6>1, SinkCallers DEF Accepted
        <5>3. i \in 1 .. Len(Append(chain, t)) /\ chain' = Append(chain, t)
          BY <3>3, <4>2
        <5>4. chain'[i] = t \/ (i \in 1 .. Len(chain) /\ chain'[i] = chain[i])
          BY <2>0, <5>1, <5>3, ChainAppend
        <5>5. QED
          BY <3>2, <5>1, <5>2, <5>4 DEF CallersKnown
      <4>3. QED
        BY <2>1, <4>1, <4>2 DEF Sink, Refuse, Admit, scheduling
    <3>4. QED
      BY <3>1, <3>2, <3>3 DEF CallersKnown
  <2>2. CASE StartDrain \/ BatchSucceeds \/ HandlerRejects \/ HandlerTimesOut
    <3>1. ASSUME NEW i \in 1 .. Len(chain')
          PROVE  chain'[i].caller \in Accepted' \cup {NoCaller}
      <4>1. CASE chain' = chain
        BY <2>2, <3>1, <4>1, DrainCallers DEF CallersKnown
      <4>2. CASE chain # <<>> /\ chain' = Tail(chain)
        <5>1. i + 1 \in 1 .. Len(chain) /\ chain'[i] = chain[i + 1]
          BY <2>0, <3>1, <4>2, ChainTail
        <5>2. QED
          BY <2>2, <5>1, DrainCallers DEF CallersKnown
      <4>3. QED
        BY <2>2, <4>1, <4>2, DrainCallers
    <3>2. ASSUME running' # Idle
          PROVE  running'.caller \in Accepted' \cup {NoCaller}
      <4>1. CASE running' = running /\ running # Idle
        BY <2>2, <4>1, DrainCallers DEF CallersKnown
      <4>2. CASE chain # <<>> /\ running' = Head(chain)
        <5>1. Head(chain) = chain[1] /\ 1 \in 1 .. Len(chain)
          BY <2>0, <4>2
        <5>2. QED
          BY <2>2, <4>2, <5>1, DrainCallers DEF CallersKnown
      <4>3. QED
        BY <2>2, <3>2, <4>1, <4>2, DrainCallers
    <3>3. QED
      BY <2>2, <3>1, <3>2, DrainCallers DEF CallersKnown
  <2>3. ASSUME NEW t \in Task, t.caller = NoCaller, chain' = Append(chain, t),
               UNCHANGED <<calls, running, outcome>>
        PROVE  CallersKnown'
    <3>1. ASSUME NEW i \in 1 .. Len(chain')
          PROVE  chain'[i].caller \in Accepted \cup {NoCaller}
      <4>1. chain'[i] = t \/ (i \in 1 .. Len(chain) /\ chain'[i] = chain[i])
        BY <2>0, <2>3, <3>1, ChainAppend
      <4>2. QED
        BY <2>3, <4>1 DEF CallersKnown
    <3>2. QED
      BY <2>3, <3>1 DEF CallersKnown, Accepted
  <2>4. ASSUME NEW force \in BOOLEAN, Flush(force) \/ Close(force)
        PROVE  CallersKnown'
    <3>1. \A th \in BOOLEAN : [caller |-> NoCaller, force |-> force, throws |-> th] \in Task
      BY DEF Task
    <3>2. MustAccept \in BOOLEAN
      BY DEF MustAccept
    <3>3. UNCHANGED <<calls, running, outcome>>
      BY <2>4 DEF Flush, Close
    <3>4. \E th \in BOOLEAN :
            chain' = Append(chain, [caller |-> NoCaller, force |-> force, throws |-> th])
      BY <2>4, <3>2 DEF Flush, Close
    <3>5. QED
      BY <2>3, <3>1, <3>3, <3>4
  <2>5. CASE TimerFires
    <3>1. [caller |-> NoCaller, force |-> FALSE, throws |-> MustAccept] \in Task
      BY DEF Task, MustAccept
    <3>2. QED
      BY <2>3, <2>5, <3>1 DEF TimerFires
  <2>6. ASSUME \/ DeadlinePasses
               \/ \E r \in Records : BackoffElapses(r) \/ Arrive(r) \/ ArriveLate(r)
               \/ UNCHANGED vars
        PROVE  CallersKnown'
    <3>1. UNCHANGED <<calls, chain, running, outcome>>
      BY <2>6 DEF DeadlinePasses, BackoffElapses, Arrive, ArriveLate, vars, scheduling
    <3>2. QED
      BY <3>1 DEF CallersKnown, Accepted
  <2>7. QED
    BY <2>1, <2>2, <2>4, <2>5, <2>6 DEF Next
<1>3. QED
  BY <1>1, <1>2, TypeCorrect, PTL DEF Spec

-----------------------------------------------------------------------------
(* The audit sink: nothing accepted is dropped while it is open            *)

\* While a must-accept sink is open every drain throws on failure, so the batch
\* it awaits is still queued, and the queue and the delivered records are all
\* the records that were accepted.
AuditInv ==
  ~ closed =>
    /\ \A i \in 1 .. Len(chain) : chain[i].throws
    /\ running # Idle => running.throws /\ batch \subseteq queue
    /\ Accepted = queue \cup delivered

\* Without room to make there is nothing to push out.
LEMMA OldestNone ==
  ASSUME NEW S \in SUBSET Records, NEW D \in Oldest(0, S)
  PROVE  D = {}
<1>1. D \subseteq S /\ Cardinality(D) = 0
  BY OldestInside, OldestSize
<1>2. IsFiniteSet(D)
  BY <1>1, RecordSets
<1>3. QED
  BY <1>1, <1>2, FS_EmptySet

\* A drain that throws on failure keeps in the queue what the loop test gives
\* it, and the batch it starts is part of it.
LEMMA LoopKeeps ==
  ASSUME NEW q \in SUBSET Records, NEW task \in Task, task.throws,
         NEW armed, NEW isLate, Loop(q, task, armed, isLate)
  PROVE  queue' = q /\ (running' = Idle \/ (running' = task /\ batch' \subseteq q))
<1>1. CASE CallHandler(q, task)
  <2>1. PICK b \in Oldest(Smaller(MaxBatchSize, Cardinality(Due(q, task.force))),
                          Due(q, task.force)) :
          batch' = b /\ queue' = (q \ b) \cup Kept(task, b)
    BY <1>1 DEF CallHandler
  <2>2. b \subseteq q
    BY OldestInside DEF Due
  <2>3. QED
    BY <1>1, <2>1, <2>2 DEF Kept, CallHandler
<1>2. CASE Leave(q) /\ Return(q, task, armed)
  BY <1>2 DEF Leave, Return, Settle
<1>3. QED
  BY <1>1, <1>2 DEF Loop

\* An open must-accept sink keeps every accepted record until it is delivered,
\* for every queue, batch and attempt limit: no failure, abandoned call or
\* interleaving of callers makes it drop one.
THEOREM AuditKeptCorrect ==
  ASSUME MustAccept, ~ DropOldest
  PROVE  Spec => []AuditKept
<1>1. Init => AuditInv
  BY DEF Init, AuditInv, Accepted
<1>2. TypeOK /\ CallersKnown /\ AuditInv /\ [Next]_vars => AuditInv'
  <2>. SUFFICES ASSUME TypeOK, CallersKnown, AuditInv, [Next]_vars, ~ closed'
                PROVE  /\ \A i \in 1 .. Len(chain') : chain'[i].throws
                       /\ running' # Idle => running'.throws /\ batch' \subseteq queue'
                       /\ Accepted' = queue' \cup delivered'
    BY DEF AuditInv
  <2>0. chain \in Seq(Task) /\ queue \in SUBSET Records /\ running \in Task \cup {Idle}
    BY DEF TypeOK
  <2>1. ~ closed
    BY DEF Next, Sink, Refuse, Admit, Flush, Close, TimerFires, DeadlinePasses,
           BackoffElapses, StartDrain, BatchSucceeds, HandlerRejects, HandlerTimesOut,
           Arrive, ArriveLate, vars, scheduling
  <2>2. /\ \A i \in 1 .. Len(chain) : chain[i].throws
        /\ running # Idle => running.throws /\ batch \subseteq queue
        /\ Accepted = queue \cup delivered
    BY <2>1 DEF AuditInv
  <2>3. ASSUME NEW t \in Task, t.throws, chain' = Append(chain, t)
        PROVE  \A i \in 1 .. Len(chain') : chain'[i].throws
    BY <2>0, <2>2, <2>3, ChainAppend
  <2>4. CASE Sink
    <3>1. calls + 1 \in Records
      BY <2>4, SinkCallers
    <3>2. CASE Refuse(calls + 1) /\ Accepted' = Accepted
      BY <2>2, <2>4, <3>2 DEF Sink, Refuse, storage, scheduling, ledger, handler
    <3>3. CASE Admit(calls + 1) /\ Accepted' = Accepted \cup {calls + 1}
      <4>1. PICK D \in Oldest(Excess(1), queue) : queue' = (queue \ D) \cup {calls + 1}
        BY <3>3 DEF Admit, Enqueue
      <4>2. Excess(1) = 0
        <5>1. Cardinality(queue) \in Nat
          BY <2>0, RecordSets
        <5>2. ~ (Excess(1) > 0)
          BY <3>3 DEF Admit, Shut
        <5>3. QED
          BY <5>1, <5>2, SizesAssumption DEF Excess
      <4>3. queue' = queue \cup {calls + 1}
        BY <2>0, <4>1, <4>2, OldestNone
      <4>4. \A i \in 1 .. Len(chain') : chain'[i].throws
        <5>. DEFINE t == [caller |-> calls + 1, force |-> TRUE, throws |-> MustAccept]
        <5>1. t \in Task /\ t.throws
          BY <3>1 DEF Task, MustAccept
        <5>2. chain' = Append(chain, t)
          BY <3>3 DEF Admit, BestEffort, MustAccept
        <5>3. QED
          BY <2>3, <5>1, <5>2
      <4>5. UNCHANGED <<running, batch, delivered>>
        BY <2>4, <3>3 DEF Sink, Admit, handler
      <4>6. QED
        BY <2>2, <3>3, <4>3, <4>4, <4>5
    <3>4. QED
      BY <2>4, <3>2, <3>3, SinkCallers
  <2>5. CASE StartDrain
    <3>1. chain # <<>> /\ Head(chain) = chain[1] /\ 1 \in 1 .. Len(chain)
      BY <2>0, <2>5 DEF StartDrain
    <3>2. Head(chain) \in Task /\ Head(chain).throws
      BY <2>0, <2>2, <3>1
    <3>3. queue' = queue /\ (running' = Idle \/ (running' = Head(chain) /\ batch' \subseteq queue))
      BY <2>0, <2>5, <3>2, LoopKeeps DEF StartDrain
    <3>4. \A i \in 1 .. Len(chain') : chain'[i].throws
      BY <2>0, <2>2, <2>5, <3>1, ChainTail DEF StartDrain
    <3>5. Accepted' = Accepted /\ delivered' = delivered
      BY <2>5, DrainCallers DEF StartDrain, ledger
    <3>6. QED
      BY <2>2, <3>2, <3>3, <3>4, <3>5
  <2>6. CASE BatchSucceeds
    <3>. DEFINE left == queue \ batch
    <3>1. running \in Task /\ running.throws /\ batch \subseteq queue /\ running # Idle
      BY <2>0, <2>2, <2>6 DEF BatchSucceeds
    <3>2. Loop(left, running, timer, late) \/ (Leave(left) /\ Return(left, running, timer))
      BY <2>6, <3>1 DEF BatchSucceeds
    <3>3. queue' = left /\ (running' = Idle \/ (running' = running /\ batch' \subseteq left))
      <4>1. CASE Loop(left, running, timer, late)
        BY <2>0, <3>1, <4>1, LoopKeeps
      <4>2. CASE Leave(left) /\ Return(left, running, timer)
        BY <4>2 DEF Leave, Return, Settle
      <4>3. QED
        BY <3>2, <4>1, <4>2
    <3>4. delivered' = delivered \cup batch /\ Accepted' = Accepted /\ chain' = chain
      BY <2>6, DrainCallers DEF BatchSucceeds
    <3>5. QED
      BY <2>2, <3>1, <3>3, <3>4
  <2>7. CASE HandlerRejects \/ HandlerTimesOut
    <3>1. running # Idle /\ running.throws
      BY <2>2, <2>7 DEF HandlerRejects, HandlerTimesOut
    <3>2. Leave(queue) /\ Throw(running)
      BY <2>7, <3>1 DEF HandlerRejects, HandlerTimesOut, BatchFails
    <3>3. queue' = queue /\ running' = Idle
      BY <3>2 DEF Leave, Throw, Settle
    <3>4. delivered' = delivered /\ chain' = chain /\ Accepted' = Accepted
      BY <2>7, DrainCallers DEF HandlerRejects, HandlerTimesOut
    <3>5. QED
      BY <2>2, <3>3, <3>4
  <2>8. ASSUME NEW force \in BOOLEAN, Flush(force)
        PROVE  /\ \A i \in 1 .. Len(chain') : chain'[i].throws
               /\ running' # Idle => running'.throws /\ batch' \subseteq queue'
               /\ Accepted' = queue' \cup delivered'
    <3>. DEFINE t == [caller |-> NoCaller, force |-> force, throws |-> MustAccept]
    <3>1. t \in Task /\ t.throws /\ chain' = Append(chain, t)
      BY <2>8 DEF Flush, Task, MustAccept
    <3>2. UNCHANGED <<running, batch, queue, outcome, delivered>>
      BY <2>8 DEF Flush, storage, handler, ledger
    <3>3. QED
      BY <2>2, <2>3, <3>1, <3>2 DEF Accepted
  <2>9. ASSUME NEW force \in BOOLEAN, Close(force)
        PROVE  FALSE
    BY <2>9 DEF Close
  <2>10. CASE TimerFires
    <3>. DEFINE t == [caller |-> NoCaller, force |-> FALSE, throws |-> MustAccept]
    <3>1. t \in Task /\ t.throws /\ chain' = Append(chain, t)
      BY <2>10 DEF TimerFires, Task, MustAccept
    <3>2. UNCHANGED <<running, batch, queue, outcome, delivered>>
      BY <2>10 DEF TimerFires, storage, handler, ledger
    <3>3. QED
      BY <2>2, <2>3, <3>1, <3>2 DEF Accepted
  <2>11. CASE \/ DeadlinePasses
              \/ \E r \in Records : BackoffElapses(r) \/ Arrive(r) \/ ArriveLate(r)
              \/ UNCHANGED vars
    <3>1. UNCHANGED <<chain, running, batch, queue, outcome, delivered>>
      BY <2>11 DEF DeadlinePasses, BackoffElapses, Arrive, ArriveLate, vars, storage,
                   scheduling, handler, ledger
    <3>2. QED
      BY <2>2, <3>1 DEF Accepted
  <2>12. QED
    BY <2>4, <2>5, <2>6, <2>7, <2>8, <2>9, <2>10, <2>11 DEF Next
<1>3. AuditInv => AuditKept
  BY DEF AuditInv, AuditKept
<1>4. QED
  BY <1>1, <1>2, <1>3, TypeCorrect, CallersKnownCorrect, PTL DEF Spec

-----------------------------------------------------------------------------
(* The telemetry sink: no record is lost or counted twice                  *)

\* In a best-effort sink no drain throws, so its batch has left the queue.
TelemetryInv ==
  /\ \A i \in 1 .. Len(chain) : ~ chain[i].throws
  /\ running # Idle => ~ running.throws
  /\ running = Idle => batch = {}
  /\ queue \cap batch = {}
  /\ Accounted

LEMMA IdleIsNoTask == Idle \notin Task
<1>1. ASSUME NEW t \in Task PROVE t # Idle
  <2>1. DOMAIN t = {"caller", "force", "throws"}
    BY DEF Task
  <2>2. DOMAIN Idle = {"idle"}
    BY DEF Idle
  <2>3. QED
    BY <2>1, <2>2
<1>2. QED
  BY <1>1

\* A drain that does not throw splits what the loop test gives it into its next
\* batch and the queue.
LEMMA LoopSplits ==
  ASSUME NEW q \in SUBSET Records, NEW task \in Task, ~ task.throws,
         NEW armed, NEW isLate, Loop(q, task, armed, isLate)
  PROVE  /\ queue' \cup batch' = q /\ queue' \cap batch' = {}
         /\ running' = Idle => batch' = {}
<1>1. CASE CallHandler(q, task)
  <2>1. PICK b \in Oldest(Smaller(MaxBatchSize, Cardinality(Due(q, task.force))),
                          Due(q, task.force)) :
          batch' = b /\ queue' = (q \ b) \cup Kept(task, b)
    BY <1>1 DEF CallHandler
  <2>2. b \subseteq q
    BY OldestInside DEF Due
  <2>3. QED
    BY <1>1, <2>1, <2>2, IdleIsNoTask DEF Kept, CallHandler
<1>2. CASE Leave(q) /\ Return(q, task, armed)
  BY <1>2 DEF Leave, Return, Settle
<1>3. QED
  BY <1>1, <1>2 DEF Loop

\* A sink that drops the oldest entries has room for every retry.
LEMMA RequeueSplits ==
  ASSUME TypeOK, DropOldest, Requeue, queue \cap batch = {}
  PROVE  /\ batch' = {} /\ queue' \subseteq queue \cup batch
         /\ Return(queue', running, timer)
         /\ \E D \in SUBSET queue :
              /\ evicted' = evicted \cup D
              /\ queue' = (queue \ D) \cup Retryable
              /\ exhausted' = exhausted \cup (batch \ Retryable)
<1>. DEFINE n == Cardinality(Retryable)
<1>1. PICK D \in Oldest(Excess(n), queue), back \in Oldest(n - 0, Retryable) :
        /\ queue' = (queue \ D) \cup back
        /\ evicted' = evicted \cup D
        /\ exhausted' = exhausted \cup
             {r \in batch \ Retryable : \A s \in Retryable \ back : r \in ahead[s]}
        /\ IF back = Retryable THEN Return(queue', running, timer) ELSE Throw(running)
  BY DEF Requeue
<1>2. Retryable \in SUBSET Records /\ Retryable \subseteq batch
  BY DEF Retryable, TypeOK
<1>3. back = Retryable
  <2>1. back \in SUBSET Retryable
    BY OldestInside
  <2>2. n \in Nat /\ IsFiniteSet(Retryable)
    BY <1>2, RecordSets
  <2>3. Cardinality(back) = n
    BY <2>2, OldestSize
  <2>4. QED
    BY <2>1, <2>2, <2>3, FS_Subset
<1>4. D \in SUBSET queue
  BY OldestInside
<1>5. batch' = {}
  BY <1>1 DEF Return, Throw, Settle
<1>6. exhausted' = exhausted \cup (batch \ Retryable) /\ Return(queue', running, timer)
  BY <1>1, <1>3
<1>7. QED
  BY <1>1, <1>2, <1>3, <1>4, <1>5, <1>6

LEMMA TelemetryInvariant ==
  ASSUME BestEffort, DropOldest
  PROVE  Spec => []TelemetryInv
<1>0. ~ MustAccept
  BY DEF BestEffort, MustAccept
<1>1. Init => TelemetryInv
  BY DEF Init, TelemetryInv, Accounted, Accepted
<1>2. TypeOK /\ CallersKnown /\ TelemetryInv /\ [Next]_vars => TelemetryInv'
  <2>. SUFFICES ASSUME TypeOK, CallersKnown, TelemetryInv, [Next]_vars
                PROVE  TelemetryInv'
    OBVIOUS
  <2>0. /\ chain \in Seq(Task) /\ queue \in SUBSET Records /\ batch \in SUBSET Records
        /\ running \in Task \cup {Idle}
    BY DEF TypeOK
  <2>1. ASSUME NEW t \in Task, ~ t.throws, chain' = Append(chain, t)
        PROVE  \A i \in 1 .. Len(chain') : ~ chain'[i].throws
    BY <2>0, <2>1, ChainAppend DEF TelemetryInv
  <2>2. CASE Sink
    <3>1. calls + 1 \in Records /\ calls + 1 \notin Accepted
      BY <2>2, SinkCallers DEF Accepted
    <3>2. CASE Refuse(calls + 1) /\ Accepted' = Accepted
      BY <2>2, <3>2 DEF Sink, Refuse, storage, scheduling, ledger, handler, TelemetryInv, Accounted
    <3>3. CASE Admit(calls + 1) /\ Accepted' = Accepted \cup {calls + 1}
      <4>1. PICK D \in Oldest(Excess(1), queue) :
              queue' = (queue \ D) \cup {calls + 1} /\ evicted' = evicted \cup D
        BY <3>3 DEF Admit, Enqueue
      <4>2. D \subseteq queue
        BY OldestInside
      <4>3. UNCHANGED <<chain, running, batch, delivered, exhausted>>
        BY <2>2, <3>3 DEF Sink, Admit, handler
      <4>4. QED
        BY <3>1, <3>3, <4>1, <4>2, <4>3 DEF TelemetryInv, Accounted
    <3>4. QED
      BY <2>2, <3>2, <3>3, SinkCallers
  <2>3. CASE StartDrain
    <3>1. chain # <<>> /\ Head(chain) = chain[1] /\ 1 \in 1 .. Len(chain) /\ running = Idle
      BY <2>0, <2>3 DEF StartDrain
    <3>2. Head(chain) \in Task /\ ~ Head(chain).throws
      BY <2>0, <3>1 DEF TelemetryInv
    <3>3. /\ queue' \cup batch' = queue /\ queue' \cap batch' = {}
          /\ running' = Idle => batch' = {}
      BY <2>0, <2>3, <3>2, LoopSplits DEF StartDrain
    <3>4. \A i \in 1 .. Len(chain') : ~ chain'[i].throws
      BY <2>0, <2>3, <3>1, ChainTail DEF StartDrain, TelemetryInv
    <3>5. Accepted' = Accepted /\ (running' # Idle => ~ running'.throws)
      BY <2>3, <3>1, <3>2, DrainCallers
    <3>6. UNCHANGED <<delivered, evicted, exhausted>>
      BY <2>3 DEF StartDrain, ledger
    <3>7. QED
      BY <3>1, <3>3, <3>4, <3>5, <3>6 DEF TelemetryInv, Accounted
  <2>4. CASE BatchSucceeds
    <3>1. running \in Task /\ running # Idle /\ ~ running.throws
      BY <2>0, <2>4 DEF BatchSucceeds, TelemetryInv
    <3>2. Loop(queue, running, timer, late) \/ (Leave(queue) /\ Return(queue, running, timer))
      BY <2>4, <3>1 DEF BatchSucceeds
    <3>3. /\ queue' \cup batch' = queue /\ queue' \cap batch' = {}
          /\ running' = Idle => batch' = {}
      <4>1. CASE Loop(queue, running, timer, late)
        BY <2>0, <3>1, <4>1, LoopSplits
      <4>2. CASE Leave(queue) /\ Return(queue, running, timer)
        BY <4>2 DEF Leave, Return, Settle
      <4>3. QED
        BY <3>2, <4>1, <4>2
    <3>4. Accepted' = Accepted /\ (running' # Idle => ~ running'.throws)
      BY <2>4, <3>1, DrainCallers DEF BatchSucceeds, TelemetryInv
    <3>5. delivered' = delivered \cup batch /\ UNCHANGED <<chain, evicted, exhausted>>
      BY <2>4 DEF BatchSucceeds
    <3>6. QED
      BY <3>3, <3>4, <3>5 DEF TelemetryInv, Accounted
  <2>5. CASE HandlerRejects \/ HandlerTimesOut
    <3>1. running \in Task /\ running # Idle /\ ~ running.throws /\ BatchFails
      BY <2>0, <2>5 DEF HandlerRejects, HandlerTimesOut, TelemetryInv
    <3>2. Accepted' = Accepted /\ running' \in {running, Idle}
      BY <3>1, BatchFailsCallers
    <3>3. UNCHANGED <<chain, delivered>>
      BY <2>5 DEF HandlerRejects, HandlerTimesOut
    <3>4. CASE /\ exhausted' = exhausted \cup batch /\ evicted' = evicted
               /\ Loop(queue, running, timer, late)
      <4>1. /\ queue' \cup batch' = queue /\ queue' \cap batch' = {}
            /\ running' = Idle => batch' = {}
        BY <2>0, <3>1, <3>4, LoopSplits
      <4>2. QED
        BY <3>1, <3>2, <3>3, <3>4, <4>1 DEF TelemetryInv, Accounted
    <3>5. CASE Requeue
      <4>1. queue \cap batch = {} /\ Retryable \subseteq batch
        BY DEF TelemetryInv, Retryable
      <4>2. PICK D \in SUBSET queue :
              /\ evicted' = evicted \cup D
              /\ queue' = (queue \ D) \cup Retryable
              /\ exhausted' = exhausted \cup (batch \ Retryable)
        BY <3>5, <4>1, RequeueSplits
      <4>3. batch' = {}
        BY <3>5, <4>1, RequeueSplits
      <4>4. Accounted'
        BY <3>2, <3>3, <4>1, <4>2, <4>3 DEF TelemetryInv, Accounted
      <4>5. QED
        BY <3>1, <3>2, <3>3, <4>3, <4>4 DEF TelemetryInv
    <3>6. QED
      BY <3>1, <3>4, <3>5 DEF BatchFails
  <2>6. ASSUME NEW force \in BOOLEAN, Flush(force) \/ Close(force)
        PROVE  TelemetryInv'
    <3>. DEFINE t == [caller |-> NoCaller, force |-> force, throws |-> FALSE]
    <3>1. t \in Task /\ ~ t.throws
      BY DEF Task
    <3>2. chain' = Append(chain, t)
      BY <1>0, <2>6 DEF Flush, Close, MustAccept
    <3>3. UNCHANGED <<running, batch, queue, outcome, delivered, evicted, exhausted>>
      BY <2>6 DEF Flush, Close, storage, handler, ledger
    <3>4. QED
      BY <2>1, <3>1, <3>2, <3>3 DEF TelemetryInv, Accounted, Accepted
  <2>7. CASE TimerFires
    <3>. DEFINE t == [caller |-> NoCaller, force |-> FALSE, throws |-> FALSE]
    <3>1. t \in Task /\ ~ t.throws
      BY DEF Task
    <3>2. chain' = Append(chain, t)
      BY <1>0, <2>7 DEF TimerFires, MustAccept
    <3>3. UNCHANGED <<running, batch, queue, outcome, delivered, evicted, exhausted>>
      BY <2>7 DEF TimerFires, storage, handler, ledger
    <3>4. QED
      BY <2>1, <3>1, <3>2, <3>3 DEF TelemetryInv, Accounted, Accepted
  <2>8. CASE \/ DeadlinePasses
             \/ \E r \in Records : BackoffElapses(r) \/ Arrive(r) \/ ArriveLate(r)
             \/ UNCHANGED vars
    <3>1. UNCHANGED <<chain, running, batch, queue, outcome, delivered, evicted, exhausted>>
      BY <2>8 DEF DeadlinePasses, BackoffElapses, Arrive, ArriveLate, vars, storage,
                  scheduling, handler, ledger
    <3>2. QED
      BY <3>1 DEF TelemetryInv, Accounted, Accepted
  <2>9. QED
    BY <2>2, <2>3, <2>4, <2>5, <2>6, <2>7, <2>8 DEF Next
<1>3. QED
  BY <1>1, <1>2, TypeCorrect, CallersKnownCorrect, PTL DEF Spec

\* Telemetry never loses a record silently: for all limits, each accepted record
\* is queued, in the awaited batch, or in exactly one counter of stats().
THEOREM AccountedCorrect ==
  ASSUME BestEffort, DropOldest
  PROVE  Spec => []Accounted
<1>1. TelemetryInv => Accounted
  BY DEF TelemetryInv
<1>2. QED
  BY <1>1, TelemetryInvariant, PTL

-----------------------------------------------------------------------------
(* The telemetry sink: it never gets stuck                                 *)

\* Where the loop test leaves the queue to nobody, the drain that ends arms the
\* timer or the sink is closed.
LEMMA LoopCares ==
  ASSUME BestEffort, NEW q \in SUBSET Records, NEW task \in Task, NEW armed, NEW isLate,
         Loop(q, task, armed, isLate), closed' = closed
  PROVE  NeverStuck'
<1>1. CASE CallHandler(q, task)
  BY <1>1, IdleIsNoTask DEF CallHandler, NeverStuck
<1>2. CASE Leave(q) /\ Return(q, task, armed)
  BY <1>2 DEF Leave, Return, NeverStuck
<1>3. QED
  BY <1>1, <1>2 DEF Loop

\* An open telemetry sink always cares for what it has queued: for all limits, a
\* timer is armed or a drain runs or waits while there are entries.
THEOREM NeverStuckCorrect ==
  ASSUME BestEffort, DropOldest
  PROVE  Spec => []NeverStuck
<1>1. Init => NeverStuck
  BY DEF Init, NeverStuck
<1>2. TypeOK /\ TelemetryInv /\ NeverStuck /\ [Next]_vars => NeverStuck'
  <2>. SUFFICES ASSUME TypeOK, TelemetryInv, NeverStuck, [Next]_vars
                PROVE  NeverStuck'
    OBVIOUS
  <2>0. /\ chain \in Seq(Task) /\ queue \in SUBSET Records
        /\ running \in Task \cup {Idle}
    BY DEF TypeOK
  <2>1. CASE Sink
    <3>1. CASE Refuse(calls + 1)
      BY <2>1, <3>1 DEF Sink, Refuse, storage, scheduling, NeverStuck
    <3>2. CASE Admit(calls + 1)
      BY <3>2 DEF Admit, NeverStuck
    <3>3. QED
      BY <2>1, <3>1, <3>2 DEF Sink
  <2>2. CASE StartDrain
    <3>1. Head(chain) \in Task
      BY <2>0, <2>2 DEF StartDrain
    <3>2. QED
      BY <2>0, <2>2, <3>1, LoopCares DEF StartDrain
  <2>3. CASE BatchSucceeds
    <3>1. running \in Task /\ ~ running.throws
      BY <2>0, <2>3 DEF BatchSucceeds, TelemetryInv
    <3>2. CASE Loop(queue, running, timer, late)
      BY <2>0, <2>3, <3>1, <3>2, LoopCares DEF BatchSucceeds
    <3>3. CASE Leave(queue) /\ Return(queue, running, timer)
      BY <2>3, <3>3 DEF BatchSucceeds, Leave, Return, NeverStuck
    <3>4. QED
      BY <2>3, <3>1, <3>2, <3>3 DEF BatchSucceeds
  <2>4. CASE HandlerRejects \/ HandlerTimesOut
    <3>1. running \in Task /\ ~ running.throws /\ BatchFails /\ closed' = closed
      BY <2>0, <2>4 DEF HandlerRejects, HandlerTimesOut, TelemetryInv
    <3>2. CASE Loop(queue, running, timer, late)
      BY <2>0, <3>1, <3>2, LoopCares
    <3>3. CASE Requeue
      <4>1. Return(queue', running, timer)
        BY <3>3, RequeueSplits DEF TelemetryInv
      <4>2. QED
        BY <3>1, <4>1 DEF Return, NeverStuck
    <3>4. QED
      BY <3>1, <3>2, <3>3 DEF BatchFails
  <2>5. ASSUME NEW force \in BOOLEAN, Flush(force) \/ Close(force)
        PROVE  NeverStuck'
    <3>1. chain' # <<>>
      BY <2>0, <2>5 DEF Flush, Close
    <3>2. QED
      BY <3>1 DEF NeverStuck
  <2>6. CASE TimerFires
    <3>1. chain' # <<>>
      BY <2>0, <2>6 DEF TimerFires
    <3>2. QED
      BY <3>1 DEF NeverStuck
  <2>7. CASE \/ DeadlinePasses
             \/ \E r \in Records : BackoffElapses(r) \/ Arrive(r) \/ ArriveLate(r)
             \/ UNCHANGED vars
    <3>1. UNCHANGED <<closed, timer, chain, running, queue>>
      BY <2>7 DEF DeadlinePasses, BackoffElapses, Arrive, ArriveLate, vars, storage,
                  scheduling, handler, ledger
    <3>2. QED
      BY <3>1 DEF NeverStuck
  <2>8. QED
    BY <2>1, <2>2, <2>3, <2>4, <2>5, <2>6, <2>7 DEF Next
<1>3. QED
  BY <1>1, <1>2, TypeCorrect, TelemetryInvariant, PTL DEF Spec

-----------------------------------------------------------------------------
(* Copies                                                                  *)

\* A record that waits, queued or in a call that has not put it downstream yet,
\* has fewer copies than the attempt it waits for would make.
CopiesInv ==
  \A r \in Records :
    /\ received[r] + stray[r] <= attempts[r] + 1
    /\ r \in queue \cup (batch \ reached) => received[r] + stray[r] <= attempts[r]
    /\ r > calls => received[r] + stray[r] = 0

\* A drain that goes on, or ends, leaves at most one call of each record behind.
LEMMA DrainCopies ==
  ASSUME TypeOK, TypeOK', CopiesInv, calls' = calls, received' = received,
         batch \cap {r \in Records : r > calls} = {},
         \A r \in Records :
           \/ stray'[r] = stray[r]
           \/ r \in batch \ reached /\ stray'[r] = stray[r] + 1,
         \A r \in Records : attempts'[r] >= attempts[r],
         \A r \in queue' \cup batch' :
           \/ r \in queue /\ r \notin batch
           \/ r \in batch /\ attempts'[r] = attempts[r] + 1
  PROVE  CopiesInv'
<1> SUFFICES ASSUME NEW r \in Records
             PROVE  /\ received'[r] + stray'[r] <= attempts'[r] + 1
                    /\ r \in queue' \cup batch' => received'[r] + stray'[r] <= attempts'[r]
                    /\ r > calls => received'[r] + stray'[r] = 0
  BY DEF CopiesInv
<1>1. /\ received[r] \in Nat /\ stray[r] \in Nat /\ stray'[r] \in Nat
      /\ attempts[r] \in Nat /\ attempts'[r] \in Nat
  BY SizesAssumption DEF TypeOK
<1>2. /\ received[r] + stray[r] <= attempts[r] + 1
      /\ r \in queue \cup (batch \ reached) => received[r] + stray[r] <= attempts[r]
      /\ r > calls => received[r] + stray[r] = 0
  BY DEF CopiesInv
<1>3. received'[r] + stray'[r] <= attempts[r] + 1
  BY <1>1, <1>2
<1>4. r \in queue' \cup batch' => received'[r] + stray'[r] <= attempts'[r]
  BY <1>1, <1>2, <1>3
<1>5. r > calls => stray'[r] = stray[r]
  OBVIOUS
<1> QED BY <1>1, <1>2, <1>3, <1>4, <1>5

LEMMA CopiesStep ==
  ASSUME BestEffort, DropOldest
  PROVE  TypeOK /\ TypeOK' /\ CallersKnown /\ TelemetryInv /\ CopiesInv /\ [Next]_vars => CopiesInv'
<1> SUFFICES ASSUME TypeOK, TypeOK', CallersKnown, TelemetryInv, CopiesInv, [Next]_vars
             PROVE  CopiesInv'
  OBVIOUS
<1>0. /\ queue \in SUBSET Records /\ batch \in SUBSET Records /\ reached \subseteq batch
      /\ running \in Task \cup {Idle} /\ chain \in Seq(Task) /\ queue \cap batch = {}
      /\ \A r \in Records : received[r] \in Nat /\ stray[r] \in Nat /\ attempts[r] \in Nat
      /\ received \in [Records -> Nat] /\ stray \in [Records -> Nat]
  BY SizesAssumption DEF TypeOK, TelemetryInv
<1>1. batch \cap {r \in Records : r > calls} = {}
  BY DEF TelemetryInv, Accounted, Accepted, CallersKnown
<1>2. CASE Sink
  <2>1. calls' = calls + 1 /\ UNCHANGED handler /\ UNCHANGED attempts
    BY <1>2 DEF Sink, Refuse, Admit, Enqueue, storage
  <2>2. queue' \subseteq queue \cup {calls + 1}
    <3>1. CASE Refuse(calls + 1)
      BY <3>1 DEF Refuse, storage
    <3>2. CASE Admit(calls + 1)
      BY <3>2 DEF Admit, Enqueue
    <3> QED BY <1>2, <3>1, <3>2 DEF Sink
  <2>3. calls \in Nat
    BY SizesAssumption DEF TypeOK
  <2>4. UNCHANGED <<batch, reached, received, stray>>
    BY <2>1 DEF handler
  <2> SUFFICES ASSUME NEW r \in Records
               PROVE  /\ received'[r] + stray'[r] <= attempts'[r] + 1
                      /\ r \in queue' \cup (batch' \ reached') =>
                           received'[r] + stray'[r] <= attempts'[r]
                      /\ r > calls' => received'[r] + stray'[r] = 0
    BY DEF CopiesInv
  <2>5. /\ received[r] + stray[r] <= attempts[r] + 1
        /\ r \in queue \cup (batch \ reached) => received[r] + stray[r] <= attempts[r]
        /\ r > calls => received[r] + stray[r] = 0
    BY DEF CopiesInv
  <2>6. r \in Nat /\ attempts[r] \in Nat
    BY <1>0 DEF Records
  <2> QED BY <2>1, <2>2, <2>3, <2>4, <2>5, <2>6
<1>3. CASE StartDrain
  <2>1. chain # <<>> /\ Head(chain) = chain[1] /\ 1 \in 1 .. Len(chain)
    BY <1>0, <1>3 DEF StartDrain
  <2>2. Head(chain) \in Task /\ ~ Head(chain).throws
    BY <1>0, <2>1 DEF TelemetryInv
  <2>3. queue' \cup batch' = queue
    BY <1>0, <1>3, <2>2, LoopSplits DEF StartDrain
  <2>4. UNCHANGED <<calls, attempts, stray, received>>
    BY <1>3 DEF StartDrain
  <2> QED BY <1>0, <1>1, <2>3, <2>4, DrainCopies
<1>4. CASE BatchSucceeds
  <2>1. running \in Task /\ ~ running.throws
    BY <1>0, <1>4 DEF BatchSucceeds, TelemetryInv
  <2>2. queue' \cup batch' = queue
    <3>1. CASE Loop(queue, running, timer, late)
      BY <1>0, <2>1, <3>1, LoopSplits
    <3>2. CASE Leave(queue) /\ Return(queue, running, timer)
      BY <3>2 DEF Leave, Return, Settle
    <3> QED BY <1>4, <2>1, <3>1, <3>2 DEF BatchSucceeds
  <2>3. UNCHANGED <<calls, attempts, stray, received>>
    BY <1>4 DEF BatchSucceeds
  <2> QED BY <1>0, <1>1, <2>2, <2>3, DrainCopies
<1>5. CASE HandlerRejects \/ HandlerTimesOut
  <2>1. running \in Task /\ ~ running.throws /\ BatchFails /\ UNCHANGED <<calls, received>>
    BY <1>0, <1>5 DEF HandlerRejects, HandlerTimesOut, TelemetryInv
  <2>2. \A r \in Records :
          \/ stray'[r] = stray[r]
          \/ r \in batch \ reached /\ stray'[r] = stray[r] + 1
    BY <1>5 DEF HandlerRejects, HandlerTimesOut
  <2>3. CASE Loop(queue, running, timer, late) /\ UNCHANGED attempts
    <3>1. queue' \cup batch' = queue
      BY <1>0, <2>1, <2>3, LoopSplits
    <3> QED BY <1>0, <1>1, <2>1, <2>2, <2>3, <3>1, DrainCopies
  <2>4. CASE Requeue
    <3>1. batch' = {}
      BY <1>0, <2>4, RequeueSplits
    <3>. DEFINE excess == Excess(Cardinality(Retryable))
                out    == IF DropOldest THEN excess ELSE 0
                lost   == IF DropOldest THEN 0 ELSE excess
    <3>2. PICK D \in Oldest(out, queue),
               back \in Oldest(Cardinality(Retryable) - lost, Retryable) :
            /\ queue' = (queue \ D) \cup back
            /\ attempts' = [r \in Records |-> IF r \in back THEN attempts[r] + 1 ELSE attempts[r]]
      BY <2>4 DEF Requeue
    <3>3. back \subseteq batch
      BY OldestInside DEF Retryable
    <3>4. \A r \in Records : attempts'[r] >= attempts[r]
      BY <1>0, <3>2
    <3>5. \A r \in queue' \cup batch' :
            \/ r \in queue /\ r \notin batch
            \/ r \in batch /\ attempts'[r] = attempts[r] + 1
      BY <1>0, <3>1, <3>2, <3>3
    <3> QED BY <1>1, <2>1, <2>2, <3>4, <3>5, DrainCopies
  <2> QED BY <2>1, <2>3, <2>4 DEF BatchFails
<1>6. ASSUME NEW s \in Records, Arrive(s)
      PROVE  CopiesInv'
  <2>1. /\ s \in batch \ reached /\ reached' = reached \cup {s}
        /\ received' = [received EXCEPT ![s] = @ + 1]
        /\ UNCHANGED <<calls, queue, batch, attempts, stray>>
    BY <1>6 DEF Arrive, storage
  <2>2. \A r \in Records : received'[r] = IF r = s THEN received[r] + 1 ELSE received[r]
    BY <1>0, <2>1
  <2>3. received[s] + stray[s] <= attempts[s] /\ ~ (s > calls)
    BY <1>1, <2>1 DEF CopiesInv
  <2> QED BY <1>0, <2>1, <2>2, <2>3 DEF CopiesInv
<1>7. ASSUME NEW s \in Records, ArriveLate(s)
      PROVE  CopiesInv'
  <2>1. /\ UNCHANGED <<calls, queue, batch, reached, attempts>>
        /\ stray' = [stray EXCEPT ![s] = @ - 1]
        /\ received' = [received EXCEPT ![s] = @ + 1]
    BY <1>7 DEF ArriveLate, storage
  <2>2. \A r \in Records : received'[r] + stray'[r] = received[r] + stray[r]
    BY <1>0, <2>1
  <2> QED BY <2>1, <2>2 DEF CopiesInv
<1>8. CASE \/ \E force \in BOOLEAN : Flush(force) \/ Close(force)
           \/ TimerFires \/ DeadlinePasses
           \/ \E r \in Records : BackoffElapses(r)
           \/ UNCHANGED vars
  <2>1. UNCHANGED <<calls, queue, batch, reached, attempts, received, stray>>
    BY <1>8 DEF Flush, Close, TimerFires, DeadlinePasses, BackoffElapses, vars, storage, handler
  <2> QED BY <2>1 DEF CopiesInv
<1> QED BY <1>2, <1>3, <1>4, <1>5, <1>6, <1>7, <1>8 DEF Next

\* Telemetry is duplicated by retries alone, for all limits: abandoned calls that
\* are still under way included, a record has at most one copy per attempt.
THEOREM AttemptsBoundCopiesCorrect ==
  ASSUME BestEffort, DropOldest
  PROVE  Spec => []AttemptsBoundCopies
<1>1. Init => CopiesInv
  BY DEF Init, CopiesInv
<1>2. TypeOK /\ CopiesInv => AttemptsBoundCopies
  <2> SUFFICES ASSUME TypeOK, CopiesInv, NEW r \in Records
               PROVE  received[r] + stray[r] <= Smaller(attempts[r] + 1, MaxAttempts)
    BY DEF AttemptsBoundCopies
  <2>1. attempts[r] \in 0 .. MaxAttempts - 1 /\ received[r] + stray[r] <= attempts[r] + 1
    BY DEF TypeOK, CopiesInv
  <2> QED BY <2>1, SizesAssumption DEF Smaller
<1> QED BY <1>1, <1>2, TypeCorrect, CallersKnownCorrect, TelemetryInvariant, CopiesStep, PTL DEF Spec

-----------------------------------------------------------------------------
(* The order of first attempts                                             *)

\* Entries that were never attempted have only earlier records in front of them,
\* and back off for nothing.
FreshInv ==
  /\ queue \cup batch \subseteq 1 .. calls
  /\ \A r \in backingOff : attempts[r] > 0
  /\ \A q \in queue : attempts[q] = 0 => \A p \in ahead[q] : p < q
  /\ FirstAttemptsInOrder

\* Taking entries out of the queue leaves the rest in its order.
LEMMA OrderShrinks ==
  ASSUME NEW q, NEW b, NEW r \in Records, r \in q
  PROVE  Order(q, b)[r] \subseteq ahead[r]
BY DEF Order

LEMMA LoopFresh ==
  ASSUME TypeOK, FreshInv, NEW q \in SUBSET queue, NEW task, NEW armed, NEW isLate,
         Loop(q, task, armed, isLate), UNCHANGED <<calls, attempts>>
  PROVE  FreshInv'
<1>0. q \in SUBSET Records
  BY DEF TypeOK
<1>1. CASE CallHandler(q, task)
  <2>1. PICK b \in Oldest(Smaller(MaxBatchSize, Cardinality(Due(q, task.force))),
                          Due(q, task.force)) :
          /\ batch' = b /\ queue' = (q \ b) \cup Kept(task, b)
          /\ ahead' = Order(queue', b)
    BY <1>1 DEF CallHandler
  <2>2. b \subseteq Due(q, task.force) /\ b \subseteq q
    BY OldestInside DEF Due
  <2>3. queue' \subseteq q /\ queue' \in SUBSET Records
    BY <1>0, <2>1, <2>2 DEF Kept
  <2>4. \A x \in queue' : ahead'[x] \subseteq ahead[x]
    BY <2>1, <2>3, OrderShrinks
  <2>5. backingOff' \subseteq backingOff
    BY <1>1 DEF CallHandler
  <2>6. ASSUME NEW r \in batch', NEW x \in queue' \ batch', attempts[x] = 0
        PROVE  r < x
    <3>1. x \in q /\ x \notin b /\ x \in queue
      BY <2>1, <2>3, <2>6
    <3>2. x \notin backingOff
      BY <2>6 DEF FreshInv
    <3>3. x \in Due(q, task.force) \ b
      BY <3>1, <3>2 DEF Due
    <3>4. r \in ahead[x]
      BY <2>1, <2>6, <3>3 DEF Oldest
    <3> QED BY <2>6, <3>1, <3>4 DEF FreshInv
  <2> QED BY <2>1, <2>2, <2>3, <2>4, <2>5, <2>6 DEF FreshInv, FirstAttemptsInOrder
<1>2. CASE Leave(q) /\ Return(q, task, armed)
  <2>1. queue' = q /\ ahead' = Order(q, {}) /\ backingOff' \subseteq backingOff /\ batch' = {}
    BY <1>2 DEF Leave, Return, Settle
  <2>2. \A x \in queue' : ahead'[x] \subseteq ahead[x]
    BY <1>0, <2>1, OrderShrinks
  <2> QED BY <2>1, <2>2 DEF FreshInv, FirstAttemptsInOrder
<1> QED BY <1>1, <1>2 DEF Loop

LEMMA BatchFailsFresh ==
  ASSUME TypeOK, FreshInv, BatchFails, UNCHANGED calls
  PROVE  FreshInv'
<1>1. CASE Leave(queue) /\ Throw(running) /\ UNCHANGED attempts
  <2>1. /\ queue' = queue /\ ahead' = Order(queue, {}) /\ backingOff' \subseteq backingOff
        /\ batch' = {}
    BY <1>1 DEF Leave, Throw, Settle
  <2>2. \A x \in queue' : ahead'[x] \subseteq ahead[x]
    BY <2>1, OrderShrinks DEF TypeOK
  <2> QED BY <1>1, <2>1, <2>2 DEF FreshInv, FirstAttemptsInOrder
<1>2. CASE Loop(queue, running, timer, late) /\ UNCHANGED attempts
  BY <1>2, LoopFresh
<1>3. CASE Requeue
  <2>. DEFINE excess == Excess(Cardinality(Retryable))
              out    == IF DropOldest THEN excess ELSE 0
              lost   == IF DropOldest THEN 0 ELSE excess
  <2>1. PICK D \in Oldest(out, queue),
             back \in Oldest(Cardinality(Retryable) - lost, Retryable) :
          /\ queue' = (queue \ D) \cup back
          /\ ahead' = [r \in Records |->
                         IF r \in back THEN (queue \ D) \cup (ahead[r] \cap back)
                         ELSE Order(queue \ D, {})[r]]
          /\ attempts' = [r \in Records |-> IF r \in back THEN attempts[r] + 1 ELSE attempts[r]]
          /\ backingOff' = (backingOff \ D) \cup back
          /\ evicted' = evicted \cup D
          /\ exhausted' = exhausted \cup
               {r \in batch \ Retryable : \A s \in Retryable \ back : r \in ahead[s]}
          /\ IF back = Retryable THEN Return(queue', running, timer) ELSE Throw(running)
    BY <1>3 DEF Requeue
  <2>2. back \subseteq batch /\ batch \subseteq Records /\ queue \subseteq Records
        /\ backingOff \subseteq Records
    BY OldestInside DEF Retryable, TypeOK
  <2>3. batch' = {}
    BY <2>1 DEF Return, Throw, Settle
  <2>4. \A r \in Records : attempts[r] \in Nat
    BY SizesAssumption DEF TypeOK
  <2>5. \A r \in back : attempts'[r] > 0
    BY <2>1, <2>2, <2>4
  <2>6. \A r \in Records \ back : attempts'[r] = attempts[r]
    BY <2>1
  <2>7. \A x \in queue' \ back : x \in queue /\ ahead'[x] \subseteq ahead[x]
    BY <2>1, <2>2, OrderShrinks
  <2>8. queue' \cup batch' \subseteq 1 .. calls'
    BY <2>1, <2>2, <2>3 DEF FreshInv
  <2>9. \A r \in backingOff' : attempts'[r] > 0
    BY <2>1, <2>2, <2>5, <2>6 DEF FreshInv
  <2>10. \A q \in queue' : attempts'[q] = 0 => \A p \in ahead'[q] : p < q
    <3> SUFFICES ASSUME NEW q \in queue', attempts'[q] = 0, NEW p \in ahead'[q]
                 PROVE  p < q
      OBVIOUS
    <3>1. q \notin back
      BY <2>5
    <3>2. q \in queue /\ p \in ahead[q] /\ attempts[q] = 0
      BY <2>2, <2>6, <2>7, <3>1
    <3> QED BY <3>2 DEF FreshInv
  <2> QED BY <2>3, <2>8, <2>9, <2>10 DEF FreshInv, FirstAttemptsInOrder
<1> QED BY <1>1, <1>2, <1>3 DEF BatchFails

LEMMA FreshStep == TypeOK /\ FreshInv /\ [Next]_vars => FreshInv'
<1> SUFFICES ASSUME TypeOK, FreshInv, [Next]_vars PROVE FreshInv'
  OBVIOUS
<1>0. queue \in SUBSET Records /\ batch \in SUBSET Records /\ calls \in Nat
  BY SizesAssumption DEF TypeOK
<1>1. CASE Sink
  <2>1. calls' = calls + 1 /\ UNCHANGED batch /\ UNCHANGED attempts
    BY <1>1 DEF Sink, Refuse, Admit, Enqueue, storage, handler
  <2>2. CASE Refuse(calls + 1)
    BY <1>0, <2>1, <2>2 DEF Refuse, storage, FreshInv, FirstAttemptsInOrder
  <2>3. CASE Admit(calls + 1)
    <3>1. PICK D \in Oldest(Excess(1), queue) :
            /\ queue' = (queue \ D) \cup {calls + 1}
            /\ ahead' = [Order(queue \ D, batch) EXCEPT ![calls + 1] = queue \ D]
            /\ backingOff' = backingOff \ D
      BY <2>3 DEF Admit, Enqueue
    <3>2. \A x \in queue \ D : x # calls + 1 /\ ahead'[x] \subseteq ahead[x]
      <4> SUFFICES ASSUME NEW x \in queue \ D
                   PROVE  x # calls + 1 /\ ahead'[x] \subseteq ahead[x]
        OBVIOUS
      <4>1. x \in 1 .. calls /\ x # calls + 1
        BY <1>0 DEF FreshInv
      <4>2. ahead'[x] = Order(queue \ D, batch)[x]
        BY <1>0, <3>1, <4>1 DEF Order
      <4> QED BY <1>0, <4>1, <4>2, OrderShrinks
    <3>3. calls + 1 \in Records => ahead'[calls + 1] = queue \ D
      BY <3>1 DEF Order
    <3>4. calls + 1 \in Records
      BY <1>0, <1>1, SizesAssumption DEF Sink, Records, TypeOK
    <3>5. \A p \in queue \cup batch : p < calls + 1
      BY <1>0 DEF FreshInv
    <3>6. \A q \in queue' : attempts[q] = 0 => \A p \in ahead'[q] : p < q
      BY <3>1, <3>2, <3>3, <3>4, <3>5 DEF FreshInv
    <3>7. \A r \in batch, q \in queue' \ batch : attempts[q] = 0 => r < q
      BY <3>1, <3>5 DEF FreshInv, FirstAttemptsInOrder
    <3>8. queue' \cup batch \subseteq 1 .. calls + 1
      BY <1>0, <3>1 DEF FreshInv
    <3> QED BY <2>1, <3>1, <3>6, <3>7, <3>8 DEF FreshInv, FirstAttemptsInOrder
  <2> QED BY <1>1, <2>2, <2>3 DEF Sink
<1>2. CASE StartDrain
  BY <1>2, LoopFresh DEF StartDrain
<1>3. CASE BatchSucceeds
  <2>1. PICK left \in {queue, queue \ batch} :
          Loop(left, running, timer, late) \/ (Leave(left) /\ Return(left, running, timer))
    BY <1>3 DEF BatchSucceeds
  <2>2. UNCHANGED <<calls, attempts>>
    BY <1>3 DEF BatchSucceeds
  <2>3. CASE Loop(left, running, timer, late)
    BY <2>1, <2>2, <2>3, LoopFresh
  <2>4. CASE Leave(left) /\ Return(left, running, timer)
    <3>1. /\ queue' = left /\ ahead' = Order(left, {}) /\ backingOff' \subseteq backingOff
          /\ batch' = {}
      BY <2>4 DEF Leave, Return, Settle
    <3>2. \A x \in queue' : x \in queue /\ ahead'[x] \subseteq ahead[x]
      BY <1>0, <2>1, <3>1, OrderShrinks
    <3> QED BY <2>2, <3>1, <3>2 DEF FreshInv, FirstAttemptsInOrder
  <2> QED BY <2>1, <2>3, <2>4
<1>4. CASE HandlerRejects \/ HandlerTimesOut
  BY <1>4, BatchFailsFresh DEF HandlerRejects, HandlerTimesOut
<1>5. CASE \E r \in Records : BackoffElapses(r)
  BY <1>5 DEF BackoffElapses, scheduling, handler, ledger, FreshInv, FirstAttemptsInOrder
<1>6. CASE \/ \E force \in BOOLEAN : Flush(force) \/ Close(force)
           \/ TimerFires \/ DeadlinePasses
           \/ \E r \in Records : Arrive(r) \/ ArriveLate(r)
           \/ UNCHANGED vars
  <2>1. UNCHANGED <<calls, queue, ahead, attempts, backingOff, batch>>
    BY <1>6 DEF Flush, Close, TimerFires, DeadlinePasses, Arrive, ArriveLate, vars, storage, handler
  <2> QED BY <2>1 DEF FreshInv, FirstAttemptsInOrder
<1> QED BY <1>1, <1>2, <1>3, <1>4, <1>5, <1>6 DEF Next

LEMMA FreshInvariant == Spec => []FreshInv
<1>1. Init => FreshInv
  BY DEF Init, FreshInv, FirstAttemptsInOrder
<1> QED BY <1>1, FreshStep, TypeCorrect, PTL DEF Spec

\* No record overtakes one that still waits for its first attempt, whatever the
\* sizes, the overflow policy and the delivery mode.
THEOREM FirstAttemptsInOrderCorrect == Spec => []FirstAttemptsInOrder
<1>1. FreshInv => FirstAttemptsInOrder
  BY DEF FreshInv
<1> QED BY <1>1, FreshInvariant, PTL

-----------------------------------------------------------------------------
(* The order of audit records                                              *)

\* The drain of close() is the only one that does not throw; what the queue and
\* the awaited batch hold fits into the queue; nothing accepted is lost.
AuditOrderInv ==
  /\ \A i \in 1 .. Len(chain) : chain[i].throws \/ closed
  /\ running = Idle => batch = {}
  /\ running # Idle /\ running.throws => batch \subseteq queue
  /\ running # Idle /\ ~ running.throws => closed /\ queue \cap batch = {}
  /\ Cardinality(queue \cup batch) <= MaxQueueSize
  /\ Accepted \subseteq queue \cup batch \cup delivered \cup exhausted
  /\ delivered \subseteq 1 .. calls
  /\ AuditInOrder

\* The loop test only moves entries between the queue and the next batch.
LEMMA LoopHolds ==
  ASSUME NEW q \in SUBSET Records, NEW task \in Task, NEW armed, NEW isLate,
         Loop(q, task, armed, isLate)
  PROVE  /\ queue' \cup batch' = q
         /\ \/ running' = Idle /\ batch' = {}
            \/ /\ running' = task
               /\ task.throws => batch' \subseteq queue'
               /\ ~ task.throws => queue' \cap batch' = {}
<1>1. CASE CallHandler(q, task)
  <2>1. PICK b \in Oldest(Smaller(MaxBatchSize, Cardinality(Due(q, task.force))),
                          Due(q, task.force)) :
          batch' = b /\ queue' = (q \ b) \cup Kept(task, b)
    BY <1>1 DEF CallHandler
  <2>2. b \subseteq q
    BY OldestInside DEF Due
  <2>3. running' = task
    BY <1>1 DEF CallHandler
  <2> QED BY <2>1, <2>2, <2>3 DEF Kept
<1>2. CASE Leave(q) /\ Return(q, task, armed)
  BY <1>2 DEF Leave, Return, Settle
<1> QED BY <1>1, <1>2 DEF Loop

\* A set that lost members still fits.
LEMMA StillFits ==
  ASSUME NEW S \in SUBSET Records, NEW T \in SUBSET S, Cardinality(S) <= MaxQueueSize
  PROVE  Cardinality(T) <= MaxQueueSize
<1>1. Cardinality(T) \in Nat /\ Cardinality(S) \in Nat /\ Cardinality(T) <= Cardinality(S)
  BY RecordSets
<1> QED BY <1>1, SizesAssumption

\* What close() puts back always has room, because the batch has left it.
LEMMA RequeueHolds ==
  ASSUME TypeOK, ~ DropOldest, Requeue, queue \cap batch = {},
         Cardinality(queue \cup batch) <= MaxQueueSize
  PROVE  /\ batch' = {} /\ running' = Idle
         /\ queue' = queue \cup Retryable
         /\ exhausted' = exhausted \cup (batch \ Retryable)
         /\ \A r \in Records : attempts'[r] >= attempts[r]
<1>. DEFINE excess == Excess(Cardinality(Retryable))
            out    == IF DropOldest THEN excess ELSE 0
            lost   == IF DropOldest THEN 0 ELSE excess
<1>1. PICK D \in Oldest(out, queue),
           back \in Oldest(Cardinality(Retryable) - lost, Retryable) :
        /\ queue' = (queue \ D) \cup back
        /\ ahead' = [r \in Records |->
                       IF r \in back THEN (queue \ D) \cup (ahead[r] \cap back)
                       ELSE Order(queue \ D, {})[r]]
        /\ attempts' = [r \in Records |-> IF r \in back THEN attempts[r] + 1 ELSE attempts[r]]
        /\ backingOff' = (backingOff \ D) \cup back
        /\ evicted' = evicted \cup D
        /\ exhausted' = exhausted \cup
             {r \in batch \ Retryable : \A s \in Retryable \ back : r \in ahead[s]}
        /\ IF back = Retryable THEN Return(queue', running, timer) ELSE Throw(running)
  BY DEF Requeue
<1>2. /\ queue \in SUBSET Records /\ batch \in SUBSET Records
      /\ Retryable \in SUBSET Records /\ Retryable \subseteq batch
  BY DEF TypeOK, Retryable
<1>3. D = {}
  BY <1>2, <1>1, OldestNone
<1>4. Cardinality(queue) + Cardinality(Retryable) <= MaxQueueSize
  <2>1. IsFiniteSet(queue) /\ IsFiniteSet(Retryable) /\ queue \cap Retryable = {}
    BY <1>2, RecordSets
  <2>2. Cardinality(queue \cup Retryable) = Cardinality(queue) + Cardinality(Retryable)
    <3>1. Cardinality(queue \cap Retryable) = 0
      BY <2>1, FS_EmptySet
    <3>2. Cardinality(queue) \in Nat /\ Cardinality(Retryable) \in Nat
      BY <1>2, RecordSets
    <3>3. Cardinality(queue \cup Retryable) =
            Cardinality(queue) + Cardinality(Retryable) - Cardinality(queue \cap Retryable)
      BY <2>1, FS_Union
    <3> QED BY <3>1, <3>2, <3>3
  <2>3. queue \cup Retryable \in SUBSET (queue \cup batch) /\ queue \cup batch \in SUBSET Records
    BY <1>2
  <2>4. Cardinality(queue \cup Retryable) <= MaxQueueSize
    BY <2>3, StillFits
  <2> QED BY <2>2, <2>4
<1>5. lost = 0
  <2>1. Cardinality(queue) \in Nat /\ Cardinality(Retryable) \in Nat
    BY <1>2, RecordSets
  <2> QED BY <1>4, <2>1, SizesAssumption DEF Excess
<1>6. back = Retryable
  <2>1. Cardinality(Retryable) \in Nat /\ IsFiniteSet(Retryable)
    BY <1>2, RecordSets
  <2>2. back \in SUBSET Retryable /\ Cardinality(back) = Cardinality(Retryable)
    BY <1>5, <2>1, OldestInside, OldestSize
  <2> QED BY <2>1, <2>2, FS_Subset
<1>7. batch' = {} /\ running' = Idle
  BY <1>1 DEF Return, Throw, Settle
<1>8. exhausted' = exhausted \cup (batch \ Retryable)
  BY <1>1, <1>6
<1>9. \A r \in Records : attempts'[r] >= attempts[r]
  BY <1>1, SizesAssumption DEF TypeOK
<1> QED BY <1>1, <1>3, <1>6, <1>7, <1>8, <1>9

\* More attempts and more records given up leave the order as it is.
LEMMA OrderGrows ==
  ASSUME TypeOK, AuditInOrder, Accepted' = Accepted, delivered' = delivered,
         exhausted \subseteq exhausted', TypeOK',
         \A r \in Records : attempts'[r] >= attempts[r]
  PROVE  AuditInOrder'
<1> SUFFICES ASSUME NEW r \in delivered, NEW q \in Accepted, q < r,
                    q \notin delivered, q \notin exhausted'
             PROVE  attempts'[q] > 0
  BY DEF AuditInOrder
<1>1. q \in Records /\ attempts[q] > 0
  BY DEF AuditInOrder, Accepted
<1>2. attempts[q] \in Nat /\ attempts'[q] \in Nat /\ attempts'[q] >= attempts[q]
  BY <1>1, SizesAssumption DEF TypeOK
<1> QED BY <1>1, <1>2

LEMMA AuditOrderStep ==
  ASSUME MustAccept, ~ DropOldest
  PROVE  TypeOK /\ TypeOK' /\ CallersKnown /\ FreshInv /\ AuditOrderInv /\ [Next]_vars
           => AuditOrderInv'
<1> SUFFICES ASSUME TypeOK, TypeOK', CallersKnown, FreshInv, AuditOrderInv, [Next]_vars
             PROVE  AuditOrderInv'
  OBVIOUS
<1>0. /\ queue \in SUBSET Records /\ batch \in SUBSET Records
      /\ running \in Task \cup {Idle} /\ chain \in Seq(Task) /\ calls \in Nat
      /\ queue \cup batch \in SUBSET Records
      /\ \A r \in Records : attempts[r] \in Nat
  BY SizesAssumption DEF TypeOK
<1>1. ASSUME NEW t \in Task, t.throws \/ closed', closed => closed', chain' = Append(chain, t)
      PROVE  \A i \in 1 .. Len(chain') : chain'[i].throws \/ closed'
  BY <1>0, <1>1, ChainAppend DEF AuditOrderInv
<1>2. CASE Sink
  <2>1. calls' = calls + 1 /\ calls + 1 \in Records /\ UNCHANGED <<batch, attempts>>
    BY <1>2, SinkCallers DEF Sink, Refuse, Admit, Enqueue, storage, handler
  <2>2. CASE Refuse(calls + 1) /\ Accepted' = Accepted
    <3>1. UNCHANGED <<chain, closed, running, queue, delivered, exhausted, attempts>>
      BY <2>2 DEF Refuse, storage, scheduling, ledger
    <3>2. delivered \subseteq 1 .. calls + 1
      BY <1>0 DEF AuditOrderInv
    <3> QED BY <2>1, <2>2, <3>1, <3>2 DEF AuditOrderInv, AuditInOrder
  <2>3. CASE Admit(calls + 1) /\ Accepted' = Accepted \cup {calls + 1}
    <3>1. PICK D \in Oldest(Excess(1), queue) : queue' = (queue \ D) \cup {calls + 1}
      BY <2>3 DEF Admit, Enqueue
    <3>2. Cardinality(queue) \in Nat /\ ~ (Excess(1) > 0) /\ ~ closed
      BY <1>0, <2>3, RecordSets DEF Admit, Shut
    <3>3. Excess(1) = 0 /\ Cardinality(queue) + 1 <= MaxQueueSize
      BY <3>2, SizesAssumption DEF Excess
    <3>4. queue' = queue \cup {calls + 1}
      BY <1>0, <3>1, <3>3, OldestNone
    <3>5. UNCHANGED <<closed, running, delivered, exhausted>>
      BY <2>3 DEF Admit
    <3>6. \A i \in 1 .. Len(chain') : chain'[i].throws \/ closed'
      <4>. DEFINE t == [caller |-> calls + 1, force |-> TRUE, throws |-> MustAccept]
      <4>1. t \in Task /\ t.throws
        BY <2>1 DEF Task, MustAccept
      <4>2. chain' = Append(chain, t)
        BY <2>3 DEF Admit, BestEffort, MustAccept
      <4> QED BY <1>1, <3>5, <4>1, <4>2
    <3>7. batch \subseteq queue
      BY <3>2 DEF AuditOrderInv
    <3>8. Cardinality(queue' \cup batch') <= MaxQueueSize
      <4>1. queue' \cup batch' = (queue \ {}) \cup {calls + 1}
        BY <2>1, <3>4, <3>7
      <4>2. {calls + 1} \in SUBSET Records /\ {} \in SUBSET queue
        BY <2>1
      <4>3. Cardinality((queue \ {}) \cup {calls + 1})
              <= Cardinality(queue) - Cardinality({}) + Cardinality({calls + 1})
        BY <1>0, <4>2, SwapBound
      <4>4. Cardinality({}) = 0 /\ Cardinality({calls + 1}) = 1
        BY FS_EmptySet, FS_Singleton
      <4>5. Cardinality(queue' \cup batch') \in Nat
        <5>1. queue' \cup batch' \in SUBSET Records
          BY <1>0, <2>1, <4>1
        <5> QED BY <5>1, RecordSets
      <4>6. Cardinality(queue' \cup batch') <= Cardinality(queue) - 0 + 1
        BY <4>1, <4>3, <4>4
      <4> QED BY <3>2, <3>3, <4>5, <4>6, SizesAssumption
    <3>9. delivered \subseteq 1 .. calls
      BY DEF AuditOrderInv
    <3>10. delivered' \subseteq 1 .. calls'
      BY <1>0, <2>1, <3>5, <3>9
    <3>11. AuditInOrder'
      <4> SUFFICES ASSUME NEW r \in delivered, NEW q \in Accepted \cup {calls + 1}, q < r
                   PROVE  q \in delivered \cup exhausted \/ attempts[q] > 0
        BY <2>1, <2>3, <3>5 DEF AuditInOrder
      <4>1. q # calls + 1
        BY <1>0, <3>9
      <4> QED BY <4>1 DEF AuditOrderInv, AuditInOrder
    <3> QED BY <2>1, <2>3, <3>2, <3>4, <3>5, <3>6, <3>7, <3>8, <3>10, <3>11 DEF AuditOrderInv
  <2> QED BY <1>2, <2>2, <2>3, SinkCallers
\* A drain that holds q goes on, or ends.
<1>3. ASSUME NEW q \in SUBSET (queue \cup batch), NEW task \in Task,
             queue' \cup batch' = q, task.throws \/ closed,
             \/ running' = Idle /\ batch' = {}
             \/ /\ running' = task
                /\ task.throws => batch' \subseteq queue'
                /\ ~ task.throws => queue' \cap batch' = {},
             closed' = closed, calls' = calls, Accepted' = Accepted,
             queue \cup batch \subseteq q \cup delivered' \cup exhausted',
             delivered \subseteq delivered', exhausted \subseteq exhausted',
             delivered' \subseteq delivered \cup batch,
             \A i \in 1 .. Len(chain') : chain'[i].throws \/ closed',
             AuditInOrder'
      PROVE  AuditOrderInv'
  <2>1. Cardinality(queue' \cup batch') <= MaxQueueSize
    BY <1>0, <1>3, StillFits DEF AuditOrderInv
  <2>2. delivered' \subseteq 1 .. calls'
    BY <1>3 DEF AuditOrderInv, FreshInv
  <2>3. Accepted' \subseteq queue' \cup batch' \cup delivered' \cup exhausted'
    BY <1>3 DEF AuditOrderInv
  <2>4. task # Idle
    BY IdleIsNoTask
  <2> QED BY <1>3, <2>1, <2>2, <2>3, <2>4 DEF AuditOrderInv
<1>4. CASE StartDrain
  <2>1. chain # <<>> /\ Head(chain) = chain[1] /\ 1 \in 1 .. Len(chain) /\ running = Idle
    BY <1>0, <1>4 DEF StartDrain
  <2>2. Head(chain) \in Task /\ (Head(chain).throws \/ closed) /\ batch = {}
    BY <1>0, <2>1 DEF AuditOrderInv
  <2>3. /\ queue' \cup batch' = queue
        /\ \/ running' = Idle /\ batch' = {}
           \/ /\ running' = Head(chain)
              /\ Head(chain).throws => batch' \subseteq queue'
              /\ ~ Head(chain).throws => queue' \cap batch' = {}
    BY <1>0, <1>4, <2>2, LoopHolds DEF StartDrain
  <2>4. UNCHANGED <<closed, calls, delivered, exhausted, attempts>> /\ Accepted' = Accepted
    BY <1>4, DrainCallers DEF StartDrain, ledger
  <2>5. \A i \in 1 .. Len(chain') : chain'[i].throws \/ closed'
    BY <1>0, <1>4, <2>1, <2>4, ChainTail DEF StartDrain, AuditOrderInv
  <2>6. AuditInOrder'
    BY <2>4 DEF AuditOrderInv, AuditInOrder
  <2> QED BY <1>3, <2>2, <2>3, <2>4, <2>5, <2>6
<1>5. CASE BatchSucceeds
  <2>. DEFINE left == IF running.throws THEN queue \ batch ELSE queue
  <2>1. running \in Task /\ running # Idle /\ (running.throws \/ closed)
    BY <1>0, <1>5 DEF BatchSucceeds, AuditOrderInv
  <2>2. /\ left \in SUBSET Records /\ left \in SUBSET (queue \cup batch)
        /\ queue \cup batch \subseteq left \cup batch
    BY <1>0
  <2>3. Loop(left, running, timer, late) \/ (Leave(left) /\ Return(left, running, timer))
    BY <1>5 DEF BatchSucceeds
  <2>4. /\ queue' \cup batch' = left
        /\ \/ running' = Idle /\ batch' = {}
           \/ /\ running' = running
              /\ running.throws => batch' \subseteq queue'
              /\ ~ running.throws => queue' \cap batch' = {}
    <3>1. CASE Loop(left, running, timer, late)
      BY <2>1, <2>2, <3>1, LoopHolds
    <3>2. CASE Leave(left) /\ Return(left, running, timer)
      BY <3>2 DEF Leave, Return, Settle
    <3> QED BY <2>3, <3>1, <3>2
  <2>5. /\ delivered' = delivered \cup batch
        /\ UNCHANGED <<closed, calls, chain, exhausted, attempts>>
        /\ Accepted' = Accepted
    BY <1>5, DrainCallers DEF BatchSucceeds
  <2>6. AuditInOrder'
    <3> SUFFICES ASSUME NEW r \in delivered \cup batch, NEW q \in Accepted, q < r
                 PROVE  q \in delivered \cup batch \cup exhausted \/ attempts[q] > 0
      BY <2>5 DEF AuditInOrder
    <3>1. CASE r \in delivered
      BY <3>1 DEF AuditOrderInv, AuditInOrder
    <3>2. CASE r \in batch
      <4>1. q \in queue \cup batch \cup delivered \cup exhausted
        BY DEF AuditOrderInv
      <4>2. CASE q \in queue \ batch
        <5>1. attempts[q] = 0 => r < q
          BY <3>2, <4>2 DEF FreshInv, FirstAttemptsInOrder
        <5>2. q \in Nat /\ r \in Nat /\ attempts[q] \in Nat
          BY <1>0, <3>2, <4>2 DEF Records
        <5> QED BY <5>1, <5>2
      <4> QED BY <4>1, <4>2
    <3> QED BY <3>1, <3>2
  <2> HIDE DEF left
  <2>7. queue \cup batch \subseteq left \cup delivered' \cup exhausted'
    BY <2>2, <2>5
  <2>8. \A i \in 1 .. Len(chain') : chain'[i].throws \/ closed'
    BY <2>5 DEF AuditOrderInv
  <2> QED BY <1>3, <2>1, <2>2, <2>4, <2>5, <2>6, <2>7, <2>8
<1>6. CASE HandlerRejects \/ HandlerTimesOut
  <2>1. /\ running \in Task /\ running # Idle /\ BatchFails
        /\ UNCHANGED <<closed, calls, chain, delivered>>
    BY <1>0, <1>6 DEF HandlerRejects, HandlerTimesOut
  <2>2. Accepted' = Accepted
    BY <2>1, BatchFailsCallers
  <2>3. \A i \in 1 .. Len(chain') : chain'[i].throws \/ closed'
    BY <2>1 DEF AuditOrderInv
  <2>4. AuditInOrder
    BY DEF AuditOrderInv
  <2>5. CASE running.throws
    <3>1. Leave(queue) /\ Throw(running) /\ UNCHANGED <<attempts, exhausted>>
      BY <2>1, <2>5 DEF BatchFails
    <3>2. queue' = queue /\ running' = Idle /\ batch' = {}
      BY <3>1 DEF Leave, Throw, Settle
    <3>3. batch \subseteq queue
      BY <2>1, <2>5 DEF AuditOrderInv
    <3>4. AuditInOrder'
      BY <2>1, <2>2, <2>4, <3>1 DEF AuditInOrder
    <3> QED BY <1>3, <2>1, <2>2, <2>3, <2>5, <3>1, <3>2, <3>3, <3>4
  <2>6. CASE ~ running.throws
    <3>0. closed /\ queue \cap batch = {} /\ Cardinality(queue \cup batch) <= MaxQueueSize
      BY <2>1, <2>6 DEF AuditOrderInv
    <3>1. CASE /\ exhausted' = exhausted \cup batch /\ Loop(queue, running, timer, late)
               /\ UNCHANGED attempts
      <4>1. /\ queue' \cup batch' = queue
            /\ \/ running' = Idle /\ batch' = {}
               \/ running' = running /\ queue' \cap batch' = {}
        BY <1>0, <2>1, <2>6, <3>1, LoopHolds
      <4>2. AuditInOrder'
        BY <2>1, <2>2, <2>4, <3>1 DEF AuditInOrder
      <4> QED BY <1>3, <2>1, <2>2, <2>3, <2>6, <3>0, <3>1, <4>1, <4>2
    <3>2. CASE Requeue
      <4>1. /\ batch' = {} /\ running' = Idle
            /\ queue' = queue \cup Retryable
            /\ exhausted' = exhausted \cup (batch \ Retryable)
            /\ \A r \in Records : attempts'[r] >= attempts[r]
        BY <3>0, <3>2, RequeueHolds
      <4>2. AuditInOrder'
        BY <2>1, <2>2, <2>4, <4>1, OrderGrows
      <4>3. Retryable \subseteq batch
        BY DEF Retryable
      <4> QED BY <1>3, <2>1, <2>2, <2>3, <3>0, <4>1, <4>2, <4>3
    <3> QED BY <2>1, <2>6, <3>1, <3>2 DEF BatchFails
  <2> QED BY <2>5, <2>6
<1>7. ASSUME NEW force \in BOOLEAN, Flush(force) \/ Close(force)
      PROVE  AuditOrderInv'
  <2>1. \A b \in BOOLEAN : [caller |-> NoCaller, force |-> force, throws |-> b] \in Task
    BY DEF Task
  <2>2. ASSUME Flush(force)
        PROVE  \A i \in 1 .. Len(chain') : chain'[i].throws \/ closed'
    <3>. DEFINE t == [caller |-> NoCaller, force |-> force, throws |-> TRUE]
    <3>1. t \in Task /\ t.throws /\ chain' = Append(chain, t) /\ closed' = closed
      BY <2>1, <2>2 DEF Flush, MustAccept
    <3> QED BY <1>1, <3>1
  <2>3. /\ \A i \in 1 .. Len(chain') : chain'[i].throws \/ closed'
        /\ closed => closed'
    <3>1. closed => closed'
      BY <1>7 DEF Flush, Close
    <3>2. Close(force) => closed'
      BY DEF Close
    <3> QED BY <1>7, <2>2, <3>1, <3>2
  <2>4. UNCHANGED <<calls, running, batch, queue, outcome, attempts, delivered, exhausted>>
    BY <1>7 DEF Flush, Close, storage, handler, ledger
  <2> QED BY <2>3, <2>4 DEF AuditOrderInv, AuditInOrder, Accepted
<1>8. CASE TimerFires
  <2>. DEFINE t == [caller |-> NoCaller, force |-> FALSE, throws |-> MustAccept]
  <2>1. t \in Task /\ t.throws /\ chain' = Append(chain, t) /\ closed' = closed
    BY <1>8 DEF TimerFires, Task, MustAccept
  <2>2. UNCHANGED <<calls, running, batch, queue, outcome, attempts, delivered, exhausted>>
    BY <1>8 DEF TimerFires, storage, handler, ledger
  <2>3. \A i \in 1 .. Len(chain') : chain'[i].throws \/ closed'
    BY <1>1, <2>1
  <2> QED BY <2>1, <2>2, <2>3 DEF AuditOrderInv, AuditInOrder, Accepted
<1>9. CASE \/ DeadlinePasses
           \/ \E r \in Records : BackoffElapses(r) \/ Arrive(r) \/ ArriveLate(r)
           \/ UNCHANGED vars
  <2>1. UNCHANGED <<calls, chain, closed, running, batch, queue, outcome, attempts,
                    delivered, exhausted>>
    BY <1>9 DEF DeadlinePasses, BackoffElapses, Arrive, ArriveLate, vars, storage,
                scheduling, handler, ledger
  <2> QED BY <2>1 DEF AuditOrderInv, AuditInOrder, Accepted
<1> QED BY <1>2, <1>4, <1>5, <1>6, <1>7, <1>8, <1>9 DEF Next

\* Audit records are delivered in the order they were accepted, for all limits;
\* only what close() requeues, or gives up, may be overtaken.
THEOREM AuditInOrderCorrect ==
  ASSUME MustAccept, ~ DropOldest
  PROVE  Spec => []AuditInOrder
<1>1. Init => AuditOrderInv
  <2>1. Cardinality({}) = 0
    BY FS_EmptySet
  <2>2. Init => queue \cup batch = {} /\ Accepted = {}
    BY DEF Init, Accepted
  <2> QED BY <2>1, <2>2, SizesAssumption DEF Init, AuditOrderInv, AuditInOrder
<1>2. AuditOrderInv => AuditInOrder
  BY DEF AuditOrderInv
<1> QED BY <1>1, <1>2, TypeCorrect, CallersKnownCorrect, FreshInvariant, AuditOrderStep, PTL DEF Spec

-----------------------------------------------------------------------------
(* The delivery ledger                                                     *)

Settled == delivered \cup evicted \cup exhausted

\* Only a must-accept drain throws, and until the sink is closed it always does.
Mannered(t, over) == (t.throws => MustAccept) /\ (MustAccept /\ ~ over => t.throws)

\* What waits was accepted and is not settled; what the awaited call has put
\* downstream, or counts as delivered, did arrive; and the batch is in the queue
\* just if its drain peeks.
LedgerInv ==
  /\ queue \cup batch \cup Settled \subseteq Accepted
  /\ (queue \cup batch) \cap Settled = {}
  /\ \A r \in reached \cup delivered : received[r] > 0
  /\ \A r \in Records : stray[r] > 0 => r \in Accepted
  /\ \A i \in 1 .. Len(chain) : Mannered(chain[i], closed)
  /\ running = Idle => batch = {}
  /\ running # Idle =>
       /\ Mannered(running, closed)
       /\ IF running.throws THEN batch \subseteq queue ELSE queue \cap batch = {}

\* The loop test distributes what it is given.
LEMMA LoopWaits ==
  ASSUME NEW q \in SUBSET Records, NEW task \in Task, NEW armed, NEW isLate,
         Loop(q, task, armed, isLate)
  PROVE  /\ queue' \cup batch' \subseteq q /\ reached' = {}
         /\ running' = Idle => batch' = {}
         /\ running' # Idle =>
              /\ running' = task
              /\ IF task.throws THEN batch' \subseteq queue' ELSE queue' \cap batch' = {}
<1>1. CASE CallHandler(q, task)
  <2>1. PICK b \in Oldest(Smaller(MaxBatchSize, Cardinality(Due(q, task.force))),
                          Due(q, task.force)) :
          batch' = b /\ queue' = (q \ b) \cup Kept(task, b)
    BY <1>1 DEF CallHandler
  <2>2. b \subseteq q
    BY OldestInside DEF Due
  <2> QED BY <1>1, <2>1, <2>2, IdleIsNoTask DEF Kept, CallHandler
<1>2. CASE Leave(q) /\ Return(q, task, armed)
  BY <1>2 DEF Leave, Return, Settle
<1> QED BY <1>1, <1>2 DEF Loop

\* What a failed batch does: nothing new waits, and what is settled was waiting.
\* Settling needs a sink that may lose, or is closed.
LEMMA FailureLoses ==
  ASSUME TypeOK, LedgerInv, running # Idle, BatchFails, closed' = closed,
         BestEffort \/ ~ DropOldest
  PROVE  /\ queue' \cup batch' \subseteq queue \cup batch /\ reached' = {}
         /\ \E D \in SUBSET (queue \cup batch) :
              /\ evicted' \cup exhausted' = evicted \cup exhausted \cup D
              /\ D \cap (queue' \cup batch') = {}
              /\ D # {} => BestEffort \/ closed
         /\ running' = Idle => batch' = {}
         /\ running' # Idle =>
              /\ running' = running
              /\ IF running.throws THEN batch' \subseteq queue' ELSE queue' \cap batch' = {}
<1>0. /\ queue \in SUBSET Records /\ batch \in SUBSET Records /\ running \in Task
      /\ Mannered(running, closed)
      /\ IF running.throws THEN batch \subseteq queue ELSE queue \cap batch = {}
  BY DEF TypeOK, LedgerInv
<1>1. CASE running.throws /\ Leave(queue) /\ Throw(running) /\ UNCHANGED <<evicted, exhausted>>
  <2>1. queue' = queue /\ batch' = {} /\ reached' = {} /\ running' = Idle
    BY <1>1 DEF Leave, Throw, Settle
  <2> QED BY <1>1, <2>1
<1>2. CASE ~ running.throws /\ exhausted' = exhausted \cup batch /\ evicted' = evicted
           /\ Loop(queue, running, timer, late)
  <2>1. queue' \cup batch' \subseteq queue /\ queue \cap batch = {}
    BY <1>0, <1>2, LoopWaits
  <2>2. BestEffort \/ closed
    BY <1>0, <1>2, PolicyAssumption DEF Mannered, BestEffort, MustAccept
  <2>3. batch \in SUBSET (queue \cup batch) /\ batch \cap (queue' \cup batch') = {}
        /\ evicted' \cup exhausted' = evicted \cup exhausted \cup batch
    BY <1>2, <2>1
  <2> QED BY <1>0, <1>2, <2>1, <2>2, <2>3, LoopWaits
<1>3. CASE ~ running.throws /\ Requeue
  <2>. DEFINE excess == Excess(Cardinality(Retryable))
              out    == IF DropOldest THEN excess ELSE 0
              lost   == IF DropOldest THEN 0 ELSE excess
  <2>1. PICK D \in Oldest(out, queue),
             back \in Oldest(Cardinality(Retryable) - lost, Retryable) :
          /\ queue' = (queue \ D) \cup back
          /\ evicted' = evicted \cup D
          /\ exhausted' = exhausted \cup
               {r \in batch \ Retryable : \A s \in Retryable \ back : r \in ahead[s]}
          /\ IF back = Retryable THEN Return(queue', running, timer) ELSE Throw(running)
    BY <1>3 DEF Requeue
  <2>. DEFINE gone == {r \in batch \ Retryable : \A s \in Retryable \ back : r \in ahead[s]}
              E == D \cup gone
  <2>2. D \subseteq queue /\ back \subseteq Retryable /\ Retryable \subseteq batch /\ queue \cap batch = {}
    BY <1>0, <1>3, OldestInside DEF Retryable
  <2>3. batch' = {} /\ reached' = {} /\ running' = Idle
    BY <2>1 DEF Return, Throw, Settle
  <2>4. gone \subseteq batch /\ gone \cap Retryable = {}
    OBVIOUS
  <2>5. E \in SUBSET (queue \cup batch) /\ E \cap (queue' \cup batch') = {}
        /\ evicted' \cup exhausted' = evicted \cup exhausted \cup E
    BY <2>1, <2>2, <2>3, <2>4
  <2>6. BestEffort \/ closed
    BY <1>0, <1>3, PolicyAssumption DEF Mannered, BestEffort, MustAccept
  <2> QED BY <2>1, <2>2, <2>3, <2>5, <2>6
<1> QED BY <1>1, <1>2, <1>3 DEF BatchFails

\* A drain answers the caller of an accepted record or nobody: those that were
\* refused, or did not call yet, see nothing of it.
LEMMA OthersSeeNothing ==
  ASSUME TypeOK, CallersKnown,
         StartDrain \/ BatchSucceeds \/ HandlerRejects \/ HandlerTimesOut
  PROVE  \A r \in Records \ Accepted : outcome'[r] = outcome[r]
<1>1. ASSUME NEW task, task.caller \in Accepted \cup {NoCaller}, NEW result, Settle(task, result)
      PROVE  \A r \in Records \ Accepted : outcome'[r] = outcome[r]
  BY <1>1 DEF Settle, TypeOK
<1>2. ASSUME NEW task, task.caller \in Accepted \cup {NoCaller}, NEW q, NEW armed, NEW isLate,
             Loop(q, task, armed, isLate)
      PROVE  \A r \in Records \ Accepted : outcome'[r] = outcome[r]
  BY <1>1, <1>2 DEF Loop, Return
<1>3. CASE StartDrain
  <2>1. chain \in Seq(Task) /\ chain # <<>>
    BY <1>3 DEF StartDrain, TypeOK
  <2>2. Head(chain) = chain[1] /\ 1 \in 1 .. Len(chain)
    BY <2>1
  <2>3. Head(chain).caller \in Accepted \cup {NoCaller}
    BY <2>2 DEF CallersKnown
  <2> QED BY <1>2, <1>3, <2>3 DEF StartDrain
<1>4. CASE BatchSucceeds
  <2>1. running.caller \in Accepted \cup {NoCaller}
    BY <1>4 DEF BatchSucceeds, CallersKnown
  <2> QED BY <1>1, <1>2, <1>4, <2>1 DEF BatchSucceeds, Return
<1>5. CASE HandlerRejects \/ HandlerTimesOut
  <2>1. running.caller \in Accepted \cup {NoCaller} /\ BatchFails
    BY <1>5 DEF HandlerRejects, HandlerTimesOut, CallersKnown
  <2>2. CASE Throw(running)
    BY <1>1, <2>1, <2>2 DEF Throw
  <2>3. CASE Return(queue', running, timer)
    BY <1>1, <2>1, <2>3 DEF Return
  <2>4. CASE Loop(queue, running, timer, late)
    BY <1>2, <2>1, <2>4
  <2> QED BY <2>1, <2>2, <2>3, <2>4 DEF BatchFails, Requeue
<1> QED BY <1>3, <1>4, <1>5

-----------------------------------------------------------------------------
(* The invariant                                                           *)

LEMMA LedgerStep ==
  ASSUME BestEffort \/ ~ DropOldest
  PROVE  TypeOK /\ TypeOK' /\ CallersKnown /\ LedgerInv /\ [Next]_vars => LedgerInv'
<1> SUFFICES ASSUME TypeOK, TypeOK', CallersKnown, LedgerInv, [Next]_vars PROVE LedgerInv'
  OBVIOUS
<1>0. /\ queue \in SUBSET Records /\ batch \in SUBSET Records /\ reached \subseteq batch
      /\ running \in Task \cup {Idle} /\ chain \in Seq(Task)
      /\ \A r \in Records : received[r] \in Nat /\ stray[r] \in Nat
      /\ received \in [Records -> Nat] /\ stray \in [Records -> Nat]
      /\ closed \in BOOLEAN
  BY DEF TypeOK
<1>1. ASSUME NEW t \in Task, Mannered(t, closed'), chain' = Append(chain, t), closed' = closed
      PROVE  \A i \in 1 .. Len(chain') : Mannered(chain'[i], closed')
  BY <1>0, <1>1, ChainAppend DEF LedgerInv, Mannered
<1>2. CASE Sink
  <2>1. /\ calls + 1 \in Records /\ calls + 1 \notin Accepted
        /\ UNCHANGED <<batch, reached, stray, received>>
    BY <1>2, SinkCallers DEF Sink, Accepted, handler
  <2>2. CASE Refuse(calls + 1) /\ Accepted' = Accepted
    <3>1. UNCHANGED <<queue, chain, closed, running, delivered, evicted, exhausted>>
      BY <2>2 DEF Refuse, storage, scheduling, ledger
    <3> QED BY <2>1, <2>2, <3>1 DEF LedgerInv, Mannered, Settled
  <2>3. CASE Admit(calls + 1) /\ Accepted' = Accepted \cup {calls + 1}
    <3>1. PICK D \in Oldest(Excess(1), queue) :
            queue' = (queue \ D) \cup {calls + 1} /\ evicted' = evicted \cup D
      BY <2>3 DEF Admit, Enqueue
    <3>2. D \subseteq queue /\ UNCHANGED <<closed, running, delivered, exhausted>>
      BY <2>3, OldestInside DEF Admit
    <3>3. \A i \in 1 .. Len(chain') : Mannered(chain'[i], closed')
      <4>1. CASE chain' = chain
        BY <3>2, <4>1 DEF LedgerInv, Mannered
      <4>2. CASE chain' = Append(chain, [caller |-> calls + 1, force |-> TRUE, throws |-> MustAccept])
        <5>. DEFINE t == [caller |-> calls + 1, force |-> TRUE, throws |-> MustAccept]
        <5>1. t \in Task /\ t.throws = MustAccept
          BY <2>1 DEF Task, MustAccept
        <5>2. Mannered(t, closed')
          BY <5>1 DEF Mannered
        <5> QED BY <1>1, <3>2, <4>2, <5>1, <5>2
      <4> QED BY <2>3, <4>1, <4>2 DEF Admit
    <3>4. running # Idle => IF running.throws THEN D = {} ELSE TRUE
      <4>1. SUFFICES ASSUME running # Idle, running.throws PROVE D = {}
        OBVIOUS
      <4>2. ~ DropOldest
        BY <4>1 DEF LedgerInv, Mannered, BestEffort, MustAccept
      <4>3. ~ (Excess(1) > 0)
        BY <2>3, <4>2 DEF Admit, Shut
      <4>4. Excess(1) = 0
        BY <1>0, <4>3, RecordSets, SizesAssumption DEF Excess
      <4> QED BY <1>0, <3>1, <4>4, OldestNone
    <3>5. D \cap batch = {} \/ D = {} \/ running = Idle
      BY <3>2, <3>4 DEF LedgerInv
    <3>6. running = Idle => batch = {}
      BY DEF LedgerInv
    <3> QED BY <2>1, <2>3, <3>1, <3>2, <3>3, <3>4, <3>5, <3>6 DEF LedgerInv, Mannered, Settled
  <2> QED BY <1>2, <2>2, <2>3, SinkCallers
<1>3. CASE StartDrain
  <2>1. chain # <<>> /\ Head(chain) = chain[1] /\ 1 \in 1 .. Len(chain)
    BY <1>0, <1>3 DEF StartDrain
  <2>2. Head(chain) \in Task /\ Mannered(Head(chain), closed)
    BY <1>0, <2>1 DEF LedgerInv
  <2>3. /\ queue' \cup batch' \subseteq queue /\ reached' = {}
        /\ running' # Idle =>
             /\ running' = Head(chain)
             /\ IF Head(chain).throws THEN batch' \subseteq queue' ELSE queue' \cap batch' = {}
        /\ running' = Idle => batch' = {}
    BY <1>0, <1>3, <2>2, LoopWaits DEF StartDrain
  <2>4. UNCHANGED <<closed, stray, received, delivered, evicted, exhausted>> /\ Accepted' = Accepted
    BY <1>3, DrainCallers DEF StartDrain, ledger
  <2>5. \A i \in 1 .. Len(chain') : Mannered(chain'[i], closed')
    BY <1>0, <1>3, <2>1, <2>4, ChainTail DEF StartDrain, LedgerInv, Mannered
  <2> QED BY <2>2, <2>3, <2>4, <2>5 DEF LedgerInv, Mannered, Settled
<1>4. CASE BatchSucceeds
  <2>. DEFINE left == IF running.throws THEN queue \ batch ELSE queue
  <2>1. /\ running \in Task /\ running # Idle /\ Mannered(running, closed) /\ left \in SUBSET Records
        /\ left \cap batch = {}
    BY <1>0, <1>4 DEF BatchSucceeds, LedgerInv
  <2>2. Loop(left, running, timer, late) \/ (Leave(left) /\ Return(left, running, timer))
    BY <1>4 DEF BatchSucceeds
  <2>3. /\ queue' \cup batch' \subseteq left /\ reached' = {}
        /\ running' # Idle =>
             /\ running' = running
             /\ IF running.throws THEN batch' \subseteq queue' ELSE queue' \cap batch' = {}
        /\ running' = Idle => batch' = {}
    <3>1. CASE Loop(left, running, timer, late)
      BY <2>1, <3>1, LoopWaits
    <3>2. CASE Leave(left) /\ Return(left, running, timer)
      BY <3>2 DEF Leave, Return, Settle
    <3> QED BY <2>2, <3>1, <3>2
  <2>4. /\ UNCHANGED <<chain, closed, stray, received, evicted, exhausted>>
        /\ delivered' = delivered \cup batch /\ reached = batch /\ Accepted' = Accepted
    BY <1>4, DrainCallers DEF BatchSucceeds, CallResolved
  <2>5. left \subseteq queue
    OBVIOUS
  <2> QED BY <2>1, <2>3, <2>4, <2>5 DEF LedgerInv, Mannered, Settled
<1>5. CASE HandlerRejects \/ HandlerTimesOut
  <2>1. /\ running # Idle /\ BatchFails /\ Accepted' = Accepted
        /\ UNCHANGED <<chain, closed, received, delivered>>
    BY <1>5, DrainCallers DEF HandlerRejects, HandlerTimesOut
  <2>2. /\ queue' \cup batch' \subseteq queue \cup batch /\ reached' = {}
        /\ running' # Idle =>
             /\ running' = running
             /\ IF running.throws THEN batch' \subseteq queue' ELSE queue' \cap batch' = {}
        /\ running' = Idle => batch' = {}
    BY <2>1, FailureLoses
  <2>3. PICK D \in SUBSET (queue \cup batch) :
          /\ evicted' \cup exhausted' = evicted \cup exhausted \cup D
          /\ D \cap (queue' \cup batch') = {}
    BY <2>1, FailureLoses
  <2>4. \A r \in Records : stray'[r] > 0 => r \in Accepted
    <3>1. \A r \in Records : stray'[r] = stray[r] \/ r \in batch
      BY <1>0, <1>5 DEF HandlerRejects, HandlerTimesOut
    <3> QED BY <3>1 DEF LedgerInv
  <2>5. Settled' = Settled \cup D
    BY <2>1, <2>3 DEF Settled
  <2> QED BY <2>1, <2>2, <2>3, <2>4, <2>5 DEF LedgerInv, Mannered
<1>6. ASSUME NEW force \in BOOLEAN, Flush(force) \/ Close(force)
      PROVE  LedgerInv'
  <2>1. /\ closed => closed'
        /\ UNCHANGED <<queue, batch, reached, stray, received, outcome, running,
                       delivered, evicted, exhausted>>
    BY <1>6 DEF Flush, Close, storage, handler, ledger
  <2>2. \E t \in Task : chain' = Append(chain, t) /\ Mannered(t, closed')
    <3>1. CASE Flush(force)
      <4>. DEFINE t == [caller |-> NoCaller, force |-> force, throws |-> MustAccept]
      <4>1. t \in Task /\ t.throws = MustAccept
        BY DEF Task, MustAccept
      <4> QED BY <3>1, <4>1 DEF Flush, Mannered
    <3>2. CASE Close(force)
      <4>. DEFINE t == [caller |-> NoCaller, force |-> force, throws |-> FALSE]
      <4>1. t \in Task /\ ~ t.throws
        BY DEF Task
      <4> QED BY <3>2, <4>1 DEF Close, Mannered
    <3> QED BY <1>6, <3>1, <3>2
  <2>3. \A i \in 1 .. Len(chain') : Mannered(chain'[i], closed')
    <3>1. PICK t \in Task : chain' = Append(chain, t) /\ Mannered(t, closed')
      BY <2>2
    <3>2. ASSUME NEW i \in 1 .. Len(chain') PROVE Mannered(chain'[i], closed')
      <4>1. chain'[i] = t \/ (i \in 1 .. Len(chain) /\ chain'[i] = chain[i])
        BY <1>0, <3>1, <3>2, ChainAppend
      <4> QED BY <2>1, <3>1, <4>1 DEF LedgerInv, Mannered
    <3> QED BY <3>2
  <2> QED BY <2>1, <2>3 DEF LedgerInv, Mannered, Settled, Accepted
<1>7. CASE TimerFires
  <2>. DEFINE t == [caller |-> NoCaller, force |-> FALSE, throws |-> MustAccept]
  <2>1. t \in Task /\ t.throws = MustAccept
    BY DEF Task, MustAccept
  <2>2. /\ chain' = Append(chain, t) /\ closed' = closed
        /\ UNCHANGED <<queue, batch, reached, stray, received, outcome, running,
                       delivered, evicted, exhausted>>
    BY <1>7 DEF TimerFires, storage, handler, ledger
  <2>3. \A i \in 1 .. Len(chain') : Mannered(chain'[i], closed')
    BY <1>1, <2>1, <2>2 DEF Mannered
  <2> QED BY <2>2, <2>3 DEF LedgerInv, Mannered, Settled, Accepted
<1>8. ASSUME NEW s \in Records, Arrive(s) \/ ArriveLate(s)
      PROVE  LedgerInv'
  <2>1. /\ reached' \subseteq reached \cup {s}
        /\ received' = [received EXCEPT ![s] = @ + 1]
        /\ \A r \in Records : stray'[r] > 0 => stray[r] > 0
        /\ UNCHANGED <<queue, batch, chain, closed, running, outcome, delivered, evicted, exhausted>>
    BY <1>0, <1>8 DEF Arrive, ArriveLate, storage, scheduling, ledger
  <2>2. \A r \in Records : received[r] > 0 \/ r = s => received'[r] > 0
    BY <1>0, <2>1
  <2>3. reached \cup delivered \subseteq Records
    BY <1>0 DEF LedgerInv, Settled, Accepted
  <2> QED BY <2>1, <2>2, <2>3 DEF LedgerInv, Mannered, Settled, Accepted
<1>9. CASE DeadlinePasses \/ (\E r \in Records : BackoffElapses(r)) \/ UNCHANGED vars
  <2>1. UNCHANGED <<queue, batch, reached, stray, received, chain, closed, running, outcome,
                    delivered, evicted, exhausted>>
    BY <1>9 DEF DeadlinePasses, BackoffElapses, vars, storage, scheduling, handler, ledger
  <2> QED BY <2>1 DEF LedgerInv, Mannered, Settled, Accepted
<1> QED BY <1>2, <1>3, <1>4, <1>5, <1>6, <1>7, <1>8, <1>9 DEF Next

\* The invariant of the sink's accounts, whatever the policy.
LEMMA LedgerInvariant ==
  ASSUME BestEffort \/ ~ DropOldest
  PROVE  Spec => []LedgerInv
<1>1. Init => LedgerInv
  BY DEF Init, LedgerInv, Settled
<1> QED BY <1>1, TypeCorrect, CallersKnownCorrect, LedgerStep, PTL DEF Spec

-----------------------------------------------------------------------------
(* The refinement                                                          *)

\* Where a record stands is settled by who called, who was let in, and the
\* counters.
LEMMA FateOf ==
  ASSUME TypeOK, LedgerInv, NEW r \in Records
  PROVE  /\ r \in queue \cup batch => Fate[r] = "pending"
         /\ Fate[r] = "pending" <=> r \in Accepted \ Settled
         /\ Fate[r] = "new" <=> outcome[r] = "none"
         /\ r \in delivered => Fate[r] = "delivered"
         /\ r \in Accepted => Fate[r] \notin {"new", "refused"}
BY DEF Fate, LedgerInv, Accepted, Settled

\* A step of a drain, seen from the ledger: it delivers records that arrived, or
\* drops some where it may, or neither.
LEMMA LedgerDrain ==
  ASSUME TypeOK, LedgerInv, UNCHANGED <<received, closed>>,
         \A r \in Records \ Accepted : outcome'[r] = outcome[r], Accepted' = Accepted,
         NEW S \in SUBSET (queue \cup batch),
         \/ /\ \A r \in S : received[r] > 0
            /\ delivered' = delivered \cup S /\ UNCHANGED <<evicted, exhausted>>
         \/ /\ S # {} => BestEffort \/ closed
            /\ evicted' \cup exhausted' = evicted \cup exhausted \cup S
            /\ UNCHANGED delivered
  PROVE  [Ledger!Next]_(Ledger!ledgerVars)
<1>1. S \in SUBSET Records /\ S \subseteq Ledger!Pending
  BY FateOf DEF Ledger!Pending, TypeOK
<1>2. \A r \in Records \ S : Fate'[r] = Fate[r]
  BY DEF Fate, Accepted
<1>3. \A r \in S : r \in Accepted /\ r \notin Settled
  BY DEF LedgerInv
<1>4. CASE /\ \A r \in S : received[r] > 0
           /\ delivered' = delivered \cup S /\ UNCHANGED <<evicted, exhausted>>
  <2>1. Fate' = Ledger!Moved(S, "delivered")
    BY <1>1, <1>2, <1>3, <1>4 DEF Fate, Ledger!Moved, Accepted
  <2> QED BY <1>1, <1>4, <2>1 DEF Ledger!Next, Ledger!Deliver
<1>5. CASE /\ S # {} => BestEffort \/ closed
           /\ evicted' \cup exhausted' = evicted \cup exhausted \cup S
           /\ UNCHANGED delivered
  <2>1. Fate' = Ledger!Moved(S, "dropped")
    BY <1>1, <1>2, <1>3, <1>5 DEF Fate, Ledger!Moved, Accepted, Settled
  <2>2. CASE S = {}
    <3>1. Fate' = Fate
      BY <1>2, <2>2 DEF Fate
    <3> QED BY <3>1 DEF Ledger!ledgerVars
  <2>3. CASE S # {}
    BY <1>1, <1>5, <2>1, <2>3 DEF Ledger!Next, Ledger!Drop
  <2> QED BY <2>2, <2>3
<1> QED BY <1>4, <1>5

\* A step that leaves calls, counters and arrivals alone is none of the ledger.
LEMMA LedgerRests ==
  ASSUME UNCHANGED <<outcome, delivered, evicted, exhausted, received, closed>>
  PROVE  UNCHANGED (Ledger!ledgerVars)
BY DEF Ledger!ledgerVars, Fate

\* Every step of the sink is one of the ledger, or none.
LEMMA LedgerMaps ==
  ASSUME BestEffort \/ ~ DropOldest
  PROVE  /\ TypeOK /\ QueueBounded /\ CallersKnown /\ LedgerInv /\ [Next]_vars
         => [Ledger!Next]_(Ledger!ledgerVars)
<1> SUFFICES ASSUME TypeOK, QueueBounded, CallersKnown, LedgerInv, [Next]_vars
             PROVE  [Ledger!Next]_(Ledger!ledgerVars)
  OBVIOUS
<1>0. /\ queue \in SUBSET Records /\ batch \in SUBSET Records /\ reached \subseteq batch
      /\ outcome \in [Records -> Outcomes]
  BY DEF TypeOK
<1>1. CASE Sink
  <2>. DEFINE r == calls + 1
  <2>1. /\ r \in Records /\ Fate[r] = "new" /\ r \notin Accepted
        /\ UNCHANGED received
    BY <1>1, SinkCallers DEF Sink, Fate, Accepted, handler
  <2>2. \A q \in Records \ {r} : outcome'[q] = outcome[q]
    BY <1>0, <1>1 DEF Sink, Refuse, Admit
  <2>3. CASE Refuse(r)
    <3>1. UNCHANGED <<closed, delivered, evicted, exhausted>> /\ outcome'[r] = "refused"
      BY <1>0, <2>1, <2>3 DEF Refuse, scheduling, ledger
    <3>2. Fate' = Ledger!Moved({r}, "refused")
      BY <2>1, <2>2, <3>1 DEF Fate, Ledger!Moved
    <3> QED BY <2>1, <3>1, <3>2 DEF Ledger!Next, Ledger!Refuse
  <2>4. CASE Admit(r)
    <3>1. /\ ~ closed /\ UNCHANGED <<closed, delivered, exhausted>>
          /\ outcome'[r] \in {"pending", "returned"}
      BY <1>0, <2>1, <2>4 DEF Admit, Shut
    <3>2. PICK D \in Oldest(Excess(1), queue) : evicted' = evicted \cup D
      BY <2>4 DEF Admit, Enqueue
    <3>3. D \in SUBSET queue /\ Cardinality(D) = Excess(1)
      BY <3>2, OldestInside, OldestSize
    <3>4. Cardinality(queue) \in Nat /\ Cardinality(queue) <= MaxQueueSize /\ MaxQueueSize \in Nat
      BY <1>0, RecordSets, SizesAssumption DEF QueueBounded
    <3>5. \A c, d \in D : c = d
      <4>1. Cardinality(D) \in Nat /\ Cardinality(D) <= 1 /\ IsFiniteSet(D)
        BY <1>0, <3>3, <3>4, RecordSets DEF Excess
      <4> SUFFICES ASSUME NEW c \in D PROVE D \ {c} = {}
        OBVIOUS
      <4>2. IsFiniteSet(D \ {c}) /\ Cardinality(D \ {c}) = Cardinality(D) - 1
        BY <4>1, FS_RemoveElement
      <4>3. Cardinality(D \ {c}) \in Nat
        BY <4>2, FS_CardinalityType
      <4> QED BY <4>1, <4>2, <4>3, FS_EmptySet
    <3>6. D # {} => BestEffort
      <4>1. SUFFICES ASSUME ~ DropOldest PROVE D = {}
        OBVIOUS
      <4>2. ~ (Excess(1) > 0)
        BY <2>4, <4>1 DEF Admit, Shut
      <4>3. Excess(1) = 0
        BY <3>4, <4>2 DEF Excess
      <4> QED BY <1>0, <3>2, <4>3, OldestNone
    <3>7. D \subseteq Ledger!Pending /\ D \in SUBSET Records
      BY <1>0, <3>3, FateOf DEF Ledger!Pending
    <3>8. r \notin Settled /\ r \notin D
      BY <2>1, <3>3 DEF LedgerInv
    <3>9. Fate' = [x \in Records |-> IF x = r THEN "pending" ELSE Ledger!Moved(D, "dropped")[x]]
      <4>1. Fate'[r] = "pending"
        BY <2>1, <3>1, <3>2, <3>8 DEF Fate, Settled
      <4>2. ASSUME NEW x \in D PROVE Fate'[x] = "dropped"
        <5>1. x \in Accepted /\ x \notin Settled /\ x # r /\ x \in Records
          BY <1>0, <2>1, <3>3, <4>2 DEF LedgerInv
        <5> QED BY <2>2, <3>1, <3>2, <4>2, <5>1 DEF Fate, Accepted, Settled
      <4>3. ASSUME NEW x \in Records \ (D \cup {r}) PROVE Fate'[x] = Fate[x]
        BY <2>2, <3>1, <3>2, <4>3 DEF Fate
      <4>4. Fate' = [x \in Records |-> Fate'[x]]
        BY DEF Fate
      <4> QED BY <4>1, <4>2, <4>3, <4>4 DEF Ledger!Moved
    <3>10. Ledger!Accept(r, D)
      BY <2>1, <3>1, <3>5, <3>6, <3>7, <3>9 DEF Ledger!Accept
    <3> QED BY <2>1, <3>7, <3>10 DEF Ledger!Next
  <2> QED BY <1>1, <2>3, <2>4 DEF Sink
<1>2. CASE StartDrain
  <2>1. UNCHANGED <<received, closed, delivered, evicted, exhausted>>
    BY <1>2 DEF StartDrain, ledger
  <2>2. {} \in SUBSET (queue \cup batch) /\ evicted' \cup exhausted' = evicted \cup exhausted \cup {}
    BY <2>1
  <2> QED BY <1>2, <2>1, <2>2, DrainCallers, OthersSeeNothing, LedgerDrain
<1>3. CASE BatchSucceeds
  <2>1. /\ UNCHANGED <<received, closed, evicted, exhausted>> /\ delivered' = delivered \cup batch
        /\ reached = batch
    BY <1>3 DEF BatchSucceeds, CallResolved
  <2>2. \A r \in batch : received[r] > 0
    BY <2>1 DEF LedgerInv
  <2> QED BY <1>3, <2>1, <2>2, DrainCallers, OthersSeeNothing, LedgerDrain
<1>4. CASE HandlerRejects \/ HandlerTimesOut
  <2>1. running # Idle /\ BatchFails /\ UNCHANGED <<received, closed, delivered>>
    BY <1>4 DEF HandlerRejects, HandlerTimesOut
  <2>2. PICK D \in SUBSET (queue \cup batch) :
          /\ evicted' \cup exhausted' = evicted \cup exhausted \cup D
          /\ D # {} => BestEffort \/ closed
    BY <2>1, FailureLoses
  <2> QED BY <1>4, <2>1, <2>2, DrainCallers, OthersSeeNothing, LedgerDrain
<1>5. ASSUME NEW force \in BOOLEAN, Close(force)
      PROVE  [Ledger!Next]_(Ledger!ledgerVars)
  <2>1. closed' = TRUE /\ UNCHANGED <<received, outcome, delivered, evicted, exhausted>>
    BY <1>5 DEF Close, handler, ledger
  <2>2. Fate' = Fate
    BY <2>1 DEF Fate
  <2> QED BY <2>1, <2>2 DEF Ledger!Next, Ledger!CloseLedger
<1>6. ASSUME NEW s \in Records, Arrive(s) \/ ArriveLate(s)
      PROVE  [Ledger!Next]_(Ledger!ledgerVars)
  <2>1. /\ received' = [received EXCEPT ![s] = @ + 1]
        /\ UNCHANGED <<outcome, closed, delivered, evicted, exhausted>>
        /\ s \in batch \/ stray[s] > 0
    BY <1>6 DEF Arrive, ArriveLate, scheduling, ledger
  <2>2. s \in Accepted /\ Fate' = Fate
    BY <2>1 DEF LedgerInv, Fate
  <2>3. Fate[s] \notin {"new", "refused"}
    BY <2>2, FateOf
  <2> QED BY <2>1, <2>2, <2>3 DEF Ledger!Next, Ledger!Arrive
<1>7. CASE \/ \E force \in BOOLEAN : Flush(force)
           \/ TimerFires \/ DeadlinePasses
           \/ \E r \in Records : BackoffElapses(r)
           \/ UNCHANGED vars
  <2>1. UNCHANGED <<outcome, delivered, evicted, exhausted, received, closed>>
    BY <1>7 DEF Flush, TimerFires, DeadlinePasses, BackoffElapses, vars, scheduling, handler, ledger
  <2> QED BY <2>1, LedgerRests
<1> QED BY <1>1, <1>2, <1>3, <1>4, <1>5, <1>6, <1>7 DEF Next

\* The sink implements the delivery ledger, for all limits: a record counts as
\* delivered only after it arrived, is settled once, and is dropped by an open sink
\* only if it is best-effort.
THEOREM ImplementsLedgerCorrect ==
  ASSUME BestEffort \/ ~ DropOldest
  PROVE  Spec => ImplementsLedger
<1>1. Init => Ledger!Init
  BY DEF Init, Ledger!Init, Fate
<1> QED BY <1>1, TypeCorrect, QueueBoundedCorrect, CallersKnownCorrect, LedgerInvariant,
           LedgerMaps, PTL DEF Spec, ImplementsLedger, Ledger!Spec
=============================================================================
