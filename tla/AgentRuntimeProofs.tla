------------------------- MODULE AgentRuntimeProofs -------------------------
(***************************************************************************)
(* Safety of the agent runtime for every limit: the invariants that the    *)
(* runs check on small limits follow from one inductive invariant, which   *)
(* says for each await of the run what has been settled by then.           *)
(***************************************************************************)
EXTENDS AgentRuntime, TLAPS

\* The awaits of a turn that is not in the transcript yet.
InTurn == {"turn_starting", "thinking", "preparing", "executing", "cleaning", "abandoning"}

\* The run is failing, or has failed.
Failing == {"failing", "failed", "bus_failed"}

Inv ==
  /\ TypeOK
  /\ pc \in InTurn => Len(transcript) < MaxTurns
  /\ payload => pc \in {"executing", "cleaning", "abandoning"}
  /\ mutated # receipts => pc \in Failing \cup {"abandoning"}
  /\ spent > MaxBudget => pc \in Failing
  /\ fixRounds > MaxRounds => pc \in Failing
  /\ "closeout_ready" \in recorded => pc = "ready"

LEMMA InitInv == Init => Inv
<1> SUFFICES ASSUME Init PROVE Inv
  OBVIOUS
<1>1. queue \in Seq(Roles) /\ queue # <<>>
  <2>1. Order \in Seq(Roles) /\ Order # <<>>
    BY DEF Order, Roles
  <2> QED BY <2>1 DEF Init
<1>2. status \in [Roles -> Statuses \cup {"none"}]
  BY DEF Init
<1>3. transcript \in Seq([role : Roles, status : Statuses]) /\ Len(transcript) = 0
  BY DEF Init
<1>4. TypeOK
  <2>1. pc \in Awaits \cup Ended
    BY DEF Init, Awaits, BusAwaits
  <2>2. todo \in 0 .. MaxActions /\ cost \in 0 .. MaxCost /\ mutated \in Nat /\ receipts \in Nat
    BY LimitsAssumption DEF Init
  <2>3. spent \in 0 .. MaxBudget + MaxCost /\ fixRounds \in 0 .. MaxRounds + 1
    BY LimitsAssumption DEF Init
  <2>4. execution \in BOOLEAN /\ payload \in BOOLEAN /\ aborted \in BOOLEAN
    BY DEF Init
  <2>5. recorded \subseteq {"started", "review_passed", "red_team_passed",
                           "objection_raised", "closeout_ready", "failed_closed"}
    BY DEF Init
  <2>6. Len(transcript) <= MaxTurns
    BY <1>3, LimitsAssumption
  <2> QED BY <1>1, <1>2, <1>3, <2>1, <2>2, <2>3, <2>4, <2>5, <2>6 DEF TypeOK
<1> QED BY <1>3, <1>4, LimitsAssumption DEF Init, Inv, InTurn

\* The loop head keeps the queue a sequence of roles, and awaits the bus or ends.
LEMMA LoopEffect ==
  ASSUME NEW q \in Seq(Roles), Loop(q)
  PROVE  /\ queue' = q
         /\ pc' \in {"closing", "failing", "not_ready", "timed_out", "turn_starting"}
         /\ pc' = "turn_starting" => q # <<>> /\ Len(transcript) < MaxTurns
BY DEF Loop, Decide, TurnsLeft

\* The accounting of a turn that fits in keeps the budget unless the run fails.
LEMMA AccountEffect ==
  ASSUME Inv, pc \in InTurn, NEW role \in Roles, NEW st \in Statuses,
         NEW c \in 0 .. MaxCost, Account(role, st, c)
  PROVE  /\ spent' \in 0 .. MaxBudget + MaxCost
         /\ pc' \in {"failing", "sending"}
         /\ pc' = "sending" => spent' <= MaxBudget
         /\ transcript' \in Seq([role : Roles, status : Statuses])
         /\ Len(transcript') <= MaxTurns
<1>1. Len(transcript) < MaxTurns /\ spent <= MaxBudget /\ spent \in Nat
  BY LimitsAssumption DEF Inv, InTurn, Failing, TypeOK
<1>2. transcript \in Seq([role : Roles, status : Statuses])
  BY DEF Inv, TypeOK
<1>3. [role |-> role, status |-> st] \in [role : Roles, status : Statuses]
  OBVIOUS
<1>4. /\ Append(transcript, [role |-> role, status |-> st]) \in Seq([role : Roles, status : Statuses])
      /\ Len(Append(transcript, [role |-> role, status |-> st])) = Len(transcript) + 1
  BY <1>2, <1>3
<1>5. Len(transcript) \in Nat
  BY <1>2
<1>6. spent' \in 0 .. MaxBudget + MaxCost
  BY <1>1, LimitsAssumption DEF Account
<1>7. CASE spent + c > MaxBudget
  <2>1. pc' = "failing" /\ transcript' = transcript
    BY <1>1, <1>7, LimitsAssumption DEF Account
  <2>2. Len(transcript') <= MaxTurns
    BY <1>1, <1>5, <2>1, LimitsAssumption
  <2> QED BY <1>2, <1>6, <2>1, <2>2
<1>8. CASE spent + c <= MaxBudget
  <2>1. /\ pc' = "sending" /\ spent' = spent + c
        /\ transcript' = Append(transcript, [role |-> role, status |-> st])
    BY <1>1, <1>8, LimitsAssumption DEF Account
  <2>2. Len(transcript') <= MaxTurns
    BY <1>1, <1>4, <1>5, <2>1, LimitsAssumption
  <2>3. spent' <= MaxBudget
    BY <1>8, <2>1
  <2> QED BY <1>4, <1>6, <2>1, <2>2, <2>3
<1> QED BY <1>1, <1>7, <1>8, LimitsAssumption

LEMMA Step == Inv /\ [Next]_vars => Inv'
<1> SUFFICES ASSUME Inv, [Next]_vars PROVE Inv'
  OBVIOUS
<1> USE LimitsAssumption
<1>1. CASE Start
  <2>1. queue \in Seq(Roles) /\ Loop(queue)
    BY <1>1 DEF Start, Inv, TypeOK
  <2> QED BY <1>1, <2>1, LoopEffect
      DEF Start, Inv, TypeOK, Record, config, work, Awaits, BusAwaits, Ended, InTurn, Failing
<1>2. CASE BeginTurn
  BY <1>2 DEF BeginTurn, Inv, TypeOK, config, loop, work, Awaits, BusAwaits, Ended, InTurn, Failing
<1>3. ASSUME NEW st \in Statuses, NEW c \in 0 .. MaxCost, NEW n \in 0 .. MaxActions, Answer(st, c, n)
      PROVE  Inv'
  <2>1. pc = "thinking" /\ queue \in Seq(Roles) /\ queue # <<>> /\ Role \in Roles /\ pc \in InTurn
    BY <1>3 DEF Answer, Inv, TypeOK, Awaits, BusAwaits, InTurn, Role
  <2>2. status' \in [Roles -> Statuses \cup {"none"}]
    BY <1>3, <2>1 DEF Answer, Inv, TypeOK
  <2>3. CASE Account(Role, st, c) /\ UNCHANGED <<todo, cost>>
    <3>1. /\ spent' \in 0 .. MaxBudget + MaxCost
          /\ pc' \in {"failing", "sending"}
          /\ pc' = "sending" => spent' <= MaxBudget
          /\ transcript' \in Seq([role : Roles, status : Statuses])
          /\ Len(transcript') <= MaxTurns
      BY <2>1, <2>3, AccountEffect
    <3>2. TypeOK'
      BY <1>3, <2>1, <2>2, <2>3, <3>1
      DEF Answer, Inv, TypeOK, config, Awaits, BusAwaits, Ended
    <3>3. spent' > MaxBudget => pc' = "failing"
      BY <3>1
    <3> QED BY <1>3, <2>1, <3>1, <3>2, <3>3 DEF Answer, Inv, config, InTurn, Failing
  <2>4. CASE pc' = "failing" /\ UNCHANGED <<todo, cost, spent, transcript>>
    BY <1>3, <2>1, <2>2, <2>4
    DEF Answer, Inv, TypeOK, config, Awaits, BusAwaits, Ended, InTurn, Failing
  <2>5. CASE pc' = "preparing" /\ todo' = n /\ cost' = c /\ UNCHANGED <<spent, transcript>>
    BY <1>3, <2>1, <2>2, <2>5
    DEF Answer, Inv, TypeOK, config, Awaits, BusAwaits, Ended, InTurn, Failing
  <2> QED BY <1>3, <2>3, <2>4, <2>5 DEF Answer
<1>4. CASE AnswerFails
  BY <1>4 DEF AnswerFails, Inv, TypeOK, config, loop, work, Awaits, BusAwaits, Ended, InTurn, Failing
<1>5. CASE Prepare
  <2>1. TypeOK'
    BY <1>5 DEF Prepare, Inv, TypeOK, config, loop, Awaits, BusAwaits, Ended
  <2> QED BY <1>5, <2>1 DEF Prepare, Inv, config, loop, InTurn, Failing
<1>6. CASE Execute
  BY <1>6 DEF Execute, Rejected, Inv, TypeOK, config, loop, Awaits, BusAwaits, Ended, InTurn, Failing
<1>7. CASE Clean
  <2>1. pc \in InTurn
    BY <1>7 DEF Clean, InTurn
  <2>2. CASE pc = "abandoning" /\ pc' = "failing" /\ UNCHANGED <<todo, cost, spent, transcript>>
    BY <1>7, <2>2 DEF Clean, Inv, TypeOK, config, Awaits, BusAwaits, Ended, InTurn, Failing
  <2>3. CASE /\ pc = "cleaning" /\ todo > 1 /\ pc' = "preparing" /\ todo' = todo - 1
             /\ UNCHANGED <<cost, spent, transcript>>
    <3>1. todo' \in 0 .. MaxActions
      BY <2>3 DEF Inv, TypeOK
    <3>2. TypeOK'
      BY <1>7, <2>3, <3>1 DEF Clean, Inv, TypeOK, config, Awaits, BusAwaits, Ended
    <3> QED BY <1>7, <2>3, <3>2 DEF Clean, Inv, config, InTurn, Failing
  <2>4. CASE pc = "cleaning" /\ Account("coder", "result", cost) /\ todo' = 0 /\ cost' = 0
    <3>1. cost \in 0 .. MaxCost /\ "coder" \in Roles /\ "result" \in Statuses
      BY DEF Inv, TypeOK, Roles, Statuses
    <3>2. /\ spent' \in 0 .. MaxBudget + MaxCost
          /\ pc' \in {"failing", "sending"}
          /\ pc' = "sending" => spent' <= MaxBudget
          /\ transcript' \in Seq([role : Roles, status : Statuses])
          /\ Len(transcript') <= MaxTurns
      BY <2>1, <2>4, <3>1, AccountEffect
    <3>3. todo' \in 0 .. MaxActions /\ cost' \in 0 .. MaxCost
      BY <2>4
    <3>4. TypeOK'
      BY <1>7, <2>4, <3>2, <3>3 DEF Clean, Inv, TypeOK, config, Awaits, BusAwaits, Ended
    <3>5. spent' > MaxBudget => pc' = "failing"
      BY <3>2
    <3> QED BY <1>7, <2>4, <3>2, <3>4, <3>5 DEF Clean, Inv, config, InTurn, Failing
  <2> QED BY <1>7, <2>2, <2>3, <2>4 DEF Clean
<1>8. CASE Send
  BY <1>8 DEF Send, Inv, TypeOK, config, loop, work, Awaits, BusAwaits, Ended, InTurn, Failing
<1>9. CASE CompleteTurn
  <2>1. queue \in Seq(Roles) /\ queue # <<>> /\ Tail(queue) \in Seq(Roles)
    BY <1>9 DEF CompleteTurn, Inv, TypeOK, Awaits, BusAwaits
  <2>2. CASE pc' = "judging" /\ UNCHANGED queue
    BY <1>9, <2>1, <2>2
    DEF CompleteTurn, Inv, TypeOK, config, work, Awaits, BusAwaits, Ended, InTurn, Failing
  <2>3. CASE Loop(Tail(queue))
    BY <1>9, <2>1, <2>3, LoopEffect
    DEF CompleteTurn, Inv, TypeOK, config, work, Awaits, BusAwaits, Ended, InTurn, Failing
  <2> QED BY <1>9, <2>2, <2>3 DEF CompleteTurn
<1>10. CASE Pass
  <2>1. queue \in Seq(Roles) /\ queue # <<>> /\ Tail(queue) \in Seq(Roles)
    BY <1>10 DEF Pass, Inv, TypeOK, Awaits, BusAwaits
  <2> QED BY <1>10, <2>1, LoopEffect
      DEF Pass, Inv, TypeOK, Record, config, work, Awaits, BusAwaits, Ended, InTurn, Failing
<1>11. CASE Object
  <2>1. queue \in Seq(Roles) /\ queue # <<>> /\ Tail(queue) \in Seq(Roles) /\ FixQueue \in Seq(Roles)
    BY <1>11 DEF Object, Inv, TypeOK, Awaits, BusAwaits, FixQueue, Roles
  <2>2. CASE Loop(Tail(queue)) /\ UNCHANGED fixRounds
    BY <1>11, <2>1, <2>2, LoopEffect
    DEF Object, Inv, TypeOK, Record, config, work, Awaits, BusAwaits, Ended, InTurn, Failing
  <2>3. CASE fixRounds' = fixRounds + 1 /\ pc' = "failing" /\ UNCHANGED queue
    BY <1>11, <2>1, <2>3
    DEF Object, Inv, TypeOK, Record, config, work, Awaits, BusAwaits, Ended, InTurn, Failing
  <2>4. CASE fixRounds' = fixRounds + 1 /\ fixRounds + 1 <= MaxRounds /\ Loop(FixQueue)
    BY <1>11, <2>1, <2>4, LoopEffect
    DEF Object, Inv, TypeOK, Record, config, work, Awaits, BusAwaits, Ended, InTurn, Failing
  <2> QED BY <1>11, <2>2, <2>3, <2>4 DEF Object
<1>12. CASE CloseReady
  BY <1>12 DEF CloseReady, Inv, TypeOK, Record, config, loop, work, Awaits, BusAwaits, Ended, InTurn, Failing
<1>13. CASE FailClosed
  BY <1>13 DEF FailClosed, Inv, TypeOK, Record, config, loop, work, Awaits, BusAwaits, Ended, InTurn, Failing
<1>14. CASE BusFails
  BY <1>14 DEF BusFails, Inv, TypeOK, config, loop, work, Awaits, BusAwaits, Ended, InTurn, Failing
<1>15. CASE Abort
  BY <1>15 DEF Abort, OnAbort, Inv, TypeOK, config, loop, work, Awaits, BusAwaits, Ended, InTurn, Failing
<1>16. CASE UNCHANGED vars
  BY <1>16 DEF Inv, TypeOK, vars, config, loop, work
<1> QED BY <1>1, <1>2, <1>3, <1>4, <1>5, <1>6, <1>7, <1>8, <1>9, <1>10, <1>11, <1>12,
           <1>13, <1>14, <1>15, <1>16 DEF Next

LEMMA Invariance == Spec => []Inv
BY InitInv, Step, PTL DEF Spec

\* Every state of every run has its type: in particular no run has more turns
\* than maxTurns in its transcript.
THEOREM RuntimeTypeCorrect == Spec => []TypeOK
<1>1. Inv => TypeOK
  BY DEF Inv
<1> QED BY <1>1, Invariance, PTL

\* Whatever fails among several actions, a ready run has a receipt for each
\* action that the authority executed in it.
THEOREM ReadyIsReceiptedCorrect == Spec => []ReadyIsReceipted
<1>1. Inv => ReadyIsReceipted
  BY DEF Inv, ReadyIsReceipted, Failing
<1> QED BY <1>1, Invariance, PTL

\* No end of a run leaves an action payload behind.
THEOREM NoPayloadLeftCorrect == Spec => []NoPayloadLeft
<1>1. Inv => NoPayloadLeft
  BY DEF Inv, NoPayloadLeft, Ended
<1> QED BY <1>1, Invariance, PTL

\* A run announced as ready is ready, within its budget and its fix rounds.
THEOREM AnnouncedReadyCorrect == Spec => []AnnouncedReady
<1>1. Inv => AnnouncedReady
  BY LimitsAssumption DEF Inv, AnnouncedReady, Failing, TypeOK
<1> QED BY <1>1, Invariance, PTL
-----------------------------------------------------------------------------
(* What a ready run rests on.  The queue is always a rest of the order of   *)
(* the roles, and the transcript ends with the turns of the roles that are  *)
(* in front of it, with the verdicts that the run still remembers.          *)

Rests == {Order, FixQueue, <<"reviewer", "red_team", "closeout">>,
          <<"red_team", "closeout">>, <<"closeout">>, <<>>}

\* The k-th turn from the end is that of the role, with its last status.
Turn(k, role) ==
  /\ Len(transcript) > k
  /\ transcript[Len(transcript) - k] = [role |-> role, status |-> status[role]]

\* What the transcript ends with when q is what is left of the queue.
Behind(q) ==
  /\ q = <<"red_team", "closeout">> => Turn(0, "reviewer")
  /\ q = <<"closeout">> => Turn(1, "reviewer") /\ Turn(0, "red_team")
  /\ q = <<>> => Turn(2, "reviewer") /\ Turn(1, "red_team") /\ Turn(0, "closeout")

Acting    == {"preparing", "executing", "cleaning", "abandoning"}
AfterTurn == {"sending", "completing", "judging"}

ReviewInv ==
  /\ queue \in Rests
  /\ pc \in InTurn \cup {"starting"} => Behind(queue)
  /\ pc \in Acting => Role = "coder"
  /\ pc \in AfterTurn => Behind(Tail(queue))
  /\ pc \in {"closing", "ready"} => Behind(<<>>) /\ status["closeout"] = "ready" /\ GatesPassed

\* Rests of different lengths differ.
LEMMA RestsDiffer ==
  /\ Len(Order) = 5 /\ Len(FixQueue) = 4
  /\ Len(<<"reviewer", "red_team", "closeout">>) = 3
  /\ Len(<<"red_team", "closeout">>) = 2 /\ Len(<<"closeout">>) = 1 /\ Len(<<>>) = 0
BY DEF Order, FixQueue

\* The roles in front of each rest, and what is left after them.
LEMMA RestsShrink ==
  ASSUME NEW q \in Rests, q # <<>>
  PROVE  /\ Tail(q) \in Rests
         /\ Head(q) = "reviewer" <=> Tail(q) = <<"red_team", "closeout">>
         /\ Head(q) = "red_team" <=> Tail(q) = <<"closeout">>
         /\ Head(q) = "closeout" <=> Tail(q) = <<>>
         /\ Head(q) = "red_team" <=> q = <<"red_team", "closeout">>
         /\ Head(q) = "closeout" <=> q = <<"closeout">>
<1>1. CASE q = Order
  <2>1. Head(q) = "commander" /\ Tail(q) = FixQueue
    BY <1>1 DEF Order, FixQueue
  <2> QED BY <1>1, <2>1, RestsDiffer DEF Rests
<1>2. CASE q = FixQueue
  <2>1. Head(q) = "coder" /\ Tail(q) = <<"reviewer", "red_team", "closeout">>
    BY <1>2 DEF FixQueue
  <2> QED BY <1>2, <2>1, RestsDiffer DEF Rests
<1>3. CASE q = <<"reviewer", "red_team", "closeout">>
  <2>1. Head(q) = "reviewer" /\ Tail(q) = <<"red_team", "closeout">>
    BY <1>3
  <2> QED BY <1>3, <2>1, RestsDiffer DEF Rests
<1>4. CASE q = <<"red_team", "closeout">>
  <2>1. Head(q) = "red_team" /\ Tail(q) = <<"closeout">>
    BY <1>4
  <2> QED BY <1>4, <2>1, RestsDiffer DEF Rests
<1>5. CASE q = <<"closeout">>
  <2>1. Head(q) = "closeout" /\ Tail(q) = <<>>
    BY <1>5
  <2> QED BY <1>5, <2>1, RestsDiffer DEF Rests
<1> QED BY <1>1, <1>2, <1>3, <1>4, <1>5 DEF Rests

\* The head of the loop keeps what is behind the rest it goes on with.
LEMMA LoopKeepsReview ==
  ASSUME NEW q \in Rests, Behind(q), Loop(q), UNCHANGED <<status, transcript>>
  PROVE  ReviewInv'
<1>1. Behind(q)'
  BY DEF Behind, Turn
<1>2. queue' = q
  BY DEF Loop
<1>3. pc' \in {"closing", "failing", "not_ready", "timed_out", "turn_starting"}
  BY DEF Loop, Decide
<1>4. pc' = "closing" => q = <<>> /\ status["closeout"] = "ready" /\ GatesPassed
  BY DEF Loop, Decide
<1>5. GatesPassed <=> GatesPassed'
  BY DEF GatesPassed
<1> QED BY <1>1, <1>2, <1>3, <1>4, <1>5 DEF ReviewInv, InTurn, Acting, AfterTurn

\* A turn that is added to the transcript comes behind those that it rests on.
LEMMA AccountKeepsReview ==
  ASSUME Inv, ReviewInv, pc \in InTurn, queue # <<>>, queue' = queue,
         NEW st \in Statuses, NEW c \in 0 .. MaxCost, Account(Role, st, c),
         \/ status' = [status EXCEPT ![Role] = st]
         \/ Role = "coder" /\ status' = status
  PROVE  ReviewInv'
<1>1. pc' \in {"failing", "sending"}
  BY DEF Account
<1>2. CASE pc' = "failing"
  BY <1>2 DEF ReviewInv, InTurn, Acting, AfterTurn
<1>3. CASE pc' = "sending"
  <2>1. transcript' = Append(transcript, [role |-> Role, status |-> st])
    BY <1>3 DEF Account
  <2>2. transcript \in Seq([role : Roles, status : Statuses]) /\ Role \in Roles
        /\ status \in [Roles -> Statuses \cup {"none"}]
    BY DEF Inv, TypeOK, Role
  <2>3. /\ Len(transcript') = Len(transcript) + 1
        /\ transcript'[Len(transcript) + 1] = [role |-> Role, status |-> st]
        /\ \A i \in 1 .. Len(transcript) : transcript'[i] = transcript[i]
        /\ Len(transcript) \in Nat
    BY <2>1, <2>2
  <2>4. \A r \in Roles \ {Role} : status'[r] = status[r]
    BY <2>2
  <2>5. Role # "coder" => status'[Role] = st
    BY <2>2
  <2>6. \A k \in {0, 1}, r \in Roles \ {Role} : Turn(k, r) => Turn(k + 1, r)'
    <3> SUFFICES ASSUME NEW k \in {0, 1}, NEW r \in Roles \ {Role}, Turn(k, r)
                 PROVE  Turn(k + 1, r)'
      OBVIOUS
    <3>1. Len(transcript) - k \in 1 .. Len(transcript)
      BY <2>3 DEF Turn
    <3>2. Len(transcript') - (k + 1) = Len(transcript) - k
      BY <2>3
    <3> QED BY <2>3, <2>4, <3>1, <3>2 DEF Turn
  <2>7. \A r \in {Role} : r # "coder" => Turn(0, r)'
    <3>1. Len(transcript') - 0 = Len(transcript) + 1
      BY <2>3
    <3> QED BY <2>3, <2>5, <3>1 DEF Turn
  <2>8. queue \in Rests /\ Behind(queue)
    BY DEF ReviewInv
  <2>9. "reviewer" \in Roles /\ "red_team" \in Roles
    BY DEF Roles
  <2>10. CASE Role = "reviewer"
    <3>1. Tail(queue) = <<"red_team", "closeout">>
      BY <2>8, <2>10, RestsShrink DEF Role
    <3>2. Behind(<<"red_team", "closeout">>)'
      BY <2>7, <2>10, RestsDiffer DEF Behind
    <3> QED BY <1>3, <2>8, <3>1, <3>2 DEF ReviewInv, InTurn, Acting, AfterTurn
  <2>11. CASE Role = "red_team"
    <3>1. Tail(queue) = <<"closeout">> /\ queue = <<"red_team", "closeout">>
      BY <2>8, <2>11, RestsShrink DEF Role
    <3>2. Turn(0, "reviewer")
      BY <2>8, <3>1 DEF Behind
    <3>3. Turn(1, "reviewer")'
      BY <2>6, <2>9, <2>11, <3>2
    <3>4. Behind(<<"closeout">>)'
      BY <2>7, <2>11, <3>3, RestsDiffer DEF Behind
    <3> QED BY <1>3, <2>8, <3>1, <3>4 DEF ReviewInv, InTurn, Acting, AfterTurn
  <2>12. CASE Role = "closeout"
    <3>1. Tail(queue) = <<>> /\ queue = <<"closeout">>
      BY <2>8, <2>12, RestsShrink DEF Role
    <3>2. Turn(1, "reviewer") /\ Turn(0, "red_team")
      BY <2>8, <3>1 DEF Behind
    <3>3. Turn(2, "reviewer")' /\ Turn(1, "red_team")'
      BY <2>6, <2>9, <2>12, <3>2
    <3>4. Behind(<<>>)'
      BY <2>7, <2>12, <3>3, RestsDiffer DEF Behind
    <3> QED BY <1>3, <2>8, <3>1, <3>4 DEF ReviewInv, InTurn, Acting, AfterTurn
  <2>13. CASE Role \notin {"reviewer", "red_team", "closeout"}
    <3>1. Tail(queue) \notin {<<"red_team", "closeout">>, <<"closeout">>, <<>>}
      BY <2>8, <2>13, RestsShrink DEF Role
    <3>2. Behind(Tail(queue))'
      BY <3>1 DEF Behind
    <3> QED BY <1>3, <2>8, <3>2 DEF ReviewInv, InTurn, Acting, AfterTurn
  <2> QED BY <2>10, <2>11, <2>12, <2>13
<1> QED BY <1>1, <1>2, <1>3

LEMMA InitReview == Init => ReviewInv
BY DEF Init, ReviewInv, Rests, Behind, Order, InTurn, Acting, AfterTurn

LEMMA StepReview == Inv /\ ReviewInv /\ [Next]_vars => ReviewInv'
<1> SUFFICES ASSUME Inv, ReviewInv, [Next]_vars PROVE ReviewInv'
  OBVIOUS
<1> DEFINE Kept == UNCHANGED <<queue, status, transcript>>
\* Steps inside a turn, and those that end the run.
<1>0. ASSUME Kept,
             \/ pc' = pc
             \/ pc \in InTurn /\ pc' \in {"turn_starting", "thinking"}
             \/ pc \in Acting /\ pc' \in Acting
             \/ pc \in AfterTurn /\ pc' \in AfterTurn
             \/ pc = "closing" /\ pc' = "ready"
             \/ pc' \in {"failing", "failed", "bus_failed"}
      PROVE  ReviewInv'
  <2>1. \A q : Behind(q) <=> Behind(q)'
    BY <1>0 DEF Behind, Turn
  <2>2. GatesPassed <=> GatesPassed'
    BY <1>0 DEF GatesPassed
  <2> QED BY <1>0, <2>1, <2>2 DEF ReviewInv, InTurn, Acting, AfterTurn, Role
<1>1. CASE Start
  <2>1. Loop(queue) /\ Behind(queue) /\ queue \in Rests /\ UNCHANGED <<status, transcript>>
    BY <1>1 DEF Start, ReviewInv
  <2> QED BY <2>1, LoopKeepsReview
<1>2. CASE BeginTurn
  BY <1>0, <1>2 DEF BeginTurn, loop, InTurn
<1>3. ASSUME NEW st \in Statuses, NEW c \in 0 .. MaxCost, NEW n \in 0 .. MaxActions, Answer(st, c, n)
      PROVE  ReviewInv'
  <2>1. /\ pc \in InTurn /\ queue # <<>> /\ queue' = queue
        /\ status' = [status EXCEPT ![Role] = st]
    BY <1>3 DEF Answer, Inv, TypeOK, Awaits, BusAwaits, InTurn
  <2>2. CASE Account(Role, st, c)
    BY <2>1, <2>2, AccountKeepsReview
  <2>3. CASE pc' = "failing"
    BY <2>1, <2>3 DEF ReviewInv, InTurn, Acting, AfterTurn
  <2>4. CASE Role = "coder" /\ pc' = "preparing"
    <3>1. queue \in Rests
      BY DEF ReviewInv
    <3>2. queue \notin {<<"red_team", "closeout">>, <<"closeout">>, <<>>}
      BY <2>1, <2>4, <3>1, RestsShrink DEF Role
    <3>3. Role' = Role
      BY <2>1 DEF Role
    <3> QED BY <2>1, <2>4, <3>1, <3>2, <3>3 DEF ReviewInv, Behind, InTurn, Acting, AfterTurn
  <2> QED BY <1>3, <2>2, <2>3, <2>4 DEF Answer
<1>4. CASE AnswerFails
  BY <1>0, <1>4 DEF AnswerFails, loop
<1>5. CASE Prepare
  BY <1>0, <1>5 DEF Prepare, loop, Acting
<1>6. CASE Execute
  BY <1>0, <1>6 DEF Execute, Rejected, loop, Acting
<1>7. CASE Clean
  <2>1. CASE pc' \in {"failing", "preparing"} /\ UNCHANGED transcript
    BY <1>0, <1>7, <2>1 DEF Clean, loop, Acting
  <2>2. CASE pc = "cleaning" /\ Account("coder", "result", cost)
    <3>1. pc \in InTurn /\ queue # <<>> /\ queue' = queue /\ status' = status
          /\ "result" \in Statuses /\ cost \in 0 .. MaxCost
      BY <1>7, <2>2 DEF Clean, Inv, TypeOK, Awaits, BusAwaits, InTurn, Statuses
    <3>2. Role = "coder"
      BY <2>2 DEF ReviewInv, Acting
    <3> QED BY <2>2, <3>1, <3>2, AccountKeepsReview
  <2> QED BY <1>7, <2>1, <2>2 DEF Clean
<1>8. CASE Send
  BY <1>0, <1>8 DEF Send, loop, AfterTurn
<1>9. CASE CompleteTurn
  <2>1. CASE pc' = "judging" /\ UNCHANGED queue
    BY <1>0, <1>9, <2>1 DEF CompleteTurn, AfterTurn
  <2>2. CASE Loop(Tail(queue))
    <3>1. Tail(queue) \in Rests /\ Behind(Tail(queue)) /\ UNCHANGED <<status, transcript>>
      BY <1>9, RestsShrink DEF CompleteTurn, ReviewInv, AfterTurn, Inv, TypeOK, Awaits, BusAwaits
    <3> QED BY <2>2, <3>1, LoopKeepsReview
  <2> QED BY <1>9, <2>1, <2>2 DEF CompleteTurn
<1>10. CASE Pass
  <2>1. Tail(queue) \in Rests /\ Behind(Tail(queue)) /\ UNCHANGED <<status, transcript>>
    BY <1>10, RestsShrink DEF Pass, ReviewInv, AfterTurn, Inv, TypeOK, Awaits, BusAwaits
  <2> QED BY <1>10, <2>1, LoopKeepsReview DEF Pass
<1>11. CASE Object
  <2>1. Tail(queue) \in Rests /\ Behind(Tail(queue)) /\ UNCHANGED <<status, transcript>>
    BY <1>11, RestsShrink DEF Object, ReviewInv, AfterTurn, Inv, TypeOK, Awaits, BusAwaits
  <2>2. FixQueue \in Rests /\ Behind(FixQueue)
    BY DEF Rests, Behind, FixQueue
  <2>3. CASE Loop(Tail(queue))
    BY <2>1, <2>3, LoopKeepsReview
  <2>4. CASE Loop(FixQueue)
    BY <2>1, <2>2, <2>4, LoopKeepsReview
  <2>5. CASE pc' = "failing" /\ UNCHANGED queue
    BY <1>0, <2>1, <2>5
  <2> QED BY <1>11, <2>3, <2>4, <2>5 DEF Object
<1>12. CASE CloseReady
  BY <1>0, <1>12 DEF CloseReady, loop
<1>13. CASE FailClosed
  BY <1>0, <1>13 DEF FailClosed, loop
<1>14. CASE BusFails
  BY <1>0, <1>14 DEF BusFails, loop
<1>15. CASE Abort
  BY <1>0, <1>15 DEF Abort, OnAbort, loop
<1>16. CASE UNCHANGED vars
  BY <1>0, <1>16 DEF vars, loop
<1> QED BY <1>1, <1>2, <1>3, <1>4, <1>5, <1>6, <1>7, <1>8, <1>9, <1>10, <1>11, <1>12,
           <1>13, <1>14, <1>15, <1>16 DEF Next

LEMMA ReviewInvariance == Spec => [](Inv /\ ReviewInv)
BY InitInv, Step, InitReview, StepReview, PTL DEF Spec

\* A ready run was reviewed as it stands: its transcript ends with the verdicts
\* of the reviewer, the red team and the closeout, so that they come after every
\* turn of the coder, however many rounds there were.
THEOREM ReadyIsReviewedCorrect == Spec => []ReadyIsReviewed
<1>1. ASSUME Inv, ReviewInv, pc = "ready", NEW i \in DOMAIN transcript, transcript[i].role = "coder"
      PROVE  /\ \E j, k \in i + 1 .. Len(transcript) :
                  /\ j < k
                  /\ transcript[j] = [role |-> "reviewer", status |-> "pass"]
                  /\ \A l \in j .. Len(transcript) : transcript[l].role # "coder"
                  /\ transcript[k] = [role |-> "red_team", status |-> "pass"]
             /\ transcript[Len(transcript)] = [role |-> "closeout", status |-> "ready"]
  <2> DEFINE n == Len(transcript)
  <2>1. transcript \in Seq([role : Roles, status : Statuses]) /\ n \in Nat /\ i \in 1 .. n
    BY <1>1 DEF Inv, TypeOK
  <2>2. /\ n > 2
        /\ transcript[n - 2] = [role |-> "reviewer", status |-> "pass"]
        /\ transcript[n - 1] = [role |-> "red_team", status |-> "pass"]
        /\ transcript[n] = [role |-> "closeout", status |-> "ready"]
    <3>1. Behind(<<>>) /\ status["closeout"] = "ready" /\ status["reviewer"] = "pass"
          /\ status["red_team"] = "pass"
      BY <1>1 DEF ReviewInv, GatesPassed, Gates
    <3>2. Turn(2, "reviewer") /\ Turn(1, "red_team") /\ Turn(0, "closeout")
      BY <3>1 DEF Behind
    <3>3. n - 0 = n
      BY <2>1
    <3> QED BY <3>1, <3>2, <3>3 DEF Turn
  <2>3. i # n /\ i # n - 1 /\ i # n - 2
    BY <1>1, <2>2
  <2>4. i < n - 2
    BY <2>1, <2>3
  <2>5. \A l \in n - 2 .. n : transcript[l].role # "coder"
    <3>1. \A l \in n - 2 .. n : l = n - 2 \/ l = n - 1 \/ l = n
      BY <2>1, <2>2
    <3> QED BY <2>2, <3>1
  <2>6. n - 2 \in i + 1 .. n /\ n - 1 \in i + 1 .. n /\ n - 2 < n - 1
    BY <2>1, <2>2, <2>4
  <2> QED BY <2>2, <2>5, <2>6
<1>2. Inv /\ ReviewInv => ReadyIsReviewed
  BY <1>1 DEF ReadyIsReviewed
<1> QED BY <1>2, ReviewInvariance, PTL
=============================================================================
