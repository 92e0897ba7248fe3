---------------------------- MODULE AgentRuntime ----------------------------
(***************************************************************************)
(* runAgentRuntime (agent-runtime/runtime.ts): one run of the role loop    *)
(*                                                                         *)
(*     commander -> coder -> reviewer -> red_team -> closeout              *)
(*                                                                         *)
(* With an execution config the coder's proposed actions are executed by   *)
(* the SafeLoop authority during its turn, and an objection restarts the   *)
(* loop at the coder.  Without one the run is a conversation: an objection *)
(* only closes the gate.                                                   *)
(*                                                                         *)
(* Every step of the run awaits somebody: the Agent Bus, the adapter of    *)
(* the role, the authority or the action runner.  pc says whom; the run    *)
(* itself is one action per await.  The deadline of the run (maxDurationMs)*)
(* may pass at any of them.  The validation that precedes the first event  *)
(* (opt-in, bus ids, limits, role bindings) has passed.                    *)
(***************************************************************************)
EXTENDS Naturals, Sequences

CONSTANTS
  MaxTurns,    \* limits.maxTurns
  MaxRounds,   \* limits.maxRounds
  MaxBudget,   \* limits.maxBudgetUsd
  MaxActions,  \* bound of the model: actions in one coder output
  MaxCost      \* bound of the model: budgetUsd in one role output

ASSUME LimitsAssumption ==
  /\ MaxTurns \in Nat \ {0} /\ MaxRounds \in Nat \ {0}
  /\ MaxBudget \in Nat /\ MaxActions \in Nat /\ MaxCost \in Nat

VARIABLES
  execution,   \* was the run configured with an execution authority?
  pc,          \* what the run awaits, or how it ended
  queue,       \* roleQueue from roleIndex on
  status,      \* priorOutputs[role].status, or "none"
  todo,        \* actions of the coder's output not yet executed
  cost,        \* budgetUsd of the output whose actions are executed
  payload,     \* does the temporary action payload exist?
  spent,       \* budgetUsedUsd
  fixRounds,   \* fixRounds
  transcript,  \* turns: role and status of every completed turn
  aborted,     \* controller.signal.aborted
  recorded,    \* types of the events on the bus
  mutated,     \* actions the authority has executed
  receipts     \* receipts.length

config == <<execution>>
loop   == <<queue, status, fixRounds, transcript>>
work   == <<todo, cost, payload, mutated, receipts>>
vars   == <<config, pc, loop, work, spent, aborted, recorded>>

Order    == <<"commander", "coder", "reviewer", "red_team", "closeout">>
Roles    == {"commander", "coder", "reviewer", "red_team", "closeout"}
Gates    == {"reviewer", "red_team"}
Statuses == {"plan", "result", "pass", "object", "ready", "not_ready"}

\* How a run ends: a decision, a failure on record (failed), an abort between two
\* turns (timed_out), or the rejection of a bus call (bus_failed).
Ended     == {"ready", "not_ready", "failed", "timed_out", "bus_failed"}
BusAwaits == {"starting", "turn_starting", "sending", "completing", "judging",
              "closing", "failing"}
Awaits    == BusAwaits \cup {"thinking", "preparing", "executing", "cleaning", "abandoning"}

\* expectedStatusesForRole: the parser rejects any other.
Expected(role) ==
  CASE role = "commander" -> {"plan"}
    [] role = "coder"     -> {"result"}
    [] role \in Gates     -> {"pass", "object"}
    [] role = "closeout"  -> {"ready", "not_ready"}

TypeOK ==
  /\ execution \in BOOLEAN
  /\ pc \in Awaits \cup Ended
  /\ queue \in Seq(Roles) /\ (pc \in Awaits \ {"closing", "failing"} => queue # <<>>)
  /\ status \in [Roles -> Statuses \cup {"none"}]
  /\ todo \in 0 .. MaxActions /\ cost \in 0 .. MaxCost
  /\ payload \in BOOLEAN
  /\ spent \in 0 .. MaxBudget + MaxCost
  /\ fixRounds \in 0 .. MaxRounds + 1
  /\ transcript \in Seq([role : Roles, status : Statuses])
  /\ Len(transcript) <= MaxTurns
  /\ aborted \in BOOLEAN
  /\ recorded \subseteq {"started", "review_passed", "red_team_passed",
                         "objection_raised", "closeout_ready", "failed_closed"}
  /\ mutated \in Nat /\ receipts \in Nat

Init ==
  /\ execution \in BOOLEAN
  /\ pc = "starting" /\ queue = Order
  /\ status = [r \in Roles |-> "none"]
  /\ todo = 0 /\ cost = 0 /\ payload = FALSE
  /\ spent = 0 /\ fixRounds = 0
  /\ transcript = <<>>
  /\ aborted = FALSE
  /\ recorded = {}
  /\ mutated = 0 /\ receipts = 0

Role == Head(queue)

-----------------------------------------------------------------------------
(* Parts of the loop                                                       *)

\* The reviewer does not look at the fix.
WrongFixQueue == <<"coder", "red_team", "closeout">>

\* What an objection puts in place of the rest of the queue.
FixQueue == <<"coder", "reviewer", "red_team", "closeout">>

GatesPassed == \A g \in Gates : status[g] = "pass"

\* The queue is done: the decision, or the refusal to be ready against a gate.
Decide ==
  \/ /\ status["closeout"] = "ready" /\ GatesPassed
     /\ pc' = "closing"
  \/ /\ status["closeout"] = "ready" /\ ~ GatesPassed
     /\ pc' = "failing"
  \/ /\ status["closeout"] = "not_ready"
     /\ pc' = "not_ready"

TurnsLeft == Len(transcript) < MaxTurns

\* The head of the loop, with q the rest of the queue.
Loop(q) ==
  /\ queue' = q
  /\ \/ q = <<>> /\ Decide
     \/ q # <<>> /\ aborted /\ pc' = "timed_out"
     \/ q # <<>> /\ ~ aborted /\ ~ TurnsLeft /\ pc' = "failing"
     \/ q # <<>> /\ ~ aborted /\ TurnsLeft /\ pc' = "turn_starting"

\* The end of a role's work: its cost is added to the budget, and unless that is
\* overdrawn its turn goes to the transcript.
Account(role, st, c) ==
  /\ spent' = spent + c
  /\ \/ /\ spent + c > MaxBudget
        /\ pc' = "failing"
        /\ UNCHANGED transcript
     \/ /\ spent + c <= MaxBudget
        /\ pc' = "sending"
        /\ transcript' = Append(transcript, [role |-> role, status |-> st])

Record(event) == recorded' = recorded \cup {event}

-----------------------------------------------------------------------------
(* The run                                                                 *)

Start ==
  /\ pc = "starting"
  /\ Record("started")
  /\ Loop(queue)
  /\ UNCHANGED <<config, status, fixRounds, transcript, work, spent, aborted>>

\* turn_started is recorded; the prompt may be too large, and an aborted signal
\* beats the adapter it is raced with.
BeginTurn ==
  /\ pc = "turn_starting"
  /\ pc' \in IF aborted THEN {"failing"} ELSE {"failing", "thinking"}
  /\ UNCHANGED <<config, loop, work, spent, aborted, recorded>>

\* The role's adapter answers: status st, cost c and, from a coder, n actions.
Answer(st, c, n) ==
  /\ pc = "thinking"
  /\ st \in Expected(Role)
  /\ status' = [status EXCEPT ![Role] = st]
  /\ \/ /\ ~ execution \/ Role # "coder"
        /\ Account(Role, st, c)
        /\ UNCHANGED <<todo, cost>>
     \/ /\ execution /\ Role = "coder" /\ n = 0
        /\ pc' = "failing"
        /\ UNCHANGED <<todo, cost, spent, transcript>>
     \/ /\ execution /\ Role = "coder" /\ n > 0
        /\ pc' = "preparing" /\ todo' = n /\ cost' = c
        /\ UNCHANGED <<spent, transcript>>
  /\ UNCHANGED <<config, queue, fixRounds, payload, mutated, receipts, aborted, recorded>>

\* The adapter throws, or the parser rejects its output.
AnswerFails ==
  /\ pc = "thinking"
  /\ pc' = "failing"
  /\ UNCHANGED <<config, loop, work, spent, aborted, recorded>>

\* The authority is ready for the next action and the runner has written its
\* payload; or either of them refuses.
Prepare ==
  /\ pc = "preparing"
  /\ \/ pc' = "executing" /\ payload' = TRUE
     \/ pc' = "failing" /\ UNCHANGED payload
  /\ UNCHANGED <<config, loop, todo, cost, mutated, receipts, spent, aborted, recorded>>

\* Where a rejection by the authority leads: to the finally block.
Rejected == "abandoning"

\* safeloop.execute returns a receipt; or it rejects, though the action may have
\* been executed (a receipt that is lost, late or malformed).
Execute ==
  /\ pc = "executing"
  /\ \/ /\ pc' = "cleaning"
        /\ mutated' = mutated + 1
        /\ receipts' = receipts + 1
     \/ /\ pc' = Rejected
        /\ mutated' \in {mutated, mutated + 1}
        /\ UNCHANGED receipts
  /\ UNCHANGED <<config, loop, todo, cost, payload, spent, aborted, recorded>>

\* A rejected action is skipped.
WrongClean ==
  /\ pc \in {"cleaning", "abandoning"}
  /\ payload' = FALSE
  /\ \/ /\ todo > 1
        /\ pc' = "preparing" /\ todo' = todo - 1
        /\ UNCHANGED <<cost, spent, transcript>>
     \/ /\ todo <= 1
        /\ Account("coder", "result", cost)
        /\ todo' = 0 /\ cost' = 0
  /\ UNCHANGED <<config, queue, status, fixRounds, mutated, receipts, aborted, recorded>>

\* cleanup: the payload is removed.  After a rejection the run fails, else the
\* next action follows, or the end of the coder's work.
Clean ==
  /\ pc \in {"cleaning", "abandoning"}
  /\ payload' = FALSE
  /\ \/ /\ pc = "abandoning"
        /\ pc' = "failing"
        /\ UNCHANGED <<todo, cost, spent, transcript>>
     \/ /\ pc = "cleaning" /\ todo > 1
        /\ pc' = "preparing" /\ todo' = todo - 1
        /\ UNCHANGED <<cost, spent, transcript>>
     \/ /\ pc = "cleaning" /\ todo <= 1
        /\ Account("coder", "result", cost)
        /\ todo' = 0 /\ cost' = 0
  /\ UNCHANGED <<config, queue, status, fixRounds, mutated, receipts, aborted, recorded>>

\* The role's message is on the bus.
Send ==
  /\ pc = "sending"
  /\ pc' = "completing"
  /\ UNCHANGED <<config, loop, work, spent, aborted, recorded>>

\* turn_completed is recorded; a gate's verdict is recorded next.
CompleteTurn ==
  /\ pc = "completing"
  /\ \/ /\ Role \in Gates
        /\ pc' = "judging"
        /\ UNCHANGED queue
     \/ /\ Role \notin Gates
        /\ Loop(Tail(queue))
  /\ UNCHANGED <<config, status, fixRounds, transcript, work, spent, aborted, recorded>>

\* review_passed or red_team_passed is recorded.
Pass ==
  /\ pc = "judging" /\ status[Role] = "pass"
  /\ Record(IF Role = "reviewer" THEN "review_passed" ELSE "red_team_passed")
  /\ Loop(Tail(queue))
  /\ UNCHANGED <<config, status, fixRounds, transcript, work, spent, aborted>>

\* objection_raised is recorded, and a fix round begins if actions can be executed.
Object ==
  /\ pc = "judging" /\ status[Role] = "object"
  /\ Record("objection_raised")
  /\ \/ /\ ~ execution
        /\ Loop(Tail(queue))
        /\ UNCHANGED fixRounds
     \/ /\ execution
        /\ fixRounds' = fixRounds + 1
        /\ \/ /\ fixRounds + 1 > MaxRounds
              /\ pc' = "failing"
              /\ UNCHANGED queue
           \/ /\ fixRounds + 1 <= MaxRounds
              /\ Loop(FixQueue)
  /\ UNCHANGED <<config, status, transcript, work, spent, aborted>>

\* closeout_ready is recorded, and the run returns ready (a receipt that is not
\* verified cannot reach receipts: the clients throw).
CloseReady ==
  /\ pc = "closing"
  /\ Record("closeout_ready")
  /\ pc' = "ready"
  /\ UNCHANGED <<config, loop, work, spent, aborted>>

\* failRuntime has recorded failed_closed, and throws.
FailClosed ==
  /\ pc = "failing"
  /\ Record("failed_closed")
  /\ pc' = "failed"
  /\ UNCHANGED <<config, loop, work, spent, aborted>>

\* A bus call rejects, whatever it was to record: the run rejects with its error.
BusFails ==
  /\ pc \in BusAwaits
  /\ pc' = "bus_failed"
  /\ UNCHANGED <<config, loop, work, spent, aborted, recorded>>

\* The race is lost, but nobody looks.
WrongOnAbort == pc

\* What the run awaits after its deadline: an adapter is not waited for any longer.
OnAbort == IF pc = "thinking" THEN "failing" ELSE pc

\* The deadline passes.
Abort ==
  /\ ~ aborted /\ pc \notin Ended
  /\ aborted' = TRUE
  /\ pc' = OnAbort
  /\ UNCHANGED <<config, loop, work, spent, recorded>>

-----------------------------------------------------------------------------
Next ==
  \/ Start \/ BeginTurn
  \/ \E st \in Statuses, c \in 0 .. MaxCost, n \in 0 .. MaxActions : Answer(st, c, n)
  \/ AnswerFails
  \/ Prepare \/ Execute \/ Clean
  \/ Send \/ CompleteTurn \/ Pass \/ Object
  \/ CloseReady \/ FailClosed \/ BusFails
  \/ Abort

Spec == Init /\ [][Next]_vars

\* The bus, the runner and the authority settle their calls (the authority's
\* clients have timeouts of their own), and the deadline passes.  Nothing is
\* assumed of the adapters.
Fairness ==
  /\ WF_vars(Start \/ BeginTurn \/ Send \/ CompleteTurn \/ Pass \/ Object
             \/ CloseReady \/ FailClosed)
  /\ WF_vars(Prepare \/ Execute \/ Clean)
  /\ WF_vars(Abort)

FairSpec == Spec /\ Fairness

-----------------------------------------------------------------------------
(* Properties                                                              *)

\* A ready run was reviewed as it stands: after the last turn of the coder the
\* reviewer and then the red team passed, and nobody objected, so that no verdict
\* of an earlier round opens the gate for a later fix.
ReadyIsReviewed ==
  pc = "ready" =>
    \A i \in DOMAIN transcript : transcript[i].role = "coder" =>
      /\ \E j, k \in i + 1 .. Len(transcript) :
           /\ j < k
           /\ transcript[j] = [role |-> "reviewer", status |-> "pass"]
           /\ \A l \in j .. Len(transcript) : transcript[l].role # "coder"
           /\ transcript[k] = [role |-> "red_team", status |-> "pass"]
      /\ transcript[Len(transcript)] = [role |-> "closeout", status |-> "ready"]

\* A ready run holds a receipt for every action that was executed in it: no
\* executed action is lost among several of which one failed.
ReadyIsReceipted == pc = "ready" => mutated = receipts

\* No run ends with an action payload left behind, however it ends.
NoPayloadLeft == pc \in Ended => ~ payload

\* The bus says closeout_ready only of a run that returned ready, and such a run
\* stayed within its turns, its fix rounds and its budget.
AnnouncedReady ==
  "closeout_ready" \in recorded =>
    pc = "ready" /\ spent <= MaxBudget /\ fixRounds <= MaxRounds

\* A run with objections and fixes never executes an action that takes it over
\* the budget.
ExecutionWithinBudget == pc = "executing" => spent + cost <= MaxBudget

\* Every run ends, even if an adapter never answers.
EveryRunEnds == <>(pc \in Ended)
=============================================================================
