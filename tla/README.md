# Verification of quorum-router

quorum-router sends one request to several language models, validates their
outputs, merges a quorum of them, and keeps an account of what it did: a
decision report, telemetry, an audit log.  A second mode lets models in five
roles work on a repository and has the SafeLoop authority execute what they
propose.  This directory holds TLA+ models of its concurrent core, TLC
configurations that check them on small instances, and proofs, checked by
TLAPS, of theorems that hold for all parameters.  `PROJECT.json` lists the
components, the runs, the hazards, the theorems, and for every definition the
source lines it stands for.

    tlc -config telemetry.cfg BufferedSink      # one run; see the table below
    tlapm BufferedSinkProofs.tla                # one proof module

Conventions.  JavaScript runs a callback to completion, so one action is one
stretch of code between two awaits, whatever it calls.  What the router does not
control (a handler, a child process, a provider, the operator) is a
nondeterministic choice.  Time is abstracted to what it decides: a deadline has
passed or not, a timer may fire at any moment.  An operator `Wrong<X>` is a
plausible bug in `X`, used by no specification; `PROJECT.json` says which
property it breaks, so that every checked property is known to be able to fail.

## 1. The system

| Component (source under `src/src`) | State | Operations | What is hard |
|---|---|---|---|
| Buffered batch sink (`telemetry/buffered-batch-sink.ts`) | ring buffer, attempts and backoff per entry, timer, closed, chain of drains, counters | `sink`, `flush`, `close`, timer, unload hook | drains, timers and new records interleave with an awaited handler; an abandoned call still runs; overflow meets requeueing |
| Audit sink, OTLP sink (`audit/supabase-audit.ts`, `runtime.ts`) | none of their own | batch handlers and options of the above | duplicates, partial batches |
| Budget and circuit breaker (`budget/budget.ts`) | `spentUsd`; failures and `openUntil` | `consume`; `assertAvailable`, `recordSuccess`, `recordFailure` | shared by concurrent calls, looked at once and used later |
| Process adapters (`adapters/process.ts`) | per call: attempt, stage, child, `budgetReserved` | `invoke`, readiness check and refresh, `runProcess`, Codex synthesis | abort against exit against timeout; retries that must not pay twice |
| HTTP adapters (`adapters/direct-http.ts`) | per call: attempt, request | `invoke`, `fetchDirectHttpJson` | abort while the body is read; success recorded before validation |
| Quorum router (`router.ts`, `schemas.ts`, `telemetry/cofailure.ts`) | per request: selected adapters, replies, timer | `route`, decision report | calls of several requests on one budget; partial failure; a timer between candidates and synthesis |
| Direct routing policy (`policy/*`) | none (reads the budget) | `decide` | an estimate that is stale when the calls pay |
| Agent runtime (`agent-runtime/runtime.ts`, `parser.ts`, `repo-action-runner.ts`) | role queue, last output per role, transcript, budget, fix rounds, receipts, payload file | one run | every await may fail or be overtaken by the deadline; old verdicts must not open the gate for new code |
| SafeLoop clients (`safeloop/operator-client.ts`, `cli-client.ts`) | request and receipt files | `ready`, `execute` | file protocol with another process; executed and yet rejected |
| Repo action worker (`agent-runtime/repo-action-worker.ts`) | the repository | apply one action | path checks, partial writes |
| Agent bus (`agent-chat/bus`, SQL migration) | messages, cursors, one sequence | send, history, unread, mark read | limits and ordering after a restart |
| Grounded shadow evaluation (`evaluation/*`) | runs and results | evaluate with deadlines | evaluators that end after the deadline |
| Adapter outcomes (`adapters/*`, `policy/fallback-policy.ts`) | none | classify the end of a child or an exchange, parse, validate identity, decide on a fallback | phrases anywhere in an output decide; an answer must not be taken for an outage |
| Calibration (`calibration/calibration.ts`) | none | `aggregate...`, `resolve...` with and without the drift guard, their schemas | producers parse their own results; stored selections replayed with later reports; binary fractions |
| Ensemble quality (`ensemble/quality.ts`) | none | `aggregateEnsembleQuality` and its schema | sections counted apart that must tell one story |
| Structured fusion (`fusion.ts`) | none | `runStructuredFusion` | checks after two calls were paid for |
| Simulator (`agent-chat/simulator.ts`) | position in a script, audit events | `runAgentChatSimulator` | limits that throw in the middle; announcement before validation |
| Commander selection, setup, doctor (`commander`, `setup`, `doctor`, `routing-mode.ts`) | none | `generateQuorumRouterConfig`, the doctor's checks, `selectCommander`, `resolveRoutingMode` | one configuration, three judges |
| Redaction, prompt cache, integrations, catalog, templates, examples | none of interest | text, files | - |

Interactions.  The router asks the policy (which reads the budget), calls its
adapters concurrently (each charges the budget and consults its breaker), calls
the synthesis adapter, builds a report and hands it to the telemetry sink
without waiting.  The workflow audit goes to the audit sink, whose promise the
caller awaits.  In agent mode the router hands the request to the agent runtime,
which calls one adapter per turn, puts every event on the agent bus, and has
actions executed by a SafeLoop client, which exchanges files with an operator.

Agents read the bus page by page and mark what they have handled; a host may
save the bus and build it anew.  The results of calls feed calibration and
quality reports, whose selections come back to the router as evidence.

What makes each part correct: a sink loses, duplicates and reorders only what
its policy allows, answers its callers and never gets stuck; concurrent calls
keep the budget, the breaker and an abort honest and end; a synthesis rests on a
quorum of its own request, and every end of a request has a valid report; a run
is ready only if it was reviewed as it stands and every executed action has a
receipt; nothing is marked read unhandled, over restarts; and a function that
decides accepts what its counterpart produces.

## 2. Modules

**`DeliveryLedger`** is the abstract promise of a sink: each record has a fate
(new, refused, pending, delivered, dropped).  It is delivered only after it
arrived downstream, dropped only if the sink is lossy or closed, and its fate is
then final.

**`BufferedSink`** is `createBufferedBatchSink`.  `queue` and `ahead` (who is in
front of whom) stand for the ring buffer; `chain` for `flushChain`; `running`
for the drain that runs, with `batch` the records of the handler call it awaits;
`stray` for calls that were abandoned at their deadline and go on.  Actions:
`Sink` (enqueue, then flush or arm the timer), `Flush`, `Close`, `TimerFires`,
`BackoffElapses`, `DeadlinePasses`, `StartDrain` (first batch of the next drain),
`BatchSucceeds`, `HandlerRejects`, `HandlerTimesOut` (what follows an awaited call,
up to the next one or the end of the drain), `Arrive` and `ArriveLate` (the store).
The operators in between (`Enqueue`, `CallHandler`, `Requeue`, `Loop`, `Return`,
`Throw`) are the functions of the same purpose.  Abstracted: the counters are
the cardinalities of sets of records (`rejected` and `failedFlushes` are left
out); the first test of a drain's deadline is taken to pass; the unload hook is a
forced flush; must-accept drains peek, which the model writes as a batch that
stays queued.  `fail_closed` with `best_effort`, which no caller in the repository
combines, is in the model but in no run.

**`AdapterInvocation`** (`MCAdapterInvocation` for TLC) is `invoke` of process and
HTTP adapters.  `at[c]` says which child, request or backoff call `c` waits for;
`paid[c]` is `budgetReserved`; `failures`, `open` are the breaker.  An HTTP call
passes from `Invoke` or `BackoffElapses` straight to its request; a process call
goes through its readiness stages.  `AbortBefore` and `AbortDuring` are the
caller's signal: a listener added to a signal that is aborted already never
fires, so that only the exit of the child reveals it (`ChildAborted`).  Error
classes that the code treats alike are merged; children that outlive their call
are not tracked; USD are integers.

**`QuorumRoute`** (`MCQuorumRoute` for TLC) is `routeDirectWithDecisionReport` for
several requests at once.  `Route` is the decision with everything up to the
concurrent calls; `CallPays`, `CallAnswers`, `CallFails` are what a call shows of
itself (its inside is `AdapterInvocation`); `Tally` follows `allSettled`; the
synthesis pays, answers or fails; `TimesOut` is the request's timer.  `Report` and
`Consistent` are `buildDecisionReport` and the schema's `refineDecisionReport`.
`Selected` is the policy's running estimate and `Executable` the selection by
key.  Abstracted: routing mode, evaluation of calibration evidence (its errors
are in `Reject`) and telemetry, which is published without being awaited; all
adapters charge the policy's budget; whether there is a policy is chosen
initially; a synthesis names one or two sources.  An adapter of the caller's own
(`Custom`) may throw an error with an empty message or code: the telemetry is parsed
outside any `catch`, and the request ends with that exception ("threw"), without a
report.  A process adapter never
answers after an abort and an HTTP adapter only if its response has just come:
that is `AbortedCallYieldsNothing` of `AdapterInvocation`.

**`AgentRuntime`** is `runAgentRuntime`.  `pc` says what the run awaits; there is
one action per await and outcome (`BeginTurn`, `Answer`, `AnswerFails`, `Prepare`,
`Execute`, `Clean`, `Send`, `CompleteTurn`, `Pass`, `Object`, `CloseReady`,
`FailClosed`, `BusFails`) and `Abort` for the deadline, the only thing that aborts
a run that comes from `routeAgentRuntime`.  The authority is abstract: it executes
and answers, or rejects, having executed or not.  The validation before the first
event is taken to pass, and prompts are not modelled.  An adapter whose promise
is resolved at the very moment it is raced with an aborted signal counts as
aborted.

**`SafeLoopAuthority`** is what `runAgentRuntime` relies on when it calls
`execute`: a request is accepted only after its action has been applied, applied
at most once, and may be refused although it has been, or is going to be, applied.

**`SafeLoopClients`** (`MCSafeLoopClients` for TLC) is the two clients, the action
runner's payload and the worker.  `at[r]` says what a call awaits; `request`,
`receipt` and `payload` are the files.  `Begin`, `Publish`, `Prompted`, `Poll`,
`Read`, `Wake` are the operator client, `Prepare`, `Approved`, `Exit` the CLI client;
`Close` is their `finally` block and `Clean` that of the caller, which removes the
payload.  `Open`, `Start`, `Apply`, `Report`, `ArtifactsAppear` belong to the operator,
or the CLI process, and its worker: they happen at any time, also after the call
is over.  Abstracted: a receipt is absent, half-written, its own, naming paths
that do not exist, or anything else; requests have unique names.  Taken from the
operator's side: it writes one receipt per request, a verified receipt only of an
action that was applied, and runs the worker once (an approval is spent by its
execution); a digest binds a receipt to one request.

**`GroundedShadow`** is what an evaluator's answer amounts to
(`parseQualification`: an answer whose status its findings do not allow is no
answer), and how two of them are combined (`resolveGroundedShadowEvaluations`).
Only the presence of a well-formed answer counts, so that parsing is abstracted to
the set `Parsed`; identities that collide are refused before the first call.

**`GroundedShadowRuntime`** is `runGroundedShadowRuntime`.  Each of its awaits is a
race; `race` says what has decided it, in an action of its own (`WorkSettles`,
`EvaluatorEnds`, `DeadlinePasses`, `RaceTimesOut`, `Abort`), and `Continue...` is the
code up to the next await.  `told` is the controller of the evaluators and `stop` the
promise `stopped`.  An evaluator may end after the run; `orphans`, which the code does
not have, are those that ended after they were told to stop.  Abstracted: numbers of
evaluators are sets; the state of a result follows from its reason; failure codes;
costs are integers, without the tolerance of 1e-9.

**`AgentBus`** (`MCAgentBus` for TLC) is `InMemoryAgentBusStore` with the agents that
use it.  A method awaits a microtask and then runs to its end: a call is one
action (`SendMessage`, `RecordEvent`, `Poll`, `MarkRead`).  `AgentRestarts` loses the
page an agent has fetched, `StoreRestarts` builds a new store from what `history`
returns.  Identifiers and times come from one sequence; a new store goes on after
the highest identifier it finds, and may be built from seeds (`Seeds`): unread
messages, each with an identifier of its own, of the store's form or not.  A page is
the oldest of what is unread, by time and then by identifier (`OldestFirst`), as
many as the limit allows.  `inbox` is what an agent fetched and has not
marked yet; `handled` (history) what it has marked.  Abstracted: bodies are empty
or not; metadata and its redaction.

**`AgentBusContract`** is what the SQL functions of the migration promise of the
same calls, rows with opaque identifiers; `AgentBus` implements it.  The store is
only restarted while `history`, which is limited, returns all of its messages:
what it does not return is lost, and nothing promises otherwise.

**`AdapterOutcomes`** is what an attempt makes of what its provider did: exit
status, texts and bodies become an output or an error code, `Validated` is the
router's check of the identity, and `FallbackAllowed` the fallback policy.  A text
is a sequence of lines, a line a kind, a content and the phrases in it, and whether
something in it looks like a credential: output of a process is redacted before it
is parsed (`Sanitized`), and a redaction that reaches over the end of a JSON string
leaves a line that is no JSON any more.

**`ProviderPolicy`** has the descriptors, the prices and the default registry, the
direct routing policy with hints and budget, and the choice of a commander;
**`SetupConfig`** extends it with the generator's profiles and validation, the
schemas that generator and reader share (`SectionsOK`), the doctor's checks of
configuration, file, endpoint and environment, and the routing mode.  Keys of the
registry are compared in lower case and the policy compares the client as it is
written, so names that differ by their case are told apart by `Spellings`.

**`Calibration`** has the flat and the hierarchical aggregation, resolution, the
drift guard, and the schemas of reports, selections and decisions, over exact
fractions; **`DriftRounding`** has the drift guard's comparison in binary fractions.
A model checker's integers have 32 bits, so numbers have 21 bits of precision
where doubles have 53.  Expansions of tenths repeat every four bits and 21 and 53
differ by a multiple of four, so tenths are rounded in the same direction.

**`EnsembleQuality`**, **`StructuredFusion`** and **`AgentChatSimulator`** are the
functions they are named after: the four sections of a report and its schema; the
calls a fusion makes and how it ends; a fold of one step per role, from the time the
caller starts at, with the events the audit was told.  The rates of the selection
regret are rounded to `Digits` digits and compared within `1 / Tolerance`, on one side
of the comparison as the schema recomputes them: 15 and 10^12 in the code, 2 and 50 in
the run.  Rates that are one count over another are kept exact.

**`MCDecisions`** evaluates these functions on every input of a bounded set: an
initial state is an input, its successor has the result, and the properties relate
the two.

**`BufferedSinkProofs`**, **`AdapterInvocationProofs`**, **`QuorumRouteProofs`**,
**`AgentRuntimeProofs`**, **`SafeLoopClientsProofs`**, **`GroundedShadowProofs`**,
**`AgentBusProofs`** and **`DecisionProofs`** hold the theorems.

## 3. Runs

Each run takes at most about two minutes with two workers.  Deadlock checking is
off because the systems really stop: a sink that is drained, calls and requests
that have ended, a function that has been evaluated.

| Run | Instance | What it shows |
|---|---|---|
| `telemetry` | 3 records, queue of 2, batches of 1, 2 attempts, 1 `flush` or `close`, fair | a record arrives at most once per attempt (`AttemptsBoundCopies`); no record overtakes one that waits for its first attempt (`FirstAttemptsInOrder`); every record settles (`RecordsSettle`); refinement of the lossy ledger (`ImplementsLedger`) |
| `audit` | 3 records, queue and batches of 2, 2 attempts, 2 of `flush` and `close`, fair | delivery in order of acceptance, but for what `close` gives up or puts back (`AuditInOrder`); every caller answered (`CallersAnswered`); refinement of the lossless ledger |
| `audit_resolved` | 3 records, batches of 1, 1 `flush` or `close` | **violated**: `ResolvedDelivered`, see section 6 |
| `adapters` | 2 process calls and 1 HTTP call, budget for two of them, threshold 2, 2 attempts, fair | nothing runs unpaid and the budget holds (`BudgetKept`); behind an open breaker only earlier calls run (`OnlyEarlierCallsRun`); a breaker holds an attempt against its provider at most once, and none that was answered, refused by the budget or is under way (`BreakerCountsOnce`); aborted calls yield and launch nothing (`AbortedCallYieldsNothing`, `NoLaunchAfterAbort`); `EveryCallEnds` |
| `quorum` | 2 requests, 3 adapters of which 2 share a key and the third is the caller's own, quorum of 2, a budget for one request, synthesis dearer than estimated, fair | a synthesis rests on a quorum (`SynthesisGrounded`); a request ends with a report its schema accepts, but for a failure without a message (`ReportsConsistent`); a request is starved only by another, or by the adapters that share a key (`StarvedOnlyByOthers`); `RoutesEnd` |
| `runtime` | 2 fix rounds, 10 turns, 2 actions per output, costs 0..1, budget 2, fair | a ready run's transcript ends with the verdicts on the code it ends with (`ReadyIsReviewed`), each executed action has its receipt (`ReadyIsReceipted`); `EveryRunEnds` |
| `runtime_budget` | one pass over the roles | **violated**: `ExecutionWithinBudget`, see section 6 |
| `safeloop` | 1 call on each client, fair | what comes after a refusal changes nothing (`RefusalsStand`: a receipt left behind is a refused call's, an abort before the receipt is read refuses, no worker starts once the call is over); calls end (`CallsSettle`); refinement of the authority (`ImplementsAuthority`) |
| `shadow` | 2 requirements with 1 ground, 1 claim, 1 reason, prices 1..2, budget 3, fair | an evaluation that stands was given by both evaluators, in time and in agreement (`EvaluatedIsConfirmed`); the report is true of the evaluators' calls, of those that outlive the run too, and within the budget (`ReportIsTrue`); `RunEnds` |
| `bus` | 3 agents of 2 teams, 3 identifiers, 2 restarts, pages of 1 to 2, fair | what is marked read was handled by its addressee (`ReadIsHandled`) in the order it was sent (`HandledInOrder`); pages smaller than the inbox drain it (`InboxesDrain`); refinement of the SQL functions (`ImplementsContract`) |
| `decisions` | for each function every input of the sets in `MCDecisions` | see the comments of the ten properties there: producers pass their schemas, stale selections are refused, sections agree, paid work is not lost, closeout is earned, fallbacks follow only what was not answered, estimates cover charges, and generator, doctor and commander agree |
| `drift_equality` | up to 5 observations of a child among 10 of its parent | **violated**: `EqualityIsWithin`, see section 6 |

The type invariants, `QueueBounded`, `Accounted`, `AuditKept`, `NeverStuck`,
`NoPayloadLeft` and `AnnouncedReady` are stated in the modules and proved (section
4) instead of run.

Why the bounds are enough.  A sink needs three records to have one awaited, one
queued and one arriving, and a queue of two for the arriving one to push out
either a fresh or a retried entry; two attempts give first, retried and
exhausted records.  With batches of two a failed batch comes back around a
younger record, and a second control call lets a `flush` follow the `close` that put
it there; telemetry keeps to batches of one, for liveness, and its theorems
cover batches of every size.  Two calls on one adapter let a breaker open under a
call in progress, and the third shares only the budget; with threshold two and two
attempts one call alone can open the breaker, and it can open again.  The 10
turns let the first fix round end with a decision and the second run into the
limit; two actions let one be executed and the next fail.  Two requests with a
budget between one and two requests' cost let each starve the other at any
point; three adapters let fewer, as many and more outputs be valid than needed.
Calls on the SafeLoop clients share nothing, so one on each is enough.  Two
requirements tell none, some and all satisfied apart, and the prices let both, or
only one, of the evaluators be affordable.  On the bus three identifiers give an
inbox that is longer than a page, and two restarts an agent and a host that forget
in either order.  Observations of `decisions` are as many as it takes for groups
at, below and above their minimum, a panel with a majority, a minority and a tie,
and a text whose lines disagree; three observations of a panel of two give rates that
rounding changes (thirds).  `Spellings` has another spelling of a provider, of a
model and of two clients, that of the Codex synthesis among them.

`MaxRecords`, `MaxControlCalls`, `MaxActions`, `MaxCost`, `MaxSequence`, `MaxFaults`,
`MostChild`, `MostParent`, `Digits`, `Tolerance` and the sets of `MCDecisions` bound the models only; all
other constants are options of the program or stand for its users.

Fairness.  Only what the event loop does by itself is fair: timers that are
armed fire, a deadline that runs passes, a chained drain starts, a backoff ends,
a settled promise is continued.  Nothing is assumed of handlers, children,
providers or callers.  `AgentRuntime` also assumes that the bus, the runner and
the authority settle their calls, and `QuorumRoute`
that an adapter whose signal is aborted settles, which `EveryCallEnds` shows of
the adapters in the repository.  Of the SafeLoop clients `CallsSettle` shows it
under two assumptions that no line of theirs enforces: the operator prompt
returns (neither timeout nor signal is looked at before it does), and the CLI
process exits once it is signalled.  `Prompted`, `Approved` and the operator are
not fair.  On the bus only the agents are fair, each polls and marks again and
again; nobody has to send, and restarts are bounded.  `RecordsSettle` and
`RoutesEnd` say "again and again" (`[]<>`): as the calls of a model are finitely many,
a record or request that never settled would violate them.  `ImplementsLedger`,
`ImplementsAuthority` and `ImplementsContract` are checked beside liveness but are
safety properties.

## 4. Theorems

Each theorem holds for all values of the constants that satisfy the named
assumptions of the module (sizes and limits positive, costs natural numbers).

| Theorem | Property | Argument |
|---|---|---|
| `TypeCorrect` | `TypeOK` of `BufferedSink` | every action preserves it; the batch is taken from the queue and every put-back attempt is below `maxAttempts` |
| `QueueBoundedCorrect` | `QueueBounded` | inductive with the type: what overflows is pushed out first (`Oldest` of the excess); needs the cardinality lemmas for the set that leaves and the batch that returns |
| `AuditKeptCorrect` | `AuditKept`, for must-accept, fail-closed sinks | strengthened by: nothing is evicted, a drain that does not throw means the sink is closed, and what is queued, batched or delivered was accepted |
| `AccountedCorrect` | `Accounted`, for best-effort, drop-oldest sinks | strengthened by: the batch has left the queue, and queue, batch and counters hold accepted records only |
| `NeverStuckCorrect` | `NeverStuck`, for best-effort, drop-oldest sinks | a drain arms the timer when it leaves records behind, and whatever clears the timer starts a drain |
| `AttemptsBoundCopiesCorrect` | `AttemptsBoundCopies`, same sinks | copies and strays are at most the attempts, one less for a record that still waits for the call of its attempt |
| `FirstAttemptsInOrderCorrect` | `FirstAttemptsInOrder`, all policies | what was never attempted has only older records in front of it, and backs off for nothing |
| `AuditInOrderCorrect` | `AuditInOrder`, for must-accept, fail-closed sinks | while the sink is open its queue is in the order of the calls and batches are a prefix; after `close`, what is overtaken was attempted; the queue has room for what comes back |
| `ImplementsLedgerCorrect` | `ImplementsLedger`, unless a must-accept sink evicts (no sink of the repository does; an option allows it) | one invariant for both modes: what waits is accepted and not settled, a throwing drain's batch is in the queue and any other's is not, and a must-accept drain that does not throw comes from `close`; each step then maps to one of the ledger or to a stutter |
| `RuntimeTypeCorrect` | `TypeOK` of `AgentRuntime` | `transcript` grows only in a turn that began below `maxTurns`, so the invariant says so for each place inside a turn |
| `ReadyIsReviewedCorrect` | `ReadyIsReviewed` | by the place in the role queue: the last verdicts in the transcript are those the run goes by, and the coder's turn puts all of its reviewers back in the queue |
| `ReadyIsReceiptedCorrect` | `ReadyIsReceipted` | executed actions and receipts differ only where the run is bound to fail |
| `NoPayloadLeftCorrect` | `NoPayloadLeft` | a payload exists only while it is executed or cleaned away |
| `AnnouncedReadyCorrect` | `AnnouncedReady` | budget and fix rounds are within limits wherever the run is not failing |
| `RouterTypeCorrect` | `TypeOK` of `QuorumRoute`, with `spent` within the limit | a charge is made only if it fits; what others spent of a snapshot never exceeds what is spent |
| `SynthesisGroundedCorrect` | `SynthesisGrounded` | by stage: a synthesis is asked for only with all calls settled and a quorum of valid ones, and no reply changes after that; needs the cardinalities of sets of adapters |
| `ReportsConsistentCorrect` | `ReportsConsistent` | each way of building a report has its lemma: settled calls add up to those that ran; a request throws only in the tally, with a failure that has no message |
| `StarvedOnlyByOthersCorrect` | `StarvedOnlyByOthers` | while nobody else has spent since its decision, the budget has room for all that a request's adapters have yet to pay (`ShareInv`); the policy's running estimate is the sum over its selection |
| `ClientsTypeCorrect` | `TypeOK` of `SafeLoopClients` | every action preserves it |
| `OrphansAreRefusedCorrect` | `OrphansAreRefused` | an accepted call has had its receipt written, so that none can come back after it is removed |
| `AbortedIsRefusedCorrect` | `AbortedIsRefused` | no place behind the head of the polling loop is reached with an aborted signal |
| `OverIsOverCorrect` | `OverIsOver` | a call that is over has no payload |
| `RefusalsStandCorrect` | `RefusalsStand` | the three above, and that a call which is over stays over |
| `CallsTypeCorrect` | `TypeOK` of `AdapterInvocation`, with `spent` within the limit | an amount is added only if it fits |
| `BudgetKeptCorrect` | `BudgetKept` | `spent` is the sum over the set of calls that paid, and `paid` is set in the step that adds; a sum grows by one price when a call joins the set, and does not depend on the order, by induction over the size of the set |
| `OnlyEarlierCallsRunCorrect` | `OnlyEarlierCallsRun` | a breaker that opens is numbered after every call admitted so far, and admits none until it closes |
| `AbortedCallYieldsNothingCorrect`, `NoLaunchAfterAbortCorrect` | the properties of these names | by the place of a call: no attempt begins, and no process output is returned, with an aborted signal |
| `ImplementsAuthorityCorrect` | `ImplementsAuthority` | good receipts, and verdicts that rest on them, are of applied actions; each step maps to one of the authority or to a stutter |
| `ShadowTypeCorrect`, `ReportIsTrueCorrect`, `EvaluatedIsConfirmedCorrect` | the properties of `GroundedShadowRuntime` | one invariant: while evaluators are called only the last call may be running, and a race that is open or completed means that nobody has been told to stop; a run with a running call at its end reports it as unconfirmed |
| `BusTypeCorrect` | `TypeOK` of `AgentBus` | every action preserves it |
| `ReadIsHandledCorrect` | `ReadIsHandled` | no two messages have one identifier, over any restarts: generated ones are at most the sequence, seeds have their own |
| `HandledInOrderCorrect` | `HandledInOrder` | a page lists the oldest of what is unread in order, what it left out comes later, and what is marked is older than all that is unread; for seeds with foreign identifiers nothing is claimed |
| `ImplementsContractCorrect` | `ImplementsContract` | with the invariant above each call is one of the SQL functions on the same rows, and a restart from a complete save leaves all rows as they are |
| `FusionIsReported`, `PaidFusionIsReportedCorrect` | `PaidFusionIsReported` | the checks of candidates, verdict and synthesis leave nothing for the report's schema to refuse |
| `FallbackOnlyUnansweredCorrect`, `QuorumCountsOwnAnswersCorrect` | the properties of these names | by the dialect of the adapter and the end of its child or exchange: an answer is never of a safe reason, a counted answer bears the adapter's model |
| `ReplayedSelectionsAgree`, `StaleSelectionsAreRefusedCorrect` | `StaleSelectionsAreRefused` | the schema of a decision looks the selection up again, group by group, and the least level that serves is determined by the report |
| `FlatReportsPass`, `ReportsPass`, `SelectionsPass`, `GuardedSelectionsPass`, `ProducersPassTheirSchemasCorrect` | `ProducersPassTheirSchemas` | for any finite set of valid observations: each field of a group is a sum over the observations of its key (`Summarises`); the observations of a group's children are disjoint parts of its own, so that what the children leave is the sum over the observations without them; and what is resolved shows what the schema looks up (`Shows`, `GuardedShows`) |
| `QualitySectionsAgree` | `OneStory`, the part of `SectionsAgree` about counts and shape | for any number of valid observations of a panel of two to sixteen: every count is the size of a set of observations, and each section's counts are parts of the same sets (`Right`, `Wrong`, `Lost`); the sorted panel lists the panel; pairs of a set, and the squares of the sizes of its groups, by induction over its size |
| `DoctorTakesGenerated`, `GeneratedConfigPassesDoctorCorrect` | `GeneratedConfigPassesDoctor` | check by check, from the conditions under which the generator writes a config; what it writes the reader parses to the same, because they share the schemas of the sections |
| `CloseoutEarned`, `CloseoutIsEarnedCorrect` | `CloseoutIsEarned` | the fold over the roles is five turns, and an invariant of a run after k of them (`RunInv`); a sum of whole times from a whole start is whole |
| `CommandersSelect`, `AcceptedCommanderSelectsCorrect` | `AcceptedCommanderSelects` | whoever the registry lets synthesize is one of its two syntheses, up to the case of its names, so that the policy finds the same descriptor, and takes it if the client is spelled as there; for every `Spellings` that keeps apart the names the code itself writes down (`SpellingsAssumption`) |
| `DecisionsFitBudget`, `EstimatesCover`, `EstimateCoversCallsCorrect` | `EstimateCoversCalls` | an invariant of the fold over the candidates (`DecisionRuns`): the estimate is the sum of the prices of those selected; and, capability by capability, an adapter charges the registered price |

The invariants of `QuorumRoute` and `SafeLoopClients` are conjunctions over
requests.  A step changes the row of one request, so that each proof has a lemma
per action about that row, and one (`RowStep`) that carries the other rows along.

The theorems of the bus assume of its constants: page limits are positive, every
identity belongs to one team and every team has somebody the database lets send and
poll, and seeds are as described in section 2.  Their inductive invariant (`BusInv`)
adds to the properties that identifiers are unique and agree with times, that a page
holds unread messages of its agent in order and leaves out only later ones, and
that what an agent has marked is older than what it has not read.

Recursive definitions of the community modules (sums, folds, `FlattenSeq`) are
reasoned about in two steps: a function that solves the recursion exists, by
induction over the size of its argument, and every solution is the same.  The
induction itself is over a set of numbers (`SetInduction`, from the well-foundedness
of the naturals), because the library's induction rules take an operator.

`DecisionProofs` has theorems about the functions themselves, for all inputs of
their types, and the invariants of `MCDecisions` follow from them.

Checked by TLC only: the liveness properties (`RecordsSettle`, `CallersAnswered`,
`EveryCallEnds`, `EveryRunEnds`, `RoutesEnd`, `CallsSettle`, `RunEnds`, `InboxesDrain`),
because fairness and ENABLED are out of the prover's reach; `BreakerCountsOnce`; and of
`SectionsAgree` the part about rounded rates (`RatesOK`, `ReportOK`), which the
tolerance makes a matter of magnitudes.  Every other invariant and action property of
the passing runs has a theorem.

## 5. Not modelled

Errors and redaction, prompt cache: text processing.  Chainpilot records, grounded
fixture, model catalog: readers and writers of files in one pass.  The starter
project is a template; its `calibration.ts` is a copy of the modelled one, which
`router_test.ts:8524` asserts byte for byte.  Examples call the components above.

Within the modelled components: contents of prompts and outputs, formats of labels
and identifiers, distances of embeddings, wording, layout and logging; the checks
of paths and commands in the action worker (one nondeterministic outcome); the
interactive part of the setup.  Children that ignore SIGTERM and live on after
their call, and unhandled rejections of `stdinPromise`, have no effect on the state
that the models keep.

## 6. Where code and documents disagree

*A resolved audit call* (`buffered-batch-sink.ts:643`).  `docs/release-v0.1.md:161`
promises of the must-accept audit that the caller sees a rejection if its record
cannot be drained.  A drain whose deadline has passed leaves its loop quietly,
and the promise resolves with the record still queued.

*Budget of a fusion run* (`agent-runtime/runtime.ts:516`).
`docs/routing-mode-design.md:279` asks to stop before execution if the
collaboration cannot stay within its budget.  The coder's cost is compared only
after its actions have been executed.

*Equality of a drift* (`calibration/calibration.ts:1229`).  `docs/calibration.md:237`
says that a drift equal to the threshold is within it.  The difference is one of
two rounded binary fractions: 0.8 - 0.5 exceeds 0.3, and a child of five
observations under a parent of eight is quarantined.

Others no document speaks of; the properties name them as what the code does.

- A config that the generator writes with an enabled adaptive section and
  `fallbackPolicy` "disabled" fails the doctor's check (`doctor/checks.ts:250`), and so
  does an endpoint with an at sign in its path and no user information
  (`doctor/checks.ts:342`).
- A commander whose provider is named "Local" is accepted by the setup and refused by
  `selectCommander` (`commander/selector.ts:220`).  One whose client is spelled in
  another case ("codexcli") is accepted and selected, since keys of the registry are in
  lower case (`policy/provider-registry.ts:24`), and refused by the routing policy
  (`policy/direct-routing-policy.ts:104`).
- The Codex synthesis charges one cent more than the registry estimates
  (`adapters/process.ts:977`).
- A ZCode answer whose first line begins with "Error:" is taken for a failure.  The
  redaction of a process's output comes before it is parsed (`adapters/process.ts:364`):
  where it breaks every agent message of a Codex log, the log is taken for the answer.
- An adapter's error with an empty message makes the telemetry's parse throw
  (`telemetry/cofailure.ts:28`, called at `router.ts:520` outside any `catch`), and
  `route()` rejects with that exception even if the quorum was met.
- The share of the uplift that was captured is recomputed from one rounded rate
  (`ensemble/quality.ts:262`).  Of 300 observations, one source right on 100 of them, the
  other on a single other one and nothing selected, the reported share is -100 and the
  recomputed one -99.99999999999: the producer throws on valid observations.
- A simulator started at a fractional or negative time, or with fractional
  durations, announces `closeout_ready` and then fails to parse its transcript
  (`agent-chat/simulator.ts:298`).

## 7. Plan

1. An abstract specification of a quorum (a value is final only with a quorum
   behind it), refined by `QuorumRoute`; today `SynthesisGrounded` says it directly.
2. The action worker's checks of paths, one by one.
3. The chainpilot reader and the grounded fixture, if their formats settle.
