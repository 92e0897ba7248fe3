------------------------- MODULE AdapterInvocation --------------------------
(***************************************************************************)
(* ModelAdapter.invoke of the process adapters (adapters/process.ts) and   *)
(* of the direct HTTP adapters (adapters/direct-http.ts): concurrent calls *)
(* that share the circuit breaker of their adapter and an in-memory        *)
(* budget.                                                                 *)
(*                                                                         *)
(* A call tries at most MaxAttempts times.  An attempt of a process        *)
(* adapter runs up to three child processes before the model's (readiness  *)
(* check, refresh, check again), then charges the budget once per call and *)
(* runs the model.  Each child runs against a timeout and the caller's     *)
(* AbortSignal.  Between attempts the call sleeps.                         *)
(*                                                                         *)
(* One action is one stretch of code between two awaits.  The clock is     *)
(* abstracted: a timeout, the end of a backoff and the end of a breaker's  *)
(* cooldown may come at any time.  USD amounts are integers, so the        *)
(* rounding slack USD_EPSILON is zero.                                     *)
(***************************************************************************)
EXTENDS Naturals, FiniteSetsExt

CONSTANTS
  Calls,            \* the invocations
  Adapters,         \* the adapters
  AdapterOf,        \* AdapterOf[c]: the adapter that call c is made on
  Transport,        \* Transport[a]: "process" or "http"
  Auth,             \* Auth[a]: "none", "check" or "refresh" (check and refresh)
  Cost,             \* Cost[a]: options.estimatedCostUsd
  Limit,            \* limitUsd of the budget the adapters share
  FailureThreshold, \* options.circuitBreaker.failureThreshold
  MaxAttempts       \* options.retryPolicy.maxAttempts

ASSUME AdaptersAssumption ==
  /\ AdapterOf \in [Calls -> Adapters]
  /\ Transport \in [Adapters -> {"process", "http"}]
  /\ Auth \in [Adapters -> {"none", "check", "refresh"}]
  /\ Cost \in [Adapters -> Nat]

ASSUME LimitsAssumption ==
  /\ Limit \in Nat
  /\ FailureThreshold \in Nat \ {0}
  /\ MaxAttempts \in Nat \ {0}

VARIABLES
  at,        \* at[c]: where the code of call c stands
  attempt,   \* attempt[c]: number of its current attempt
  launches,  \* launches[c]: model runs it has started
  result,    \* result[c]: what invoke() returned or threw
  aborted,   \* aborted[c]: was its signal aborted, before or during the call?
  paid,      \* paid[c]: budgetReserved
  spent,     \* the budget's spentUsd
  failures,  \* failures[a]: consecutiveFailures of a's breaker
  open,      \* open[a]: is openUntil of a's breaker in the future?
  opened,    \* opened[a]: how often a's breaker has opened (history)
  admitted   \* admitted[c]: opened[AdapterOf[c]] when c was admitted (history)

progress == <<at, attempt, launches, result>>
budget   == <<paid, spent>>
breaker  == <<failures, open, opened>>
vars     == <<progress, aborted, budget, breaker, admitted>>

Stages  == {"checking", "refreshing", "rechecking", "running"}
Errors  == {"circuit_open", "auth_failed", "budget_exhausted", "process_failed",
            "provider_malformed", "timeout", "aborted", "other"}

\* isRetriableError and shouldCountTowardsCircuitBreaker.  process_failed stands
\* for rate_limited too, other for an exception of another class.
Retriable == {"process_failed", "timeout"}

\* A call that the budget turns away counts, too.
WrongCounted == Retriable \cup {"provider_malformed", "other", "budget_exhausted"}

Counted   == Retriable \cup {"provider_malformed", "other"}

IsProcess(c) == Transport[AdapterOf[c]] = "process"

TypeOK ==
  /\ at \in [Calls -> Stages \cup {"idle", "backoff", "done"}]
  /\ attempt \in [Calls -> 0 .. MaxAttempts]
  /\ launches \in [Calls -> Nat]
  /\ result \in [Calls -> Errors \cup {"none", "output"}]
  /\ aborted \in [Calls -> {"no", "before", "during"}]
  /\ paid \in [Calls -> BOOLEAN]
  /\ spent \in Nat
  /\ failures \in [Adapters -> Nat]
  /\ open \in [Adapters -> BOOLEAN]
  /\ opened \in [Adapters -> Nat]
  /\ admitted \in [Calls -> Nat]

Init ==
  /\ at = [c \in Calls |-> "idle"]
  /\ attempt = [c \in Calls |-> 0]
  /\ launches = [c \in Calls |-> 0]
  /\ result = [c \in Calls |-> "none"]
  /\ aborted = [c \in Calls |-> "no"]
  /\ paid = [c \in Calls |-> FALSE]
  /\ spent = 0
  /\ failures = [a \in Adapters |-> 0]
  /\ open = [a \in Adapters |-> FALSE]
  /\ opened = [a \in Adapters |-> 0]
  /\ admitted = [c \in Calls |-> 0]

-----------------------------------------------------------------------------
(* Parts of invoke                                                         *)

Move(c, stage) ==
  /\ at' = [at EXCEPT ![c] = stage]
  /\ UNCHANGED result

\* invoke() returns or throws r.
End(c, r) ==
  /\ at' = [at EXCEPT ![c] = "done"]
  /\ result' = [result EXCEPT ![c] = r]

RecordSuccess(a) ==
  /\ failures' = [failures EXCEPT ![a] = 0]
  /\ open' = [open EXCEPT ![a] = FALSE]
  /\ UNCHANGED opened

\* recordFailure of a breaker that has counted n failures and is open or not.
RecordFailure(a, n, isOpen) ==
  LET opens == n + 1 >= FailureThreshold
  IN  /\ failures' = [failures EXCEPT ![a] = n + 1]
      /\ open' = [open EXCEPT ![a] = isOpen \/ opens]
      /\ opened' = [opened EXCEPT ![a] = IF opens /\ ~ isOpen THEN @ + 1 ELSE @]

\* The end of the catch block: give up, or sleep before the next attempt, which
\* throws at once if the signal is aborted already (sleepWithAbort).
AfterFailure(c, code) ==
  \/ /\ code \in Retriable /\ attempt[c] < MaxAttempts
     /\ IF aborted[c] = "no" THEN Move(c, "backoff") ELSE End(c, "aborted")
  \/ /\ code \notin Retriable \/ attempt[c] >= MaxAttempts
     /\ End(c, code)

\* The catch block of the attempt loop.
Catch(c, code) ==
  /\ AfterFailure(c, code)
  /\ IF code \in Counted
     THEN RecordFailure(AdapterOf[c], failures[AdapterOf[c]], open[AdapterOf[c]])
     ELSE UNCHANGED breaker

\* Every attempt pays.
WrongOwes(c) == Cost[AdapterOf[c]] > 0

\* Does call c still have to charge the budget?
Owes(c) == ~ paid[c] /\ Cost[AdapterOf[c]] > 0

\* Would the budget stay within its limit if call c paid now?
Affordable(c) == spent + Cost[AdapterOf[c]] <= Limit

\* consume, where the call still owes.
Charge(c) ==
  /\ paid' = [paid EXCEPT ![c] = @ \/ Owes(c)]
  /\ spent' = IF Owes(c) THEN spent + Cost[AdapterOf[c]] ELSE spent

\* From the end of the readiness checks to the start of the model's process, or
\* of the request.  An HTTP adapter looks at the signal first, a process adapter
\* does not.  Building the invocation may throw.
ChargeAndRun(c) ==
  \/ /\ Owes(c) /\ ~ Affordable(c)
     /\ Catch(c, "budget_exhausted")
     /\ UNCHANGED <<budget, launches>>
  \/ /\ Owes(c) => Affordable(c)
     /\ Charge(c)
     /\ \/ /\ IsProcess(c) \/ aborted[c] = "no"
           /\ Move(c, "running")
           /\ launches' = [launches EXCEPT ![c] = @ + 1]
           /\ UNCHANGED breaker
        \/ /\ ~ IsProcess(c) /\ aborted[c] # "no"
           /\ Catch(c, "aborted")
           /\ UNCHANGED launches
        \/ /\ Catch(c, "other")
           /\ UNCHANGED launches

\* The body of the attempt loop, up to its first await.  An HTTP adapter has no
\* child to wait for: it reads its API key, which may be missing.
Attempt(c) ==
  \/ /\ IsProcess(c)
     /\ Move(c, "checking")
     /\ UNCHANGED <<launches, budget, breaker>>
  \/ /\ ~ IsProcess(c)
     /\ ChargeAndRun(c)
  \/ /\ ~ IsProcess(c)
     /\ Catch(c, "auth_failed")
     /\ UNCHANGED <<launches, budget>>

\* The child of the current stage failed: a failed check is followed by the
\* refresh command, if there is one; any other failure ends the attempt.
StageFails(c, code) ==
  /\ \/ /\ at[c] = "checking" /\ Auth[AdapterOf[c]] = "refresh"
        /\ Move(c, "refreshing")
        /\ UNCHANGED breaker
     \/ /\ at[c] # "checking" \/ Auth[AdapterOf[c]] # "refresh"
        /\ Catch(c, code)
  /\ UNCHANGED <<attempt, launches, budget, admitted>>

\* The model's run has no timeout.
WrongHasChild(c) == at[c] \in {"refreshing", "rechecking"}

\* Does call c wait for a child process or a request?  Without readiness checks
\* there is none to check.
HasChild(c) == at[c] \in Stages /\ (at[c] = "checking" => Auth[AdapterOf[c]] # "none")

WrongChildAborted(c) == FALSE

\* A process adapter looks at the signal when a child has exited: only then does
\* it notice that the signal was aborted before the child was started.
ChildAborted(c) == IsProcess(c) /\ aborted[c] # "no"

\* The breaker never rejects.
WrongAvailable(a) == TRUE

\* assertAvailable does not throw.
Available(a) == ~ open[a]

-----------------------------------------------------------------------------
(* The steps of a call                                                     *)

Invoke(c) ==
  /\ at[c] = "idle"
  /\ \/ /\ ~ Available(AdapterOf[c])
        /\ End(c, "circuit_open")
        /\ UNCHANGED <<attempt, launches, budget, breaker, admitted>>
     \/ /\ Available(AdapterOf[c])
        /\ attempt' = [attempt EXCEPT ![c] = 1]
        /\ admitted' = [admitted EXCEPT ![c] = opened[AdapterOf[c]]]
        /\ Attempt(c)
  /\ UNCHANGED aborted

\* The child of a readiness stage exits with status 0, or there is none.
StagePasses(c) ==
  /\ ~ ChildAborted(c) \/ ~ HasChild(c)
  /\ \/ /\ at[c] \in {"checking", "rechecking"}
        /\ ChargeAndRun(c)
     \/ /\ at[c] = "refreshing"
        /\ Move(c, "rechecking")
        /\ UNCHANGED <<launches, budget, breaker>>
  /\ UNCHANGED <<attempt, aborted, admitted>>

\* The child exits with an error, or the HTTP request fails.  For an aborted
\* process call the error is "aborted", whatever the exit status.  auth_failed
\* stands for the errors that are neither retried nor counted.  An HTTP call
\* that is aborted while its body is read reports a malformed response.
ChildFails(c) ==
  /\ HasChild(c)
  /\ \/ /\ ChildAborted(c)
        /\ StageFails(c, "aborted")
     \/ /\ ~ ChildAborted(c)
        /\ \E code \in {"process_failed", "auth_failed"} : StageFails(c, code)
     \/ /\ ~ IsProcess(c) /\ aborted[c] # "no"
        /\ \E code \in {"aborted", "provider_malformed"} : StageFails(c, code)
  /\ UNCHANGED aborted

TimesOut(c) ==
  /\ HasChild(c)
  /\ StageFails(c, "timeout")
  /\ UNCHANGED aborted

\* The model answers: its output is returned, or is malformed.
ModelAnswers(c) ==
  /\ at[c] = "running" /\ ~ ChildAborted(c)
  /\ \/ /\ End(c, "output")
        /\ RecordSuccess(AdapterOf[c])
     \/ Catch(c, "provider_malformed")
  /\ UNCHANGED <<attempt, launches, aborted, budget, admitted>>

\* A custom parser returns an object that ModelOutputSchema rejects: the success
\* has been recorded by then, and a failure is recorded on top of it.
OutputRejected(c) ==
  /\ at[c] = "running" /\ ~ ChildAborted(c)
  /\ RecordFailure(AdapterOf[c], 0, FALSE)
  /\ End(c, "provider_malformed")
  /\ UNCHANGED <<attempt, launches, aborted, budget, admitted>>

BackoffElapses(c) ==
  /\ at[c] = "backoff"
  /\ attempt' = [attempt EXCEPT ![c] = @ + 1]
  /\ Attempt(c)
  /\ UNCHANGED <<aborted, admitted>>

-----------------------------------------------------------------------------
(* The caller and the clock                                                *)

\* The signal is aborted before the call: nobody listens yet.
AbortBefore(c) ==
  /\ at[c] = "idle" /\ aborted[c] = "no"
  /\ aborted' = [aborted EXCEPT ![c] = "before"]
  /\ UNCHANGED <<progress, budget, breaker, admitted>>

\* The signal is aborted during the call: a running child is told to stop and no
\* longer waited for, a sleep ends, an HTTP request will fail or just succeed.
AbortDuring(c) ==
  /\ aborted[c] = "no"
  /\ aborted' = [aborted EXCEPT ![c] = "during"]
  /\ \/ /\ IsProcess(c) /\ HasChild(c)
        /\ StageFails(c, "aborted")
     \/ /\ at[c] = "backoff"
        /\ End(c, "aborted")
        /\ UNCHANGED <<attempt, launches, budget, breaker, admitted>>
     \/ /\ ~ IsProcess(c) /\ at[c] = "running"
        /\ UNCHANGED <<progress, budget, breaker, admitted>>

CooldownEnds(a) ==
  /\ open[a]
  /\ open' = [open EXCEPT ![a] = FALSE]
  /\ UNCHANGED <<progress, aborted, budget, failures, opened, admitted>>

Next ==
  \/ \E c \in Calls :
       \/ Invoke(c)
       \/ StagePasses(c)
       \/ ChildFails(c)
       \/ TimesOut(c)
       \/ ModelAnswers(c)
       \/ OutputRejected(c)
       \/ BackoffElapses(c)
       \/ AbortBefore(c)
       \/ AbortDuring(c)
  \/ \E a \in Adapters : CooldownEnds(a)

Spec == Init /\ [][Next]_vars

\* Timers fire and an attempt without readiness checks goes on by itself;
\* nothing is assumed of the children or of the caller.
Fairness ==
  \A c \in Calls :
    WF_vars(TimesOut(c) \/ BackoffElapses(c) \/ (StagePasses(c) /\ ~ HasChild(c)))

FairSpec == Spec /\ Fairness

-----------------------------------------------------------------------------
(* Properties                                                              *)

\* Concurrent calls never overdraw the budget; each pays at most once, however
\* often it retries; and no model run starts unpaid.
BudgetKept ==
  /\ spent <= Limit
  /\ spent = MapThenSumSet(LAMBDA c : Cost[AdapterOf[c]], {c \in Calls : paid[c]})
  /\ \A c \in Calls : launches[c] > 0 /\ Cost[AdapterOf[c]] > 0 => paid[c]

\* While a breaker is open, only calls that were admitted before it last opened
\* are in progress on its adapter (they go on retrying).
OnlyEarlierCallsRun ==
  \A c \in Calls :
    open[AdapterOf[c]] /\ at[c] \notin {"idle", "done"} => admitted[c] < opened[AdapterOf[c]]

\* An abort stops the retries: a call whose signal is aborted on its way starts
\* no further model run, though a refresh command may still run.
NoLaunchAfterAbort ==
  [][\A c \in Calls : aborted[c] = "during" => launches'[c] = launches[c]]_vars

\* A call aborted while a process runs, or before the call, never returns an
\* output, even if its child exits with one.
AbortedCallYieldsNothing ==
  \A c \in Calls :
    aborted[c] = "before" \/ (aborted[c] = "during" /\ IsProcess(c)) => result[c] # "output"

\* A breaker holds an attempt against its provider at most once, over all retries,
\* aborts and late successes of other calls; and never one that is still under
\* way, ended in an answer, or was stopped by the budget or the credentials.
BreakerCountsOnce ==
  \A a \in Adapters :
    LET callers == {c \in Calls : AdapterOf[c] = a}
        spared  == {c \in callers :
                      \/ at[c] \in Stages
                      \/ result[c] \in {"output", "budget_exhausted", "auth_failed"}}
    IN  failures[a] + Cardinality(spared) <= MapThenSumSet(LAMBDA c : attempt[c], callers)

\* Every call returns or throws, even if no child process ever exits.
EveryCallEnds ==
  \A c \in Calls : at[c] # "idle" ~> at[c] = "done"
=============================================================================
