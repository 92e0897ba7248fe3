------------------------ MODULE GroundedShadowRuntime ------------------------
(***************************************************************************)
(* One run of the grounded shadow evaluation                               *)
(* (evaluation/grounded_shadow_runtime.ts): checks, a preflight, one       *)
(* evaluator or two, one after the other, and the delivery of the report   *)
(* to a sink, all before one deadline and under the caller's signal.       *)
(*                                                                         *)
(* Each await is a race of some work against the deadline and the signal.  *)
(* "race" is what the present one has been decided by; the run goes on in  *)
(* an action of its own, since other callbacks may come in between.  Work  *)
(* that lost a race goes on: evaluators are told to stop, but need not.    *)
(***************************************************************************)
EXTENDS GroundedShadow

CONSTANTS
  Prices,   \* possible estimated costs of an evaluator
  MaxCost   \* max_estimated_cost_usd

ASSUME ShadowAssumption == Prices \subseteq Nat /\ MaxCost \in Nat

VARIABLES
  price,    \* estimated_cost_usd of each evaluator
  pc,       \* the await the run is at
  turn,     \* the evaluator that was called last
  race,     \* what has decided the present race: "open" if nothing has
  work,     \* work[e]: what has become of the call of evaluator e
  parsed,   \* parsed[e]: what its output amounts to
  aborted,  \* has the caller's signal been aborted?
  late,     \* has the deadline passed?
  stop,     \* what resolved "stopped", the promise that ends an evaluator's race
  told,     \* has the controller of the evaluators been aborted?
  orphans,  \* evaluators that ended after that
  report    \* the result

control    == <<pc, turn, race>>
evaluators == <<work, parsed, orphans>>
signals    == <<aborted, late, stop, told>>
vars       == <<price, control, evaluators, signals, report>>

Cost(E) == (IF 1 \in E THEN price[1] ELSE 0) + (IF 2 \in E THEN price[2] ELSE 0)

Attempted == {e \in Evaluators : work[e] # "idle"}
Completed == {e \in Evaluators : work[e] = "result"}
Failures  == {e \in Evaluators : work[e] = "failed"}

WorkStates == {"not_started", "completed", "abort_signalled_unconfirmed"}

EarlyReasons == {"disabled", "kill_switch_active", "request_not_opted_in",
                 "invalid_runtime_config", "invalid_frozen_selection"}

Outcomes ==
  EarlyReasons \cup {"identity_distinctness_unavailable", "sampling_excluded",
                       "budget_exceeded_before_invocation", "prompt_too_large",
                       "aborted", "timed_out", "evaluation_completed", "none"}

Reports ==
  [reason : Outcomes, worked : WorkStates, cost : Nat,
   attempted : SUBSET Evaluators, completed : SUBSET Evaluators,
   failures : SUBSET Evaluators, evaluation : Dispositions \cup {"none"},
   sink : {"not_configured", "delivered", "failed"}]

\* baseResult
Base(reason) ==
  [reason |-> reason, worked |-> "not_started", cost |-> 0,
   attempted |-> {}, completed |-> {}, failures |-> {}, evaluation |-> "none",
   sink |-> "not_configured"]

TypeOK ==
  /\ price \in [Evaluators -> Prices]
  /\ pc \in {"idle", "preflight", "evaluating", "resolving", "delivering", "done"}
  /\ turn \in 0 .. 2
  /\ race \in {"open", "completed", "rejected", "aborted", "timed_out"}
  /\ work \in [Evaluators -> {"idle", "running", "result", "failed"}]
  /\ parsed \in [Evaluators -> Parsed]
  /\ aborted \in BOOLEAN /\ late \in BOOLEAN /\ told \in BOOLEAN
  /\ stop \in {"open", "aborted", "timed_out"}
  /\ orphans \subseteq Evaluators
  /\ report \in Reports

Init ==
  /\ price \in [Evaluators -> Prices]
  /\ pc = "idle" /\ turn = 0 /\ race = "open"
  /\ work = [e \in Evaluators |-> "idle"]
  /\ parsed = [e \in Evaluators |-> {}]
  /\ aborted = FALSE /\ late = FALSE /\ stop = "open" /\ told = FALSE
  /\ orphans = {}
  /\ report = Base("none")

-----------------------------------------------------------------------------
(* Parts of the run                                                        *)

\* A result of which the sink hears nothing.
Return(result) ==
  /\ pc' = "done" /\ report' = result
  /\ UNCHANGED <<turn, race, work>>

\* deliver(): it is too late, or there is no sink, or the sink is called.
Deliver(result) ==
  /\ \/ pc' = "done" /\ UNCHANGED race /\ report' = result
     \/ /\ late \/ aborted
        /\ pc' = "done" /\ UNCHANGED race /\ report' = [result EXCEPT !.sink = "failed"]
     \/ /\ ~ late /\ ~ aborted
        /\ pc' = "delivering" /\ race' = "open" /\ report' = result
  /\ UNCHANGED <<turn, work>>

\* The report of the calls made so far.
Account(reason, worked, evaluation) ==
  [reason |-> reason, worked |-> worked, cost |-> Cost(Attempted),
   attempted |-> Attempted, completed |-> Completed, failures |-> Failures,
   evaluation |-> evaluation, sink |-> "not_configured"]

\* providerFailure()
Fail(reason, worked) == Deliver(Account(reason, worked, "none"))

\* invokeEvaluator(), in a race that is lost at once if "stopped" is resolved already.
Launch(e) ==
  /\ pc' = "evaluating" /\ turn' = e /\ race' = stop
  /\ work' = [work EXCEPT ![e] = "running"]
  /\ UNCHANGED report

-----------------------------------------------------------------------------
(* The run                                                                 *)

\* Up to the preflight; raceToDeadline looks at the signal first.
Begin ==
  /\ pc = "idle"
  /\ \/ \E reason \in EarlyReasons : Return(Base(reason))
     \/ /\ pc' = "preflight" /\ race' = IF aborted THEN "aborted" ELSE "open"
        /\ UNCHANGED <<turn, work, report>>
  /\ UNCHANGED <<price, parsed, orphans, signals>>

\* Both evaluators have to be affordable, though the second may not be called.
Affordable == Cost(Evaluators) <= MaxCost

\* After the preflight: the remaining checks, and the first evaluator is called.
ContinuePreflight ==
  /\ pc = "preflight"
  /\ \/ race \in {"aborted", "timed_out"} /\ Return(Base(race))
     \/ race = "rejected" /\ Return(Base("invalid_frozen_selection"))
     \/ /\ race = "completed"
        /\ \E reason \in {"invalid_frozen_selection", "identity_distinctness_unavailable",
                          "sampling_excluded"} : Return(Base(reason))
     \/ /\ race = "completed" /\ ~ Affordable
        /\ Return([Base("budget_exceeded_before_invocation") EXCEPT
                     !.cost = Cost(Evaluators)])
     \/ /\ race = "completed" /\ Affordable
        /\ \/ Return([Base("prompt_too_large") EXCEPT !.cost = Cost(Evaluators)])
           \/ aborted /\ Return(Base("aborted"))
           \/ ~ aborted /\ late /\ Return(Base("timed_out"))
           \/ ~ aborted /\ ~ late /\ Launch(1)
  /\ UNCHANGED <<price, parsed, orphans, signals>>

\* After an evaluator's race.
ContinueEvaluating ==
  /\ pc = "evaluating"
  /\ \/ race \in {"aborted", "timed_out"} /\ Fail(race, "abort_signalled_unconfirmed")
     \/ race = "completed" /\ aborted /\ Fail("aborted", "completed")
     \/ /\ race = "completed" /\ ~ aborted
        /\ pc' = "resolving" /\ race' = IF late THEN "timed_out" ELSE "open"
        /\ UNCHANGED <<turn, work, report>>
  /\ UNCHANGED <<price, parsed, orphans, signals>>

\* Is there an evaluator that has not been called?
Further == turn = 1

\* After a resolution: the second evaluator is called, or the run is completed.
ContinueResolving ==
  /\ pc = "resolving"
  /\ \/ race \in {"aborted", "timed_out"} /\ Fail(race, "completed")
     \/ race = "rejected" /\ Fail("invalid_frozen_selection", "completed")
     \/ race = "completed" /\ Further /\ Launch(turn + 1)
     \/ /\ race = "completed" /\ (Further => ~ Doubtful(parsed[1]))
        /\ Deliver(Account("evaluation_completed", "completed", Resolve(parsed)))
  /\ UNCHANGED <<price, parsed, orphans, signals>>

ContinueDelivering ==
  /\ pc = "delivering" /\ race # "open"
  /\ pc' = "done"
  /\ report' = [report EXCEPT !.sink = IF race = "completed" THEN "delivered" ELSE "failed"]
  /\ UNCHANGED <<price, turn, race, evaluators, signals>>

Continue == ContinuePreflight \/ ContinueEvaluating \/ ContinueResolving \/ ContinueDelivering

-----------------------------------------------------------------------------
(* What decides a race                                                     *)

\* A digest is computed, the sink returns, or either fails.
WorkSettles ==
  /\ pc \in {"preflight", "resolving", "delivering"} /\ race = "open"
  /\ race' \in {"completed", "rejected"}
  /\ UNCHANGED <<price, pc, turn, evaluators, signals, report>>

\* The call of an evaluator ends, in a parsed output or in a failure, at any time.
EvaluatorEnds(e) ==
  /\ work[e] = "running"
  /\ \/ /\ work' = [work EXCEPT ![e] = "result"]
        /\ \E p \in Parsed : parsed' = [parsed EXCEPT ![e] = p]
     \/ work' = [work EXCEPT ![e] = "failed"] /\ UNCHANGED parsed
  /\ orphans' = IF told THEN orphans \cup {e} ELSE orphans
  /\ race' = IF pc = "evaluating" /\ turn = e /\ race = "open" THEN "completed" ELSE race
  /\ UNCHANGED <<price, pc, turn, signals, report>>

Listening == pc \in {"evaluating", "resolving"}

\* The evaluators are not told.
WrongStops(why) ==
  /\ stop' = IF Listening /\ stop = "open" THEN why ELSE stop
  /\ UNCHANGED told

\* The timer of the run, or its listener on the signal: both abort the controller
\* and resolve "stopped", until they are cleaned up.
Stops(why) ==
  /\ stop' = IF Listening /\ stop = "open" THEN why ELSE stop
  /\ told' = (told \/ Listening)

\* The timer of the run, or the clock where another race's timer is running.
DeadlinePasses ==
  /\ pc \notin {"idle", "done"} /\ ~ late
  /\ late' = TRUE
  /\ Stops("timed_out")
  /\ race' = IF pc = "evaluating" /\ race = "open" THEN "timed_out" ELSE race
  /\ UNCHANGED <<price, pc, turn, evaluators, aborted, report>>

\* Digests have no deadline of their own.
WrongRaceTimesOut ==
  /\ pc = "delivering" /\ late /\ race = "open"
  /\ race' = "timed_out"
  /\ UNCHANGED <<price, pc, turn, evaluators, signals, report>>

\* The timer of another race fires; its work may come first although it is late.
RaceTimesOut ==
  /\ pc \in {"preflight", "resolving", "delivering"} /\ late /\ race = "open"
  /\ race' = "timed_out"
  /\ UNCHANGED <<price, pc, turn, evaluators, signals, report>>

\* The caller aborts its signal; every race listens to it.
Abort ==
  /\ pc # "done" /\ ~ aborted
  /\ aborted' = TRUE
  /\ Stops("aborted")
  /\ race' = IF pc # "idle" /\ race = "open" THEN "aborted" ELSE race
  /\ UNCHANGED <<price, pc, turn, evaluators, late, report>>

Next ==
  \/ Begin \/ Continue
  \/ WorkSettles \/ DeadlinePasses \/ RaceTimesOut \/ Abort
  \/ \E e \in Evaluators : EvaluatorEnds(e)

Spec == Init /\ [][Next]_vars

\* The event loop goes on after a race that is decided, and fires timers that are
\* due.  Nothing is assumed of evaluators, sinks or digests.
Fairness == WF_vars(Continue) /\ WF_vars(DeadlinePasses) /\ WF_vars(RaceTimesOut)

FairSpec == Spec /\ Fairness

-----------------------------------------------------------------------------
(* Properties                                                              *)

\* An evaluation stands only if both evaluators gave it, in full agreement and
\* before they were told to stop; it is qualified only if both found every
\* requirement grounded and no unsupported claim.
EvaluatedIsConfirmed ==
  report.evaluation \in {"offline_match_qualified", "offline_match_non_qualified"} =>
    /\ orphans = {}
    /\ \E p \in parsed[1], q \in parsed[2] :
         /\ p.grounds = q.grounds /\ p.claims = q.claims /\ p.reason = q.reason
         /\ report.evaluation = "offline_match_qualified" <=>
              p.claims = {} /\ \A r \in Requirements : p.grounds[r] \in Grounds

\* The report is true of what the evaluators did, also of calls that outlive the run:
\* what was started was paid for within the budget, work that is reported as
\* completed has ended, and work that may go on was told to stop.
ReportIsTrue ==
  pc \in {"delivering", "done"} =>
    /\ report.attempted = Attempted
    /\ report.cost <= MaxCost \/ report.reason = "budget_exceeded_before_invocation"
    /\ Attempted # {} => report.cost = Cost(Attempted)
    /\ report.worked = "not_started" <=> Attempted = {}
    /\ report.worked = "completed" =>
         report.completed = Completed /\ report.failures = Failures
           /\ Completed \cup Failures = Attempted
    /\ report.worked = "abort_signalled_unconfirmed" =>
         told /\ Attempted \ (report.completed \cup report.failures) \subseteq {turn}

\* A run that has begun ends, even if no evaluator, sink or digest ever does.
RunEnds == pc # "idle" ~> pc = "done"
=============================================================================
