----------------------------- MODULE QuorumRoute ----------------------------
(***************************************************************************)
(* QuorumRouter.route in direct mode (router.ts,                           *)
(* routeDirectWithDecisionReport): concurrent requests on one router.      *)
(*                                                                         *)
(* A request asks the routing policy, if the router has one, which         *)
(* adapters fit what is left of the budget; invokes those adapters all at  *)
(* once; waits until each of them has settled; and has the synthesis       *)
(* adapter merge the validated outputs, if they are enough.  One timer     *)
(* aborts whatever the request waits for.                                  *)
(*                                                                         *)
(* The policy only reads the budget.  The calls charge it one by one,      *)
(* while those of other requests do the same.  The inside of a call is     *)
(* AdapterInvocation's subject: here it is called, then paid, and ends as  *)
(* a validated output or as a failure.  All adapters charge the budget     *)
(* that the policy reads.  USD amounts are integers.                       *)
(***************************************************************************)
EXTENDS Naturals, Sequences, FiniteSets

CONSTANTS
  Requests,           \* the route() calls
  Candidates,         \* modelAdapters, in order
  Key,                \* Key[a]: what selection goes by (provider, model, client, ...)
  Label,              \* Label[a]: "provider/model"
  IsProcess,          \* IsProcess[a]: is a a process adapter?
  Custom,             \* Custom[a]: may a throw an error of its owner's making, with an empty message or code?
  Cost,               \* Cost[k]: estimatedCostUsd for key k, in the registry and the adapter
  SynthesisEstimate,  \* the registry's estimatedCostUsd of the synthesis adapter
  SynthesisCost,      \* what the synthesis adapter charges
  SynthesisIsProcess, \* is the synthesis adapter a process adapter?
  MinSuccessful,      \* minSuccessfulAdapters
  Limit               \* limitUsd of the budget

Adapters == {Candidates[i] : i \in DOMAIN Candidates}
Keys     == {Key[a] : a \in Adapters}
Labels   == {Label[a] : a \in Adapters}

ASSUME RouterAssumption ==
  /\ Candidates \in Seq(Adapters) /\ Candidates # <<>>
  /\ \A i, j \in DOMAIN Candidates : Candidates[i] = Candidates[j] => i = j
  /\ \A a \in Adapters : IsProcess[a] \in BOOLEAN /\ Custom[a] \in BOOLEAN
  /\ SynthesisIsProcess \in BOOLEAN
  /\ MinSuccessful \in 1 .. Len(Candidates)

ASSUME BudgetAssumption ==
  /\ \A a \in Adapters : Cost[Key[a]] \in Nat
  /\ SynthesisEstimate \in Nat /\ SynthesisCost \in Nat
  /\ Limit \in Nat

VARIABLES
  policy,    \* does the router have a routing policy?
  stage,     \* stage[r]: what request r does
  ran,       \* ran[r]: executionAdapters
  reply,     \* reply[r][a]: where the call of adapter a stands
  late,      \* late[r]: the stage in which the timer fired, or "no"
  result,    \* result[r]: what route() returned or threw
  report,    \* report[r]: its decision report, or NoReport
  sources,   \* sources[r]: the sources of its final synthesis
  spent,     \* the budget's spentUsd
  foreign,   \* foreign[r]: spent by others since r's decision (history)
  starved    \* starved[r]: adapters whose call the budget refused (history)

calls   == <<ran, reply>>
verdict == <<result, report, sources>>
budget  == <<spent, foreign, starved>>
vars    == <<policy, stage, calls, late, verdict, budget>>

\* A mute call has failed with an error that has no message.
Replies  == {"none", "called", "paid", "valid", "failed", "mute"}
Outcomes == {"minimum_valid_outputs_synthesized", "no_executable_adapters",
             "insufficient_valid_outputs", "synthesis_failed"}

\* What is kept of a decision report; its other numbers are copies of these.
Reports == [outcome : Outcomes, effective : Nat, attempted : Nat, validated : Nat,
            failed : Nat, synthesisFailures : Nat]
NoReport == [outcome |-> "none"]

TypeOK ==
  /\ policy \in BOOLEAN
  /\ stage \in [Requests -> {"idle", "executing", "synthesizing", "writing", "done"}]
  /\ ran \in [Requests -> SUBSET Adapters]
  /\ reply \in [Requests -> [Adapters -> Replies]]
  /\ late \in [Requests -> {"no", "executing", "synthesizing", "writing"}]
  /\ result \in [Requests -> {"none", "final", "rejected", "failed_closed", "threw"}]
  /\ report \in [Requests -> Reports \cup {NoReport}]
  /\ sources \in [Requests -> Seq(Labels)]
  /\ spent \in 0 .. Limit
  /\ foreign \in [Requests -> 0 .. Limit]
  /\ starved \in [Requests -> SUBSET Adapters]

Init ==
  /\ policy \in BOOLEAN
  /\ stage = [r \in Requests |-> "idle"]
  /\ ran = [r \in Requests |-> {}]
  /\ reply = [r \in Requests |-> [a \in Adapters |-> "none"]]
  /\ late = [r \in Requests |-> "no"]
  /\ result = [r \in Requests |-> "none"]
  /\ report = [r \in Requests |-> NoReport]
  /\ sources = [r \in Requests |-> <<>>]
  /\ spent = 0
  /\ foreign = [r \in Requests |-> 0]
  /\ starved = [r \in Requests |-> {}]

-----------------------------------------------------------------------------
(* The routing policy                                                      *)

\* What has been spent already is not counted.
WrongFits(cost, estimate) == estimate + cost <= Limit

\* Does a candidate fit, after what has been selected so far?
Fits(cost, estimate) == estimate + cost <= Limit - spent

\* CapabilityDirectRoutingPolicy.decide: the synthesis is set aside first, then
\* the candidates whose key is ready are taken in order, each if it fits.
Selected(ready) ==
  LET decided[i \in 0 .. Len(Candidates)] ==
        IF i = 0 THEN [adapters |-> {}, estimate |-> SynthesisEstimate]
        ELSE LET a == Candidates[i]
             IN  IF Key[a] \in ready /\ Fits(Cost[Key[a]], decided[i - 1].estimate)
                 THEN [adapters |-> decided[i - 1].adapters \cup {a},
                       estimate |-> decided[i - 1].estimate + Cost[Key[a]]]
                 ELSE decided[i - 1]
  IN  decided[Len(Candidates)].adapters

\* selectAdaptersForDecision: by their keys.
Executable(selected) == {a \in Adapters : Key[a] \in {Key[s] : s \in selected}}

-----------------------------------------------------------------------------
(* Replies, quorum and report                                              *)

Valid(r)  == {a \in ran[r] : reply[r][a] = "valid"}
Failed(r) == {a \in ran[r] : reply[r][a] \in {"failed", "mute"}}

\* buildCoFailureTelemetry: its schema wants a message of every failure.
Telling(r) == \A a \in ran[r] : reply[r][a] # "mute"

\* As with Promise.all: a failed call holds the request up.
WrongSettled(r) == \A a \in ran[r] : reply[r][a] = "valid"

\* Promise.allSettled: every call has ended.
Settled(r) == \A a \in ran[r] : reply[r][a] \in {"valid", "failed", "mute"}

\* The larger of the two.
WrongEffective(adapters) ==
  IF Cardinality(adapters) > MinSuccessful THEN Cardinality(adapters) ELSE MinSuccessful

\* effectiveMinSuccessfulAdapters.
Effective(adapters) ==
  IF Cardinality(adapters) < MinSuccessful THEN Cardinality(adapters) ELSE MinSuccessful

\* buildDecisionReport.
Report(r, outcome, adapters) ==
  [outcome   |-> outcome,
   effective |-> Effective(adapters),
   attempted |-> Cardinality(adapters),
   validated |-> Cardinality(Valid(r)),
   failed    |-> Cardinality(Failed(r)),
   synthesisFailures |-> IF outcome = "synthesis_failed" THEN 1 ELSE 0]

\* Does refineDecisionReport accept rep?
Consistent(rep) ==
  LET minimumMet == rep.effective > 0 /\ rep.validated >= rep.effective
  IN  /\ rep.effective <= MinSuccessful
      /\ rep.validated + rep.failed = rep.attempted
      /\ CASE rep.outcome = "minimum_valid_outputs_synthesized" ->
                minimumMet /\ rep.synthesisFailures = 0
           [] rep.outcome = "synthesis_failed" ->
                minimumMet /\ rep.synthesisFailures >= 1
           [] rep.outcome = "insufficient_valid_outputs" ->
                rep.effective > 0 /\ ~ minimumMet /\ rep.synthesisFailures = 0
           [] rep.outcome = "no_executable_adapters" ->
                rep.effective = 0 /\ rep.attempted = 0

\* failClosed, with a report of what the request did.
FailClosed(r, outcome, adapters) ==
  /\ stage' = [stage EXCEPT ![r] = "done"]
  /\ result' = [result EXCEPT ![r] = "failed_closed"]
  /\ report' = [report EXCEPT ![r] = Report(r, outcome, adapters)]
  /\ UNCHANGED sources

\* consume does not throw.
Affordable(cost) == spent + cost <= Limit

\* Request r charges the budget.
Charge(r, cost) ==
  /\ Affordable(cost)
  /\ spent' = spent + cost
  /\ foreign' = [q \in Requests |->
                   IF q # r /\ stage[q] # "idle" THEN foreign[q] + cost ELSE foreign[q]]
  /\ UNCHANGED starved

-----------------------------------------------------------------------------
(* The steps of a request                                                  *)

\* route() throws before it has a decision: invalid calibration evidence, or a
\* policy that finds no synthesis adapter that is ready and fits.
Reject(r) ==
  /\ stage[r] = "idle"
  /\ stage' = [stage EXCEPT ![r] = "done"]
  /\ result' = [result EXCEPT ![r] = "rejected"]
  /\ UNCHANGED <<policy, calls, late, report, sources, budget>>

\* route() invokes the adapters that the policy selected, given the keys that are
\* ready (registry and readiness hints).
Route(r, ready) ==
  /\ stage[r] = "idle"
  /\ policy => Fits(SynthesisEstimate, 0)
  /\ LET execution == IF policy THEN Executable(Selected(ready)) ELSE Adapters
     IN  \/ /\ Effective(execution) >= 1
            /\ stage' = [stage EXCEPT ![r] = "executing"]
            /\ ran' = [ran EXCEPT ![r] = execution]
            /\ reply' = [reply EXCEPT ![r] =
                           [a \in Adapters |-> IF a \in execution THEN "called" ELSE "none"]]
            /\ UNCHANGED verdict
         \/ /\ Effective(execution) < 1
            /\ FailClosed(r, "no_executable_adapters", execution)
            /\ UNCHANGED calls
  /\ UNCHANGED <<policy, late, budget>>

\* An adapter charges the budget, or is refused.
CallPays(r, a) ==
  /\ reply[r][a] = "called" /\ late[r] = "no"
  /\ \/ /\ Charge(r, Cost[Key[a]])
        /\ reply' = [reply EXCEPT ![r][a] = "paid"]
     \/ /\ ~ Affordable(Cost[Key[a]])
        /\ reply' = [reply EXCEPT ![r][a] = "failed"]
        /\ starved' = [starved EXCEPT ![r] = @ \cup {a}]
        /\ UNCHANGED <<spent, foreign>>
  /\ UNCHANGED <<policy, stage, ran, late, verdict>>

\* An output that carries the identity of its adapter.  A process adapter has
\* none once its signal is aborted.
CallAnswers(r, a) ==
  /\ reply[r][a] = "paid"
  /\ late[r] # "no" => ~ IsProcess[a]
  /\ reply' = [reply EXCEPT ![r][a] = "valid"]
  /\ UNCHANGED <<policy, stage, ran, late, verdict, budget>>

\* The adapter throws, or its output has another identity or is malformed.
CallFails(r, a) ==
  /\ reply[r][a] \in {"called", "paid"}
  /\ \/ reply' = [reply EXCEPT ![r][a] = "failed"]
     \/ /\ Custom[a]
        /\ reply' = [reply EXCEPT ![r][a] = "mute"]
  /\ UNCHANGED <<policy, stage, ran, late, verdict, budget>>

\* All calls have ended: synthesis follows if enough outputs are valid.  Before
\* they are counted the telemetry is parsed, and nothing catches what it throws.
Tally(r) ==
  /\ stage[r] = "executing" /\ Settled(r)
  /\ \/ /\ ~ Telling(r)
        /\ stage' = [stage EXCEPT ![r] = "done"]
        /\ result' = [result EXCEPT ![r] = "threw"]
        /\ UNCHANGED <<report, sources>>
     \/ /\ Telling(r) /\ Cardinality(Valid(r)) >= Effective(ran[r])
        /\ stage' = [stage EXCEPT ![r] = "synthesizing"]
        /\ UNCHANGED verdict
     \/ /\ Telling(r) /\ Cardinality(Valid(r)) < Effective(ran[r])
        /\ FailClosed(r, "insufficient_valid_outputs", ran[r])
  /\ UNCHANGED <<policy, calls, late, budget>>

\* The synthesis adapter charges the budget.
SynthesisPays(r) ==
  /\ stage[r] = "synthesizing"
  /\ Charge(r, SynthesisCost)
  /\ stage' = [stage EXCEPT ![r] = "writing"]
  /\ UNCHANGED <<policy, calls, late, verdict>>

\* Will the synthesis adapter notice that its signal is aborted?  Not an HTTP
\* adapter whose response has just come.
Heeded(r) ==
  late[r] \in {"executing", "synthesizing"} \/ (late[r] = "writing" /\ SynthesisIsProcess)

\* Sources may repeat, and name adapters that failed.
WrongGrounded(r, s) == \A i \in DOMAIN s : s[i] \in {Label[a] : a \in ran[r]}

\* Are the sources unique labels of outputs that this request has validated?
Grounded(r, s) ==
  /\ \A i \in DOMAIN s : s[i] \in {Label[a] : a \in Valid(r)}
  /\ \A i, j \in DOMAIN s : s[i] = s[j] => i = j

\* The synthesis adapter returns a synthesis with sources s.
SynthesisAnswers(r, s) ==
  /\ stage[r] = "writing" /\ ~ Heeded(r)
  /\ \/ /\ Grounded(r, s)
        /\ stage' = [stage EXCEPT ![r] = "done"]
        /\ result' = [result EXCEPT ![r] = "final"]
        /\ sources' = [sources EXCEPT ![r] = s]
        /\ report' = [report EXCEPT ![r] =
                        Report(r, "minimum_valid_outputs_synthesized", ran[r])]
     \/ /\ ~ Grounded(r, s)
        /\ FailClosed(r, "synthesis_failed", ran[r])
  /\ UNCHANGED <<policy, calls, late, budget>>

\* The synthesis adapter throws: not ready, not affordable, aborted or malformed.
SynthesisFails(r) ==
  /\ stage[r] \in {"synthesizing", "writing"}
  /\ FailClosed(r, "synthesis_failed", ran[r])
  /\ UNCHANGED <<policy, calls, late, budget>>

\* The timer of the request fires: controller.abort().
TimesOut(r) ==
  /\ stage[r] \notin {"idle", "done"} /\ late[r] = "no"
  /\ late' = [late EXCEPT ![r] = stage[r]]
  /\ UNCHANGED <<policy, stage, calls, verdict, budget>>

\* What a synthesis adapter may name as its sources: one or two labels.
SourceLists == {<<l>> : l \in Labels} \cup {<<l, m>> : l \in Labels, m \in Labels}

Next ==
  \E r \in Requests :
    \/ Reject(r)
    \/ \E ready \in SUBSET Keys : Route(r, ready)
    \/ \E a \in Adapters : CallPays(r, a) \/ CallAnswers(r, a) \/ CallFails(r, a)
    \/ Tally(r)
    \/ SynthesisPays(r)
    \/ \E s \in SourceLists : SynthesisAnswers(r, s)
    \/ SynthesisFails(r)
    \/ TimesOut(r)

Spec == Init /\ [][Next]_vars

\* The timer fires, and what is aborted ends (AdapterInvocation's EveryCallEnds);
\* nothing else is assumed of the adapters.
Fairness ==
  \A r \in Requests :
    /\ WF_vars(TimesOut(r))
    /\ WF_vars(Tally(r))
    /\ WF_vars(late[r] # "no" /\ SynthesisFails(r))
    /\ \A a \in Adapters : WF_vars(late[r] # "no" /\ CallFails(r, a))

FairSpec == Spec /\ Fairness

-----------------------------------------------------------------------------
(* Properties                                                              *)

\* A final synthesis rests on a quorum: at least the effective minimum of
\* outputs was validated in this very request, and its sources are unique labels
\* of such outputs, never of a call that failed, was not made or is another's.
SynthesisGrounded ==
  \A r \in Requests : result[r] = "final" =>
    LET valid == {a \in ran[r] : reply[r][a] = "valid"}
    IN  /\ valid # {} /\ sources[r] # <<>>
        /\ Cardinality(valid) >= MinSuccessful \/ valid = ran[r]
        /\ {sources[r][i] : i \in DOMAIN sources[r]} \subseteq {Label[a] : a \in valid}
        /\ Cardinality({sources[r][i] : i \in DOMAIN sources[r]}) = Len(sources[r])

\* A request that has called its adapters ends with a decision report that the
\* schema accepts, whichever of them failed and wherever it failed itself.  The
\* one exception is a failure without a message, which may cost it the report
\* and, however many outputs are valid, the synthesis: nothing else does.
ReportsConsistent ==
  \A r \in Requests :
    /\ stage[r] = "done" /\ ran[r] # {} /\ (\A a \in ran[r] : reply[r][a] # "mute") =>
         result[r] \in {"final", "failed_closed"}
    /\ result[r] \in {"final", "failed_closed"} => Consistent(report[r])
    /\ result[r] = "final" <=> report[r].outcome = "minimum_valid_outputs_synthesized"

\* The budget refuses a candidate that the policy let in only if another request
\* has spent of it since: the estimate of a request alone covers its calls, as
\* long as no two of the adapters it ran share a key.
StarvedOnlyByOthers ==
  policy => \A r \in Requests :
    starved[r] # {} => foreign[r] > 0 \/ \E a, b \in ran[r] : a # b /\ Key[a] = Key[b]

\* Every request ends, even if no adapter ever answers: each is routed once, and
\* again and again none of them is under way.
RoutesEnd == []<>(\A r \in Requests : stage[r] \in {"idle", "done"})
=============================================================================
