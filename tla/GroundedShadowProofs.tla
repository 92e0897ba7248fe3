------------------------- MODULE GroundedShadowProofs -------------------------
(***************************************************************************)
(* Safety of the grounded shadow evaluation for every contract, all prices *)
(* and every budget.                                                       *)
(***************************************************************************)
EXTENDS GroundedShadowRuntime, TLAPS

Ended == {"result", "failed"}

\* Outputs are kept for calls that returned one; nothing is called unless both
\* evaluators are affordable.
WorkInv ==
  /\ \A e \in Evaluators : parsed[e] # {} => work[e] = "result"
  /\ Attempted # {} => Affordable

\* Before the first call.
FreshInv ==
  pc \in {"idle", "preflight"} =>
    /\ \A e \in Evaluators : work[e] = "idle"
    /\ orphans = {} /\ stop = "open" /\ ~ told

\* While evaluators are called: only the last call may be running, and it has lost
\* its race if it was told to stop.
CallInv ==
  Listening =>
    /\ turn \in Evaluators
    /\ \A e \in Evaluators : work[e] = "idle" <=> e > turn
    /\ \A e \in Evaluators : e < turn => work[e] \in Ended
    /\ told <=> stop # "open"
    /\ pc = "resolving" \/ race = "completed" => work[turn] \in Ended /\ orphans = {}
    /\ pc = "evaluating" /\ race = "open" => ~ told /\ orphans = {}
    /\ pc = "evaluating" /\ race \in {"aborted", "timed_out"} => told

\* No evaluation is reported before the end.
ReportInv ==
  /\ pc \in {"idle", "preflight", "evaluating", "resolving"} => report.evaluation = "none"
  /\ report.evaluation # "none" => report.worked = "completed"

RunInv ==
  /\ TypeOK /\ WorkInv /\ FreshInv /\ CallInv /\ ReportInv
  /\ ReportIsTrue /\ EvaluatedIsConfirmed

-----------------------------------------------------------------------------
(* Answers                                                                 *)

LEMMA ParsedCoherent ==
  ASSUME NEW p \in Parsed
  PROVE  \A q \in p : q \in Answers /\ Coherent(q)
BY DEF Parsed

\* A coherent answer is qualified just if every requirement has its ground and no
\* claim is unsupported.
LEMMA QualifiedIsGrounded ==
  ASSUME NEW q \in Answers, Coherent(q)
  PROVE  q.status = "qualified" <=>
           q.claims = {} /\ \A r \in Requirements : q.grounds[r] \in Grounds
<1>1. \A r \in Requirements : q.grounds[r] \in Grounds <=> q.grounds[r] # "none"
  BY ContractAssumption DEF Answers
<1>2. Satisfied(q) = Requirements <=> \A r \in Requirements : q.grounds[r] \in Grounds
  BY <1>1 DEF Satisfied
<1>3. Requirements # {}
  BY ContractAssumption
<1> QED BY <1>2, <1>3 DEF Coherent

LEMMA ResolveConfirms ==
  ASSUME TypeOK,
         Resolve(parsed) \in {"offline_match_qualified", "offline_match_non_qualified"}
  PROVE  \E p \in parsed[1], q \in parsed[2] :
           /\ p.grounds = q.grounds /\ p.claims = q.claims /\ p.reason = q.reason
           /\ Resolve(parsed) = "offline_match_qualified" <=>
                p.claims = {} /\ \A r \in Requirements : p.grounds[r] \in Grounds
<1>1. /\ 1 \in Evaluators /\ 2 \in Evaluators
      /\ parsed[1] \in Parsed /\ parsed[2] \in Parsed
  BY DEF TypeOK, Evaluators
<1>2. /\ parsed[1] # {} /\ parsed[2] # {}
      /\ \A p \in parsed[1], q \in parsed[2] : Agree(p, q)
      /\ Resolve(parsed) = "offline_match_qualified" <=>
           \E p \in parsed[1] : p.status = "qualified"
  BY <1>1 DEF Resolve
<1>3. PICK p \in parsed[1], q \in parsed[2] : Agree(p, q)
  BY <1>2
<1>4. p.grounds = q.grounds /\ p.claims = q.claims /\ p.reason = q.reason
  BY <1>3 DEF Agree, Canonical
<1>5. parsed[1] = {p}
  BY <1>1 DEF Parsed
<1>6. p \in Answers /\ Coherent(p)
  BY <1>1, ParsedCoherent
<1>7. p.status = "qualified" <=>
        p.claims = {} /\ \A r \in Requirements : p.grounds[r] \in Grounds
  BY <1>6, QualifiedIsGrounded
<1> QED BY <1>2, <1>4, <1>5, <1>7

LEMMA ResolveType == Resolve(parsed) \in Dispositions
BY DEF Resolve, Dispositions

LEMMA NothingParsed == {} \in Parsed
BY DEF Parsed

-----------------------------------------------------------------------------
(* Costs and reports                                                       *)

LEMMA CostType ==
  ASSUME TypeOK, NEW E \in SUBSET Evaluators
  PROVE  Cost(E) \in Nat /\ Cost(E) <= Cost(Evaluators)
<1>1. price[1] \in Nat /\ price[2] \in Nat
  <2>1. 1 \in Evaluators /\ 2 \in Evaluators
    BY DEF Evaluators
  <2> QED BY <2>1, ShadowAssumption DEF TypeOK
<1> QED BY <1>1 DEF Cost, Evaluators

LEMMA BaseType ==
  ASSUME NEW reason \in Outcomes
  PROVE  Base(reason) \in Reports
BY DEF Base, Reports, WorkStates

LEMMA AccountType ==
  ASSUME TypeOK, NEW reason \in Outcomes, NEW worked \in WorkStates,
         NEW evaluation \in Dispositions \cup {"none"}
  PROVE  Account(reason, worked, evaluation) \in Reports
<1>1. Cost(Attempted) \in Nat
  BY CostType DEF Attempted
<1> QED BY <1>1 DEF Account, Reports, Attempted, Completed, Failures

\* What the calls made so far say of themselves.
LEMMA CallsAccounted ==
  ASSUME RunInv, Listening
  PROVE  /\ Attempted # {}
         /\ Attempted \ (Completed \cup Failures) \subseteq {turn}
         /\ work[turn] \in Ended => Completed \cup Failures = Attempted
<1>1. /\ turn \in Evaluators
      /\ \A e \in Evaluators : work[e] = "idle" <=> e > turn
      /\ \A e \in Evaluators : e < turn => work[e] \in Ended
  BY DEF RunInv, CallInv
<1>2. work[turn] # "idle"
  BY <1>1 DEF Evaluators
<1>3. \A e \in Evaluators : e < turn \/ e = turn \/ e > turn
  BY <1>1 DEF Evaluators
<1>4. \A e \in Attempted : e = turn \/ e \in Completed \cup Failures
  BY <1>1, <1>3 DEF Attempted, Completed, Failures, Ended
<1>5. Completed \cup Failures \subseteq Attempted
  BY DEF Attempted, Completed, Failures
<1>6. work[turn] \in Ended => turn \in Completed \cup Failures
  BY <1>1 DEF Completed, Failures, Ended
<1> QED BY <1>1, <1>2, <1>4, <1>5, <1>6 DEF Attempted

-----------------------------------------------------------------------------
(* Parts of the run                                                        *)

LEMMA ReturnKeeps ==
  ASSUME RunInv, pc \in {"idle", "preflight"},
         NEW result \in Reports, result.worked = "not_started",
         result.attempted = {}, result.evaluation = "none",
         result.cost <= MaxCost \/ result.reason = "budget_exceeded_before_invocation",
         Return(result), UNCHANGED <<price, parsed, orphans, signals>>
  PROVE  RunInv'
<1>1. /\ \A e \in Evaluators : work[e] = "idle"
      /\ \A e \in Evaluators : work'[e] = "idle"
  BY DEF RunInv, FreshInv, Return
<1>2. Attempted = {} /\ Attempted' = {}
  BY <1>1 DEF Attempted
<1>3. TypeOK'
  BY DEF RunInv, TypeOK, Return, signals
<1>4. WorkInv' /\ FreshInv' /\ CallInv' /\ ReportInv'
  BY <1>2 DEF RunInv, WorkInv, FreshInv, CallInv, ReportInv, Return, Listening
<1>5. ReportIsTrue'
  BY <1>2 DEF ReportIsTrue, Return
<1>6. EvaluatedIsConfirmed'
  BY DEF EvaluatedIsConfirmed, Return
<1> QED BY <1>3, <1>4, <1>5, <1>6 DEF RunInv

LEMMA DeliverKeeps ==
  ASSUME RunInv, Listening,
         NEW reason \in Outcomes, NEW worked \in WorkStates \ {"not_started"},
         NEW evaluation \in Dispositions \cup {"none"},
         worked = "completed" => work[turn] \in Ended,
         worked = "abort_signalled_unconfirmed" => told,
         evaluation # "none" =>
           worked = "completed" /\ evaluation = Resolve(parsed) /\ orphans = {},
         Deliver(Account(reason, worked, evaluation)),
         UNCHANGED <<price, parsed, orphans, signals>>
  PROVE  RunInv'
<1> DEFINE result == Account(reason, worked, evaluation)
<1>1. /\ pc' \in {"delivering", "done"}
      /\ race' \in {race, "open"} /\ turn' = turn /\ work' = work
      /\ report' = result \/ report' = [result EXCEPT !.sink = "failed"]
      /\ price' = price /\ parsed' = parsed /\ orphans' = orphans
      /\ aborted' = aborted /\ late' = late /\ stop' = stop /\ told' = told
  BY DEF Deliver, signals
<1>2. TypeOK /\ result \in Reports
  BY AccountType DEF RunInv
<1>3. /\ report'.reason = reason /\ report'.worked = worked
      /\ report'.cost = Cost(Attempted) /\ report'.evaluation = evaluation
      /\ report'.attempted = Attempted /\ report'.completed = Completed
      /\ report'.failures = Failures /\ report' \in Reports
  BY <1>1, <1>2 DEF Account, Reports
<1>4. /\ Attempted' = Attempted /\ Completed' = Completed /\ Failures' = Failures
      /\ Cost(Attempted)' = Cost(Attempted) /\ (Affordable' <=> Affordable)
  BY <1>1 DEF Attempted, Completed, Failures, Cost, Affordable
<1>5. Attempted # {} /\ Affordable /\ Cost(Attempted) <= MaxCost
  <2>1. Attempted # {} /\ Affordable
    BY CallsAccounted DEF RunInv, WorkInv
  <2>2. Cost(Attempted) \in Nat /\ Cost(Attempted) <= Cost(Evaluators)
        /\ Cost(Evaluators) \in Nat
    BY <1>2, CostType DEF Attempted
  <2> QED BY <2>1, <2>2, ShadowAssumption DEF Affordable
<1>6. TypeOK'
  BY <1>1, <1>2, <1>3 DEF TypeOK
<1>7. WorkInv' /\ FreshInv' /\ CallInv'
  BY <1>1, <1>4, <1>5 DEF RunInv, WorkInv, FreshInv, CallInv, Listening
<1>8. ReportInv'
  BY <1>1, <1>3 DEF ReportInv
<1>9. ReportIsTrue'
  BY <1>1, <1>3, <1>4, <1>5, CallsAccounted DEF ReportIsTrue
<1>10. EvaluatedIsConfirmed'
  BY <1>1, <1>2, <1>3, ResolveConfirms DEF EvaluatedIsConfirmed
<1> QED BY <1>6, <1>7, <1>8, <1>9, <1>10 DEF RunInv

LEMMA LaunchKeeps ==
  ASSUME RunInv, NEW e \in Evaluators, Launch(e), Affordable,
         \/ pc = "preflight" /\ e = 1
         \/ pc = "resolving" /\ turn = 1 /\ e = 2,
         UNCHANGED <<price, parsed, orphans, signals>>
  PROVE  RunInv'
<1>1. /\ pc' = "evaluating" /\ turn' = e /\ race' = stop
      /\ work' = [work EXCEPT ![e] = "running"] /\ report' = report
      /\ price' = price /\ parsed' = parsed /\ orphans' = orphans
      /\ aborted' = aborted /\ late' = late /\ stop' = stop /\ told' = told
  BY DEF Launch, signals
<1>2. /\ TypeOK /\ work[e] = "idle" /\ orphans = {} /\ (told <=> stop # "open")
      /\ \A f \in Evaluators : f < e => work[f] \in Ended
      /\ \A f \in Evaluators : f > e => work[f] = "idle"
      /\ report.evaluation = "none"
  BY DEF RunInv, FreshInv, CallInv, ReportInv, Listening, Evaluators
<1>3. TypeOK'
  BY <1>1, <1>2 DEF TypeOK, Evaluators
<1>4. WorkInv'
  BY <1>1, <1>2 DEF RunInv, WorkInv, TypeOK, Affordable, Cost
<1>5. FreshInv' /\ ReportInv' /\ ReportIsTrue' /\ EvaluatedIsConfirmed'
  BY <1>1, <1>2 DEF FreshInv, ReportInv, ReportIsTrue, EvaluatedIsConfirmed
<1>6. CallInv'
  BY <1>1, <1>2 DEF CallInv, TypeOK, Listening, Evaluators, Ended
<1> QED BY <1>3, <1>4, <1>5, <1>6 DEF RunInv

-----------------------------------------------------------------------------
(* The run                                                                 *)

LEMMA BeginKeeps == ASSUME RunInv, Begin PROVE RunInv'
<1>1. CASE \E reason \in EarlyReasons : Return(Base(reason))
  <2>1. PICK reason \in EarlyReasons : Return(Base(reason))
    BY <1>1
  <2>2. Base(reason) \in Reports
    BY BaseType DEF Outcomes
  <2>3. UNCHANGED <<price, parsed, orphans, signals>> /\ pc = "idle"
    BY DEF Begin
  <2> QED BY <2>1, <2>2, <2>3, ReturnKeeps, ShadowAssumption DEF Base
<1>2. CASE /\ pc' = "preflight" /\ race' = IF aborted THEN "aborted" ELSE "open"
           /\ UNCHANGED <<turn, work, report>>
  <2>1. pc = "idle" /\ UNCHANGED <<price, parsed, orphans, signals>>
    BY DEF Begin
  <2>2. TypeOK'
    BY <1>2, <2>1 DEF RunInv, TypeOK, signals
  <2>3. WorkInv' /\ FreshInv' /\ CallInv'
    BY <1>2, <2>1 DEF RunInv, WorkInv, FreshInv, CallInv, Listening, Attempted, Affordable,
                      Cost, signals
  <2>4. ReportInv' /\ ReportIsTrue' /\ EvaluatedIsConfirmed'
    BY <1>2, <2>1 DEF RunInv, ReportInv, ReportIsTrue, EvaluatedIsConfirmed
  <2> QED BY <2>2, <2>3, <2>4 DEF RunInv
<1> QED BY <1>1, <1>2 DEF Begin

LEMMA ContinuePreflightKeeps == ASSUME RunInv, ContinuePreflight PROVE RunInv'
<1>1. pc = "preflight" /\ UNCHANGED <<price, parsed, orphans, signals>>
  BY DEF ContinuePreflight
<1>2. Cost(Evaluators) \in Nat
  BY CostType DEF RunInv
<1>3. ASSUME NEW reason \in Outcomes, Return(Base(reason))
      PROVE  RunInv'
  BY <1>1, <1>3, BaseType, ReturnKeeps, ShadowAssumption DEF Base
<1>4. CASE ~ Affordable /\ Return([Base("budget_exceeded_before_invocation") EXCEPT
                                     !.cost = Cost(Evaluators)])
  <2> DEFINE result == [Base("budget_exceeded_before_invocation") EXCEPT
                          !.cost = Cost(Evaluators)]
  <2>1. Base("budget_exceeded_before_invocation") \in Reports
    BY BaseType DEF Outcomes
  <2>2. /\ result \in Reports /\ result.worked = "not_started" /\ result.attempted = {}
        /\ result.evaluation = "none" /\ result.reason = "budget_exceeded_before_invocation"
    BY <1>2, <2>1 DEF Base, Reports
  <2> QED BY <1>1, <1>4, <2>2, ReturnKeeps
<1>5. CASE Affordable /\ Return([Base("prompt_too_large") EXCEPT !.cost = Cost(Evaluators)])
  <2> DEFINE result == [Base("prompt_too_large") EXCEPT !.cost = Cost(Evaluators)]
  <2>1. Base("prompt_too_large") \in Reports
    BY BaseType DEF Outcomes
  <2>2. /\ result \in Reports /\ result.worked = "not_started" /\ result.attempted = {}
        /\ result.evaluation = "none" /\ result.cost <= MaxCost
    BY <1>2, <1>5, <2>1 DEF Base, Reports, Affordable
  <2> QED BY <1>1, <1>5, <2>2, ReturnKeeps
<1>6. CASE Affordable /\ Launch(1)
  BY <1>1, <1>6, LaunchKeeps DEF Evaluators
<1> QED BY <1>3, <1>4, <1>5, <1>6 DEF ContinuePreflight, Outcomes, EarlyReasons

LEMMA ContinueEvaluatingKeeps == ASSUME RunInv, ContinueEvaluating PROVE RunInv'
<1>1. /\ pc = "evaluating" /\ Listening
      /\ UNCHANGED <<price, parsed, orphans, signals>>
  BY DEF ContinueEvaluating, Listening
<1>2. CASE race \in {"aborted", "timed_out"} /\ Fail(race, "abort_signalled_unconfirmed")
  <2>1. told
    BY <1>1, <1>2 DEF RunInv, CallInv
  <2> QED BY <1>1, <1>2, <2>1, DeliverKeeps DEF Fail, Outcomes, WorkStates
<1>3. CASE race = "completed" /\ aborted /\ Fail("aborted", "completed")
  <2>1. work[turn] \in Ended
    BY <1>1, <1>3 DEF RunInv, CallInv
  <2> QED BY <1>1, <1>3, <2>1, DeliverKeeps DEF Fail, Outcomes, WorkStates
<1>4. CASE /\ race = "completed" /\ ~ aborted
           /\ pc' = "resolving" /\ race' = IF late THEN "timed_out" ELSE "open"
           /\ UNCHANGED <<turn, work, report>>
  <2>1. TypeOK'
    BY <1>1, <1>4 DEF RunInv, TypeOK, signals
  <2>2. WorkInv' /\ FreshInv' /\ CallInv'
    BY <1>1, <1>4 DEF RunInv, WorkInv, FreshInv, CallInv, Listening, Attempted, Affordable,
                      Cost, signals
  <2>3. ReportInv' /\ ReportIsTrue' /\ EvaluatedIsConfirmed'
    BY <1>1, <1>4 DEF RunInv, ReportInv, ReportIsTrue, EvaluatedIsConfirmed
  <2> QED BY <2>1, <2>2, <2>3 DEF RunInv
<1> QED BY <1>2, <1>3, <1>4 DEF ContinueEvaluating

LEMMA ContinueResolvingKeeps == ASSUME RunInv, ContinueResolving PROVE RunInv'
<1>1. /\ pc = "resolving" /\ Listening
      /\ UNCHANGED <<price, parsed, orphans, signals>>
      /\ work[turn] \in Ended /\ orphans = {} /\ turn \in Evaluators
  BY DEF ContinueResolving, Listening, RunInv, CallInv
<1>2. CASE race \in {"aborted", "timed_out"} /\ Fail(race, "completed")
  BY <1>1, <1>2, DeliverKeeps DEF Fail, Outcomes, WorkStates
<1>3. CASE race = "rejected" /\ Fail("invalid_frozen_selection", "completed")
  BY <1>1, <1>3, DeliverKeeps DEF Fail, Outcomes, EarlyReasons, WorkStates
<1>4. CASE race = "completed" /\ Further /\ Launch(turn + 1)
  <2>1. Affordable
    BY <1>1, CallsAccounted DEF RunInv, WorkInv
  <2> QED BY <1>1, <1>4, <2>1, LaunchKeeps DEF Further, Evaluators
<1>5. CASE Deliver(Account("evaluation_completed", "completed", Resolve(parsed)))
  BY <1>1, <1>5, ResolveType, DeliverKeeps DEF Outcomes, WorkStates
<1> QED BY <1>2, <1>3, <1>4, <1>5 DEF ContinueResolving

LEMMA ContinueDeliveringKeeps == ASSUME RunInv, ContinueDelivering PROVE RunInv'
<1>1. /\ pc = "delivering" /\ pc' = "done"
      /\ report' \in Reports /\ \E s : report' = [report EXCEPT !.sink = s]
      /\ UNCHANGED <<price, turn, race, evaluators, signals>>
  BY DEF ContinueDelivering, RunInv, TypeOK, Reports
<1>2. /\ report'.reason = report.reason /\ report'.worked = report.worked
      /\ report'.cost = report.cost /\ report'.evaluation = report.evaluation
      /\ report'.attempted = report.attempted /\ report'.completed = report.completed
      /\ report'.failures = report.failures
  BY <1>1 DEF RunInv, TypeOK, Reports
<1>3. TypeOK'
  BY <1>1 DEF RunInv, TypeOK, evaluators, signals
<1>4. WorkInv' /\ FreshInv' /\ CallInv' /\ ReportInv'
  BY <1>1, <1>2 DEF RunInv, WorkInv, FreshInv, CallInv, ReportInv, Listening, Attempted,
                    Affordable, Cost, evaluators
<1>5. ReportIsTrue'
  BY <1>1, <1>2 DEF RunInv, ReportIsTrue, Attempted, Completed, Failures, Cost, evaluators,
                    signals
<1>6. EvaluatedIsConfirmed'
  BY <1>1, <1>2 DEF RunInv, EvaluatedIsConfirmed, evaluators
<1> QED BY <1>3, <1>4, <1>5, <1>6 DEF RunInv

-----------------------------------------------------------------------------
(* What decides a race                                                     *)

LEMMA WorkSettlesKeeps == ASSUME RunInv, WorkSettles \/ RaceTimesOut PROVE RunInv'
<1>1. /\ pc \in {"preflight", "resolving", "delivering"}
      /\ race' \in {"completed", "rejected", "timed_out"}
      /\ UNCHANGED <<price, pc, turn, evaluators, signals, report>>
  BY DEF WorkSettles, RaceTimesOut
<1>2. TypeOK'
  BY <1>1 DEF RunInv, TypeOK, evaluators, signals
<1>3. WorkInv' /\ FreshInv' /\ CallInv' /\ ReportInv'
  BY <1>1 DEF RunInv, WorkInv, FreshInv, CallInv, ReportInv, Listening, Attempted,
              Affordable, Cost, evaluators, signals
<1>4. ReportIsTrue' /\ EvaluatedIsConfirmed'
  BY <1>1 DEF RunInv, ReportIsTrue, EvaluatedIsConfirmed, Attempted, Completed, Failures,
              Cost, evaluators, signals
<1> QED BY <1>2, <1>3, <1>4 DEF RunInv

LEMMA SignalKeeps == ASSUME RunInv, DeadlinePasses \/ Abort PROVE RunInv'
<1>1. /\ UNCHANGED <<price, pc, turn, evaluators, report>>
      /\ aborted' \in BOOLEAN /\ late' \in BOOLEAN
      /\ \E why \in {"aborted", "timed_out"} :
           /\ stop' = IF Listening /\ stop = "open" THEN why ELSE stop
           /\ race' \in {race, why}
           /\ pc = "evaluating" => race' # "open"
           /\ race' = race \/ race = "open"
      /\ told' = (told \/ Listening)
  BY DEF RunInv, TypeOK, DeadlinePasses, Abort, Stops
<1>2. TypeOK'
  BY <1>1 DEF RunInv, TypeOK, evaluators
<1>3. WorkInv' /\ FreshInv' /\ CallInv' /\ ReportInv'
  BY <1>1 DEF RunInv, WorkInv, FreshInv, CallInv, ReportInv, Listening, Attempted,
              Affordable, Cost, evaluators
<1>4. ReportIsTrue' /\ EvaluatedIsConfirmed'
  BY <1>1 DEF RunInv, ReportIsTrue, EvaluatedIsConfirmed, Attempted, Completed, Failures,
              Cost, evaluators
<1> QED BY <1>2, <1>3, <1>4 DEF RunInv

LEMMA EvaluatorEndsKeeps ==
  ASSUME RunInv, NEW e \in Evaluators, EvaluatorEnds(e)
  PROVE  RunInv'
<1>1. /\ work[e] = "running"
      /\ \E w \in Ended : work' = [work EXCEPT ![e] = w]
      /\ \A f \in Evaluators : f # e => parsed'[f] = parsed[f]
      /\ parsed' \in [Evaluators -> Parsed]
      /\ parsed'[e] # {} => work'[e] = "result"
      /\ orphans' = IF told THEN orphans \cup {e} ELSE orphans
      /\ race' = IF pc = "evaluating" /\ turn = e /\ race = "open" THEN "completed" ELSE race
      /\ UNCHANGED <<price, pc, turn, signals, report>>
  BY DEF RunInv, TypeOK, WorkInv, EvaluatorEnds, Ended
<1>2. TypeOK'
  BY <1>1 DEF RunInv, TypeOK, Ended, signals
<1>3. Attempted' = Attempted
  BY <1>1 DEF Attempted, Ended, RunInv, TypeOK
<1>4. WorkInv'
  BY <1>1, <1>3 DEF RunInv, TypeOK, WorkInv, Affordable, Cost
<1>5. FreshInv' /\ ReportInv'
  BY <1>1 DEF RunInv, FreshInv, ReportInv
<1>6. CallInv'
  BY <1>1 DEF RunInv, TypeOK, CallInv, Listening, Ended, Evaluators, signals
<1>7. pc \in {"delivering", "done"} =>
        report.worked = "abort_signalled_unconfirmed" /\ report.evaluation = "none"
  <2>1. e \in Attempted /\ e \notin Completed \cup Failures
    BY <1>1 DEF Attempted, Completed, Failures
  <2>2. report.worked \in WorkStates
    BY DEF RunInv, TypeOK, Reports
  <2>3. pc \in {"delivering", "done"} => report.worked = "abort_signalled_unconfirmed"
    BY <2>1, <2>2 DEF RunInv, ReportIsTrue, WorkStates
  <2> QED BY <2>3 DEF RunInv, ReportInv
<1>8. ReportIsTrue'
  BY <1>1, <1>3, <1>7 DEF RunInv, ReportIsTrue, Cost, signals
<1>9. EvaluatedIsConfirmed'
  <2>1. pc \notin {"delivering", "done"} => report.evaluation = "none"
    BY DEF RunInv, TypeOK, ReportInv
  <2> QED BY <1>1, <1>7, <2>1 DEF EvaluatedIsConfirmed
<1> QED BY <1>2, <1>4, <1>5, <1>6, <1>8, <1>9 DEF RunInv

-----------------------------------------------------------------------------
(* Theorems                                                                *)

LEMMA InitRunInv == Init => RunInv
<1> SUFFICES ASSUME Init PROVE RunInv
  OBVIOUS
<1>1. Base("none") \in Reports
  BY BaseType DEF Outcomes
<1>2. TypeOK
  <2>1. parsed \in [Evaluators -> Parsed]
    BY NothingParsed DEF Init
  <2>2. report \in Reports
    BY <1>1 DEF Init
  <2>3. work \in [Evaluators -> {"idle", "running", "result", "failed"}]
    BY DEF Init
  <2>4. aborted \in BOOLEAN /\ late \in BOOLEAN /\ told \in BOOLEAN
    BY Zenon DEF Init
  <2>5. price \in [Evaluators -> Prices] /\ turn \in 0 .. 2 /\ orphans \subseteq Evaluators
    BY DEF Init
  <2> QED BY <2>1, <2>2, <2>3, <2>4, <2>5 DEF Init, TypeOK
<1>3. WorkInv /\ FreshInv /\ CallInv
  BY DEF Init, WorkInv, FreshInv, CallInv, Attempted, Listening
<1>4. ReportInv /\ ReportIsTrue /\ EvaluatedIsConfirmed
  BY DEF Init, Base, ReportInv, ReportIsTrue, EvaluatedIsConfirmed
<1> QED BY <1>2, <1>3, <1>4 DEF RunInv

LEMMA NextRunInv == RunInv /\ [Next]_vars => RunInv'
<1> SUFFICES ASSUME RunInv, [Next]_vars PROVE RunInv'
  OBVIOUS
<1>1. CASE Next
  BY <1>1, BeginKeeps, ContinuePreflightKeeps, ContinueEvaluatingKeeps,
     ContinueResolvingKeeps, ContinueDeliveringKeeps, WorkSettlesKeeps, SignalKeeps,
     EvaluatorEndsKeeps DEF Next, Continue
<1>2. CASE UNCHANGED vars
  <2>1. TypeOK'
    BY <1>2 DEF RunInv, TypeOK, vars, control, evaluators, signals
  <2>2. WorkInv' /\ FreshInv' /\ CallInv' /\ ReportInv'
    BY <1>2 DEF RunInv, WorkInv, FreshInv, CallInv, ReportInv, Listening, Attempted,
                Affordable, Cost, vars, control, evaluators, signals
  <2>3. ReportIsTrue' /\ EvaluatedIsConfirmed'
    BY <1>2 DEF RunInv, ReportIsTrue, EvaluatedIsConfirmed, Attempted, Completed, Failures,
                Cost, vars, control, evaluators, signals
  <2> QED BY <2>1, <2>2, <2>3 DEF RunInv
<1> QED BY <1>1, <1>2

LEMMA RunInvariant == Spec => []RunInv
BY InitRunInv, NextRunInv, PTL DEF Spec

\* Every state of every run has its type.
THEOREM ShadowTypeCorrect == Spec => []TypeOK
BY RunInvariant, PTL DEF RunInv

\* An evaluation that stands was given by both evaluators, in time and in agreement.
THEOREM EvaluatedIsConfirmedCorrect == Spec => []EvaluatedIsConfirmed
BY RunInvariant, PTL DEF RunInv

\* Every report is true of what the evaluators did, and within the budget.
THEOREM ReportIsTrueCorrect == Spec => []ReportIsTrue
BY RunInvariant, PTL DEF RunInv
=============================================================================
