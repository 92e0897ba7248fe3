-------------------------- MODULE QuorumRouteProofs --------------------------
(***************************************************************************)
(* Safety of the router for every set of requests, adapters and costs: the *)
(* invariants that the runs check follow from one inductive invariant,     *)
(* which says of each request, by its stage, what has been settled.        *)
(***************************************************************************)
EXTENDS QuorumRoute, FiniteSetTheorems, WellFoundedInduction, TLAPS

Busy == {"executing", "synthesizing", "writing"}

\* The row of request r: what no other request changes.
Row(r) == <<stage[r], ran[r], reply[r], late[r], result[r], report[r], sources[r]>>

\* Only adapters that were invoked reply; none is on its way after the tally.
CallsInv(r) ==
  /\ \A a \in Adapters : a \notin ran[r] => reply[r][a] = "none"
  /\ stage[r] # "executing" => \A a \in Adapters : reply[r][a] \notin {"called", "paid"}

\* A synthesis is only asked for, or returned, with a quorum.
QuorumInv(r) ==
  stage[r] \in {"synthesizing", "writing"} \/ result[r] = "final" =>
    Settled(r) /\ Cardinality(Valid(r)) >= Effective(ran[r])

\* A request has no result before it is done, and a final one has grounds.
ResultInv(r) ==
  /\ stage[r] \in Busy \/ result[r] = "final" => Effective(ran[r]) >= 1
  /\ stage[r] # "done" => result[r] = "none" /\ report[r] = NoReport
  /\ stage[r] = "idle" => late[r] = "no" /\ ran[r] = {}
  /\ result[r] = "final" =>
       /\ sources[r] \in SourceLists /\ Grounded(r, sources[r])

\* Every request that has called adapters ends with a report, or for want of a message.
ReportInv(r) ==
  /\ stage[r] = "done" /\ ran[r] # {} /\ Telling(r) =>
       result[r] \in {"final", "failed_closed"}
  /\ result[r] \in {"final", "failed_closed"} => Consistent(report[r])
  /\ result[r] = "final" <=> report[r].outcome = "minimum_valid_outputs_synthesized"

RowInv(r) == CallsInv(r) /\ QuorumInv(r) /\ ResultInv(r) /\ ReportInv(r)

RouteInv ==
  /\ TypeOK
  /\ \A r \in Requests : foreign[r] <= spent
  /\ \A r \in Requests : RowInv(r)

-----------------------------------------------------------------------------
(* Sets of adapters                                                        *)

LEMMA AdaptersFinite == IsFiniteSet(Adapters)
<1>1. Candidates \in [1 .. Len(Candidates) -> Adapters] /\ Len(Candidates) \in Nat
  BY RouterAssumption
<1>2. Candidates \in Surjection(1 .. Len(Candidates), Adapters)
  BY <1>1 DEF Surjection, Adapters
<1>3. IsFiniteSet(1 .. Len(Candidates))
  BY <1>1, FS_Interval
<1> QED BY <1>2, <1>3, FS_Surjection

LEMMA AdapterSets ==
  ASSUME NEW S \in SUBSET Adapters, NEW T \in SUBSET S
  PROVE  /\ IsFiniteSet(S) /\ IsFiniteSet(T)
         /\ Cardinality(S) \in Nat /\ Cardinality(T) \in Nat
         /\ Cardinality(T) <= Cardinality(S)
         /\ Cardinality(T) = Cardinality(S) => T = S
<1>1. IsFiniteSet(S)
  BY AdaptersFinite, FS_Subset
<1>2. IsFiniteSet(T) /\ Cardinality(T) <= Cardinality(S)
      /\ (Cardinality(S) = Cardinality(T) => S = T)
  BY <1>1, FS_Subset
<1> QED BY <1>1, <1>2, FS_CardinalityType

LEMMA EffectiveType ==
  ASSUME NEW S \in SUBSET Adapters
  PROVE  /\ Effective(S) \in Nat /\ MinSuccessful \in Nat
         /\ Effective(S) <= MinSuccessful /\ Effective(S) <= Cardinality(S)
         /\ Effective(S) = MinSuccessful \/ Effective(S) = Cardinality(S)
<1>1. Cardinality(S) \in Nat
  BY AdapterSets
<1>2. MinSuccessful \in Nat
  BY RouterAssumption
<1> QED BY <1>1, <1>2 DEF Effective

\* What one request shows of its calls are sets of adapters that it invoked.
LEMMA ReplySets ==
  ASSUME TypeOK, NEW r \in Requests
  PROVE  /\ ran[r] \in SUBSET Adapters
         /\ Valid(r) \in SUBSET ran[r] /\ Failed(r) \in SUBSET ran[r]
         /\ Cardinality(ran[r]) \in Nat
         /\ Cardinality(Valid(r)) \in Nat /\ Cardinality(Failed(r)) \in Nat
<1>1. ran[r] \in SUBSET Adapters
  BY DEF TypeOK
<1>2. Valid(r) \in SUBSET ran[r] /\ Failed(r) \in SUBSET ran[r]
  BY DEF Valid, Failed
<1> QED BY <1>1, <1>2, AdapterSets

\* Once all calls have ended they add up.
LEMMA SettledAddsUp ==
  ASSUME TypeOK, NEW r \in Requests, Settled(r)
  PROVE  Cardinality(Valid(r)) + Cardinality(Failed(r)) = Cardinality(ran[r])
<1>1. Valid(r) \cup Failed(r) = ran[r] /\ Valid(r) \cap Failed(r) = {}
  BY DEF Settled, Valid, Failed
<1>2. IsFiniteSet(Valid(r)) /\ IsFiniteSet(Failed(r))
  BY ReplySets, AdapterSets
<1>3. Cardinality(Valid(r) \cup Failed(r))
        = Cardinality(Valid(r)) + Cardinality(Failed(r)) - Cardinality(Valid(r) \cap Failed(r))
  BY <1>2, FS_Union
<1>4. Cardinality(Valid(r) \cap Failed(r)) = 0
  BY <1>1, FS_EmptySet, Zenon
<1>5. Cardinality(Valid(r) \cup Failed(r)) = Cardinality(ran[r])
  BY <1>1, Zenon
<1> QED BY <1>3, <1>4, <1>5, ReplySets

-----------------------------------------------------------------------------
(* Reports                                                                 *)

LEMMA ReportType ==
  ASSUME TypeOK, NEW r \in Requests, NEW outcome \in Outcomes, NEW S \in SUBSET Adapters
  PROVE  Report(r, outcome, S) \in Reports /\ Report(r, outcome, S).outcome = outcome
<1>1. Effective(S) \in Nat /\ Cardinality(S) \in Nat
  BY EffectiveType, AdapterSets
<1> QED BY <1>1, ReplySets DEF Report, Reports

\* The report of a synthesis, or of its failure, is consistent if a quorum stands.
LEMMA QuorumReportConsistent ==
  ASSUME TypeOK, NEW r \in Requests, Settled(r), Effective(ran[r]) >= 1,
         Cardinality(Valid(r)) >= Effective(ran[r])
  PROVE  /\ Consistent(Report(r, "minimum_valid_outputs_synthesized", ran[r]))
         /\ Consistent(Report(r, "synthesis_failed", ran[r]))
<1>1. /\ Effective(ran[r]) \in Nat /\ Effective(ran[r]) <= MinSuccessful
      /\ Cardinality(Valid(r)) + Cardinality(Failed(r)) = Cardinality(ran[r])
      /\ Cardinality(Valid(r)) \in Nat
  BY ReplySets, EffectiveType, SettledAddsUp
<1>2. Consistent(Report(r, "minimum_valid_outputs_synthesized", ran[r]))
  BY <1>1 DEF Consistent, Report
<1>3. Consistent(Report(r, "synthesis_failed", ran[r]))
  BY <1>1 DEF Consistent, Report
<1> QED BY <1>2, <1>3

\* The report of too few valid outputs is consistent.
LEMMA ShortReportConsistent ==
  ASSUME TypeOK, NEW r \in Requests, Settled(r), Effective(ran[r]) >= 1,
         Cardinality(Valid(r)) < Effective(ran[r])
  PROVE  Consistent(Report(r, "insufficient_valid_outputs", ran[r]))
<1>1. /\ Effective(ran[r]) \in Nat /\ Effective(ran[r]) <= MinSuccessful
      /\ Cardinality(Valid(r)) + Cardinality(Failed(r)) = Cardinality(ran[r])
      /\ Cardinality(Valid(r)) \in Nat
  BY ReplySets, EffectiveType, SettledAddsUp
<1> QED BY <1>1 DEF Consistent, Report

\* The report of a request that invoked nothing is consistent.
LEMMA EmptyReportConsistent ==
  ASSUME TypeOK, NEW r \in Requests, NEW S \in SUBSET Adapters, Effective(S) < 1,
         ran[r] = {}
  PROVE  Consistent(Report(r, "no_executable_adapters", S))
<1>1. Effective(S) = 0 /\ Cardinality(S) = 0 /\ MinSuccessful \in Nat
  <2>1. MinSuccessful >= 1
    BY RouterAssumption
  <2> QED BY <2>1, EffectiveType, AdapterSets
<1>2. Cardinality(Valid(r)) = 0 /\ Cardinality(Failed(r)) = 0
  <2>1. Valid(r) = {} /\ Failed(r) = {}
    BY DEF Valid, Failed
  <2> QED BY <2>1, FS_EmptySet
<1> QED BY <1>1, <1>2 DEF Consistent, Report
-----------------------------------------------------------------------------
(* The inductive invariant                                                 *)

LEMMA InitRouteInv == Init => RouteInv
<1> SUFFICES ASSUME Init PROVE RouteInv
  OBVIOUS
<1>1. TypeOK
  <2>1. 0 \in 0 .. Limit
    BY BudgetAssumption
  <2>2. sources \in [Requests -> Seq(Labels)]
    BY DEF Init
  <2> QED BY <2>1, <2>2 DEF Init, TypeOK, Replies, NoReport
<1>2. \A r \in Requests : foreign[r] <= spent
  BY DEF Init
<1>3. ASSUME NEW r \in Requests PROVE RowInv(r)
  BY DEF Init, RowInv, CallsInv, QuorumInv, ResultInv, ReportInv, NoReport, Busy
<1> QED BY <1>1, <1>2, <1>3 DEF RouteInv

\* A request whose row stands still keeps its invariant.
LEMMA RowStable ==
  ASSUME NEW r \in Requests, RowInv(r), UNCHANGED Row(r)
  PROVE  RowInv(r)'
<1>1. /\ stage'[r] = stage[r] /\ ran'[r] = ran[r] /\ reply'[r] = reply[r]
      /\ late'[r] = late[r] /\ result'[r] = result[r] /\ report'[r] = report[r]
      /\ sources'[r] = sources[r]
  BY DEF Row
<1>2. /\ Valid(r)' = Valid(r) /\ (Settled(r)' <=> Settled(r))
      /\ Telling(r)' <=> Telling(r)
  BY <1>1 DEF Valid, Settled, Telling
<1>3. Grounded(r, sources[r])' <=> Grounded(r, sources[r])
  BY <1>1, <1>2 DEF Grounded
<1>4. CallsInv(r)' /\ ReportInv(r)'
  BY <1>1, <1>2 DEF RowInv, CallsInv, ReportInv
<1>5. Effective(ran[r])' = Effective(ran[r])
  BY <1>1 DEF Effective
<1>6. QuorumInv(r)'
  BY <1>1, <1>2, <1>5 DEF RowInv, QuorumInv
<1>7. ResultInv(r)'
  BY <1>1, <1>3, <1>5 DEF RowInv, ResultInv
<1> QED BY <1>4, <1>6, <1>7 DEF RowInv

\* A charge keeps the budget, and nobody's share of it exceeds what is spent.
LEMMA ChargeEffect ==
  ASSUME RouteInv, NEW r \in Requests, NEW cost \in Nat, Charge(r, cost)
  PROVE  /\ spent' \in 0 .. Limit /\ foreign' \in [Requests -> 0 .. Limit]
         /\ starved' \in [Requests -> SUBSET Adapters]
         /\ \A q \in Requests : foreign'[q] <= spent'
<1>1. /\ spent \in 0 .. Limit /\ foreign \in [Requests -> 0 .. Limit] /\ Limit \in Nat
      /\ starved \in [Requests -> SUBSET Adapters]
      /\ \A q \in Requests : foreign[q] <= spent
  BY BudgetAssumption DEF RouteInv, TypeOK
<1>2. spent' = spent + cost /\ spent' \in 0 .. Limit
  BY <1>1 DEF Charge, Affordable
<1>3. ASSUME NEW q \in Requests
      PROVE  foreign'[q] \in {foreign[q] + cost, foreign[q]}
  BY DEF Charge
<1>4. ASSUME NEW q \in Requests
      PROVE  foreign'[q] \in 0 .. Limit /\ foreign'[q] <= spent'
  BY <1>1, <1>2, <1>3
<1>5. foreign' = [q \in Requests |-> foreign'[q]]
  BY DEF Charge
<1>6. foreign' \in [Requests -> 0 .. Limit]
  BY <1>4, <1>5
<1> QED BY <1>1, <1>2, <1>4, <1>6 DEF Charge

\* A step of request r, which leaves the rows of the others alone.
LEMMA RowStep ==
  ASSUME RouteInv, NEW r \in Requests, TypeOK', RowInv(r)',
         \A q \in Requests : foreign'[q] <= spent',
         \A q \in Requests \ {r} : UNCHANGED Row(q)
  PROVE  RouteInv'
<1>1. ASSUME NEW q \in Requests, q # r PROVE RowInv(q)'
  BY <1>1, RowStable DEF RouteInv
<1> QED BY <1>1 DEF RouteInv

LEMMA FailClosedEffect ==
  ASSUME TypeOK, NEW r \in Requests, NEW outcome \in Outcomes, NEW S \in SUBSET Adapters,
         FailClosed(r, outcome, S)
  PROVE  /\ stage' \in [Requests -> {"idle"} \cup Busy \cup {"done"}]
         /\ result' \in [Requests -> {"none", "final", "rejected", "failed_closed", "threw"}]
         /\ report' \in [Requests -> Reports \cup {NoReport}]
         /\ sources' \in [Requests -> Seq(Labels)]
         /\ stage'[r] = "done" /\ result'[r] = "failed_closed"
         /\ report'[r] = Report(r, outcome, S) /\ report'[r].outcome = outcome
         /\ \A q \in Requests \ {r} : /\ stage'[q] = stage[q] /\ result'[q] = result[q]
                                      /\ report'[q] = report[q]
         /\ sources' = sources
<1>1. Report(r, outcome, S) \in Reports /\ Report(r, outcome, S).outcome = outcome
  BY ReportType
<1>2. /\ stage \in [Requests -> {"idle"} \cup Busy \cup {"done"}]
      /\ result \in [Requests -> {"none", "final", "rejected", "failed_closed", "threw"}]
      /\ report \in [Requests -> Reports \cup {NoReport}]
      /\ sources \in [Requests -> Seq(Labels)]
  BY DEF TypeOK, Busy
<1> QED BY <1>1, <1>2 DEF FailClosed

LEMMA RejectInv ==
  ASSUME RouteInv, NEW r \in Requests, Reject(r)
  PROVE  RouteInv'
<1>1. TypeOK'
  BY DEF RouteInv, TypeOK, Reject, calls, budget
<1>2. /\ stage[r] = "idle" /\ stage'[r] = "done" /\ result'[r] = "rejected"
      /\ ran' = ran /\ reply' = reply /\ report' = report /\ late' = late
  BY DEF RouteInv, TypeOK, Reject, calls
<1>3. RowInv(r)
  BY DEF RouteInv
<1>4. report[r].outcome # "minimum_valid_outputs_synthesized"
  BY <1>2, <1>3 DEF RowInv, ResultInv, NoReport
<1>5. RowInv(r)'
  BY <1>2, <1>3, <1>4 DEF RowInv, CallsInv, QuorumInv, ResultInv, ReportInv, Busy
<1>6. \A q \in Requests : foreign'[q] <= spent'
  BY DEF RouteInv, Reject, budget
<1>7. \A q \in Requests \ {r} : UNCHANGED Row(q)
  BY DEF RouteInv, TypeOK, Reject, calls, Row
<1> QED BY <1>1, <1>5, <1>6, <1>7, RowStep

LEMMA RouteStepInv ==
  ASSUME RouteInv, NEW r \in Requests, NEW ready \in SUBSET Keys, Route(r, ready)
  PROVE  RouteInv'
<1> DEFINE execution == IF policy THEN Executable(Selected(ready)) ELSE Adapters
<1>1. /\ stage[r] = "idle" /\ policy' = policy /\ late' = late
      /\ spent' = spent /\ foreign' = foreign /\ starved' = starved
  BY DEF Route, budget
<1>2. execution \in SUBSET Adapters
  BY DEF Executable
<1>3. TypeOK /\ RowInv(r) /\ \A q \in Requests : foreign[q] <= spent
  BY DEF RouteInv
<1>4. ran[r] = {} /\ late[r] = "no" /\ result[r] = "none" /\ report[r] = NoReport
      /\ \A a \in Adapters : reply[r][a] = "none"
  BY <1>1, <1>3 DEF RowInv, ResultInv, CallsInv
<1>5. CASE /\ Effective(execution) >= 1
           /\ stage' = [stage EXCEPT ![r] = "executing"]
           /\ ran' = [ran EXCEPT ![r] = execution]
           /\ reply' = [reply EXCEPT ![r] =
                          [a \in Adapters |-> IF a \in execution THEN "called" ELSE "none"]]
           /\ UNCHANGED verdict
  <2>1. /\ stage'[r] = "executing" /\ ran'[r] = execution
        /\ \A a \in Adapters : a \notin ran'[r] => reply'[r][a] = "none"
        /\ result'[r] = "none" /\ report'[r] = NoReport
    BY <1>3, <1>4, <1>5 DEF TypeOK, verdict
  <2>2. TypeOK'
    BY <1>1, <1>2, <1>3, <1>5 DEF TypeOK, verdict, Replies
  <2>3. Effective(ran[r])' >= 1
    BY <1>5, <2>1 DEF Effective
  <2>4. RowInv(r)'
    BY <2>1, <2>3 DEF RowInv, CallsInv, QuorumInv, ResultInv, ReportInv, NoReport
  <2>5. \A q \in Requests \ {r} : UNCHANGED Row(q)
    BY <1>1, <1>3, <1>5 DEF TypeOK, verdict, Row
  <2> QED BY <1>1, <1>3, <2>2, <2>4, <2>5, RowStep
<1>6. CASE /\ Effective(execution) < 1
           /\ FailClosed(r, "no_executable_adapters", execution)
           /\ UNCHANGED calls
  <2>1. "no_executable_adapters" \in Outcomes
    BY DEF Outcomes
  <2>2. /\ stage' \in [Requests -> {"idle"} \cup Busy \cup {"done"}]
        /\ result' \in [Requests -> {"none", "final", "rejected", "failed_closed", "threw"}]
        /\ report' \in [Requests -> Reports \cup {NoReport}]
        /\ sources' \in [Requests -> Seq(Labels)]
        /\ stage'[r] = "done" /\ result'[r] = "failed_closed"
        /\ report'[r] = Report(r, "no_executable_adapters", execution)
        /\ report'[r].outcome = "no_executable_adapters"
        /\ \A q \in Requests \ {r} : /\ stage'[q] = stage[q] /\ result'[q] = result[q]
                                     /\ report'[q] = report[q]
        /\ sources' = sources
    BY <1>2, <1>3, <1>6, <2>1, FailClosedEffect
  <2>3. Consistent(report'[r])
    BY <1>2, <1>3, <1>4, <1>6, <2>2, EmptyReportConsistent
  <2>4. TypeOK'
    BY <1>1, <1>3, <1>6, <2>2 DEF TypeOK, calls, Busy
  <2>5. RowInv(r)'
    <3>1. CallsInv(r)' /\ QuorumInv(r)' /\ ResultInv(r)'
      BY <1>1, <1>4, <1>6, <2>2 DEF CallsInv, QuorumInv, ResultInv, Busy, calls
    <3>2. ReportInv(r)'
      BY <2>2, <2>3 DEF ReportInv, Consistent
    <3> QED BY <3>1, <3>2 DEF RowInv
  <2>6. \A q \in Requests \ {r} : UNCHANGED Row(q)
    BY <1>1, <1>6, <2>2 DEF Row, calls
  <2> QED BY <1>1, <1>3, <2>4, <2>5, <2>6, RowStep
<1> QED BY <1>5, <1>6 DEF Route

\* A call that ends or goes on, while its request waits for the candidates.
LEMMA ReplyStep ==
  ASSUME RouteInv, NEW r \in Requests, NEW a \in Adapters, NEW v \in Replies,
         reply[r][a] \in {"called", "paid"},
         reply' = [reply EXCEPT ![r][a] = v],
         UNCHANGED <<stage, ran, late, verdict>>
  PROVE  /\ reply' \in [Requests -> [Adapters -> Replies]]
         /\ RowInv(r)'
         /\ \A q \in Requests \ {r} : UNCHANGED Row(q)
<1>1. TypeOK /\ RowInv(r)
  BY DEF RouteInv
<1>2. stage[r] = "executing" /\ a \in ran[r] /\ result[r] = "none"
  BY <1>1 DEF RowInv, CallsInv, ResultInv
<1>3. /\ reply \in [Requests -> [Adapters -> Replies]]
      /\ stage' = stage /\ ran' = ran /\ late' = late
      /\ result' = result /\ report' = report /\ sources' = sources
  BY <1>1 DEF TypeOK, verdict
<1>4. reply' \in [Requests -> [Adapters -> Replies]]
  BY <1>3
<1>5. \A b \in Adapters : b # a => reply'[r][b] = reply[r][b]
  BY <1>3
<1>6. CallsInv(r)'
  BY <1>1, <1>2, <1>3, <1>5 DEF RowInv, CallsInv
<1>7. Effective(ran[r])' = Effective(ran[r])
  BY <1>3 DEF Effective
<1>8. QuorumInv(r)' /\ ResultInv(r)' /\ ReportInv(r)'
  BY <1>1, <1>2, <1>3, <1>7 DEF RowInv, QuorumInv, ResultInv, ReportInv
<1>9. \A q \in Requests \ {r} : UNCHANGED Row(q)
  BY <1>3 DEF Row
<1> QED BY <1>4, <1>6, <1>8, <1>9 DEF RowInv

LEMMA CallPaysInv ==
  ASSUME RouteInv, NEW r \in Requests, NEW a \in Adapters, CallPays(r, a)
  PROVE  RouteInv'
<1>1. PICK v \in Replies : reply' = [reply EXCEPT ![r][a] = v]
  BY DEF CallPays, Replies
<1>2. /\ reply[r][a] \in {"called", "paid"}
      /\ policy' = policy /\ UNCHANGED <<stage, ran, late, verdict>>
  BY DEF CallPays
<1>3. /\ reply' \in [Requests -> [Adapters -> Replies]]
      /\ RowInv(r)' /\ \A q \in Requests \ {r} : UNCHANGED Row(q)
  BY <1>1, <1>2, ReplyStep
<1>4. TypeOK /\ \A q \in Requests : foreign[q] <= spent
  BY DEF RouteInv
<1>5. /\ spent' \in 0 .. Limit /\ foreign' \in [Requests -> 0 .. Limit]
      /\ starved' \in [Requests -> SUBSET Adapters]
      /\ \A q \in Requests : foreign'[q] <= spent'
  <2>1. CASE Charge(r, Cost[Key[a]])
    BY <2>1, BudgetAssumption, ChargeEffect
  <2>2. CASE starved' = [starved EXCEPT ![r] = @ \cup {a}] /\ UNCHANGED <<spent, foreign>>
    BY <2>2, <1>4 DEF TypeOK
  <2> QED BY <2>1, <2>2 DEF CallPays
<1>6. TypeOK'
  BY <1>2, <1>3, <1>4, <1>5 DEF TypeOK, verdict
<1> QED BY <1>3, <1>5, <1>6, RowStep

LEMMA CallEndsInv ==
  ASSUME RouteInv, NEW r \in Requests, NEW a \in Adapters,
         CallAnswers(r, a) \/ CallFails(r, a)
  PROVE  RouteInv'
<1>1. PICK v \in Replies : reply' = [reply EXCEPT ![r][a] = v]
  BY DEF CallAnswers, CallFails, Replies
<1>2. /\ reply[r][a] \in {"called", "paid"}
      /\ policy' = policy /\ UNCHANGED <<stage, ran, late, verdict>>
      /\ spent' = spent /\ foreign' = foreign /\ starved' = starved
  BY DEF CallAnswers, CallFails, budget
<1>3. /\ reply' \in [Requests -> [Adapters -> Replies]]
      /\ RowInv(r)' /\ \A q \in Requests \ {r} : UNCHANGED Row(q)
  BY <1>1, <1>2, ReplyStep
<1>4. TypeOK /\ \A q \in Requests : foreign[q] <= spent
  BY DEF RouteInv
<1>5. TypeOK'
  BY <1>2, <1>3, <1>4 DEF TypeOK, verdict
<1> QED BY <1>2, <1>3, <1>4, <1>5, RowStep

\* A request that fails closed with a report that its schema accepts.
LEMMA FailClosedInv ==
  ASSUME RouteInv, NEW r \in Requests, NEW outcome \in Outcomes,
         outcome # "minimum_valid_outputs_synthesized",
         \A a \in Adapters : reply[r][a] \notin {"called", "paid"},
         FailClosed(r, outcome, ran[r]), Consistent(Report(r, outcome, ran[r])),
         UNCHANGED <<policy, calls, late, budget>>
  PROVE  RouteInv'
<1>1. TypeOK /\ RowInv(r) /\ ran[r] \in SUBSET Adapters
      /\ \A q \in Requests : foreign[q] <= spent
  BY DEF RouteInv, TypeOK
<1>2. /\ stage' \in [Requests -> {"idle"} \cup Busy \cup {"done"}]
      /\ result' \in [Requests -> {"none", "final", "rejected", "failed_closed", "threw"}]
      /\ report' \in [Requests -> Reports \cup {NoReport}]
      /\ sources' \in [Requests -> Seq(Labels)]
      /\ stage'[r] = "done" /\ result'[r] = "failed_closed"
      /\ report'[r] = Report(r, outcome, ran[r])
      /\ report'[r].outcome = outcome
      /\ \A q \in Requests \ {r} : /\ stage'[q] = stage[q] /\ result'[q] = result[q]
                                   /\ report'[q] = report[q]
      /\ sources' = sources
  BY <1>1, FailClosedEffect
<1>3. /\ ran' = ran /\ reply' = reply /\ late' = late /\ policy' = policy
      /\ spent' = spent /\ foreign' = foreign /\ starved' = starved
  BY DEF calls, budget
<1>4. TypeOK'
  BY <1>1, <1>2, <1>3 DEF TypeOK, Busy
<1>5. RowInv(r)'
  <2>1. CallsInv(r)' /\ QuorumInv(r)' /\ ResultInv(r)'
    BY <1>1, <1>2, <1>3 DEF RowInv, CallsInv, QuorumInv, ResultInv, Busy
  <2>2. Consistent(report'[r])
    BY <1>2
  <2>3. ReportInv(r)'
    BY <1>2, <2>2 DEF ReportInv, Consistent
  <2> QED BY <2>1, <2>3 DEF RowInv
<1>6. \A q \in Requests \ {r} : UNCHANGED Row(q)
  BY <1>2, <1>3 DEF Row
<1> QED BY <1>1, <1>3, <1>4, <1>5, <1>6, RowStep

LEMMA TallyInv ==
  ASSUME RouteInv, NEW r \in Requests, Tally(r)
  PROVE  RouteInv'
<1>1. /\ TypeOK /\ RowInv(r) /\ \A q \in Requests : foreign[q] <= spent
      /\ stage[r] = "executing" /\ Settled(r)
      /\ ran' = ran /\ reply' = reply /\ late' = late /\ policy' = policy
      /\ spent' = spent /\ foreign' = foreign /\ starved' = starved
  BY DEF RouteInv, Tally, calls, budget
<1>2. Effective(ran[r]) >= 1 /\ result[r] = "none"
  BY <1>1 DEF RowInv, ResultInv, Busy
<1>3. \A a \in Adapters : reply[r][a] \notin {"called", "paid"}
  BY <1>1 DEF RowInv, CallsInv, Settled
<1>4. CASE /\ Telling(r) /\ Cardinality(Valid(r)) >= Effective(ran[r])
           /\ stage' = [stage EXCEPT ![r] = "synthesizing"]
           /\ UNCHANGED verdict
  <2>1. /\ stage'[r] = "synthesizing" /\ result' = result /\ report' = report
        /\ sources' = sources /\ \A q \in Requests \ {r} : stage'[q] = stage[q]
    BY <1>1, <1>4 DEF TypeOK, verdict
  <2>2. TypeOK'
    BY <1>1, <1>4, <2>1 DEF TypeOK
  <2>3. /\ Valid(r)' = Valid(r) /\ (Settled(r)' <=> Settled(r))
        /\ Effective(ran[r])' = Effective(ran[r])
    BY <1>1 DEF Valid, Settled, Effective
  <2>4. RowInv(r)'
    BY <1>1, <1>2, <1>3, <1>4, <2>1, <2>3
       DEF RowInv, CallsInv, QuorumInv, ResultInv, ReportInv
  <2>5. \A q \in Requests \ {r} : UNCHANGED Row(q)
    BY <1>1, <2>1 DEF Row
  <2> QED BY <1>1, <2>2, <2>4, <2>5, RowStep
<1>5. CASE /\ Telling(r) /\ Cardinality(Valid(r)) < Effective(ran[r])
           /\ FailClosed(r, "insufficient_valid_outputs", ran[r])
  <2>1. Consistent(Report(r, "insufficient_valid_outputs", ran[r]))
    BY <1>1, <1>2, <1>5, ShortReportConsistent
  <2> QED BY <1>3, <1>5, <2>1, FailClosedInv DEF Tally, Outcomes
<1>6. CASE /\ ~ Telling(r)
           /\ stage' = [stage EXCEPT ![r] = "done"]
           /\ result' = [result EXCEPT ![r] = "threw"]
           /\ UNCHANGED <<report, sources>>
  <2>1. /\ stage'[r] = "done" /\ result'[r] = "threw" /\ report'[r] = NoReport
        /\ report' = report /\ sources' = sources
        /\ \A q \in Requests \ {r} : stage'[q] = stage[q] /\ result'[q] = result[q]
    BY <1>1, <1>6 DEF TypeOK, RowInv, ResultInv
  <2>2. TypeOK'
    BY <1>1, <1>6, <2>1 DEF TypeOK
  <2>3. ~ Telling(r)'
    BY <1>1, <1>6 DEF Telling
  <2>4. RowInv(r)'
    BY <1>1, <1>3, <2>1, <2>3 DEF RowInv, CallsInv, QuorumInv, ResultInv, ReportInv, NoReport, Busy
  <2>5. \A q \in Requests \ {r} : UNCHANGED Row(q)
    BY <1>1, <2>1 DEF Row
  <2> QED BY <1>1, <2>2, <2>4, <2>5, RowStep
<1> QED BY <1>4, <1>5, <1>6 DEF Tally

LEMMA SynthesisPaysInv ==
  ASSUME RouteInv, NEW r \in Requests, SynthesisPays(r)
  PROVE  RouteInv'
<1>1. /\ TypeOK /\ RowInv(r) /\ stage[r] = "synthesizing"
      /\ ran' = ran /\ reply' = reply /\ late' = late /\ policy' = policy
      /\ result' = result /\ report' = report /\ sources' = sources
      /\ stage' = [stage EXCEPT ![r] = "writing"]
  BY DEF RouteInv, SynthesisPays, calls, verdict
<1>2. /\ spent' \in 0 .. Limit /\ foreign' \in [Requests -> 0 .. Limit]
      /\ starved' \in [Requests -> SUBSET Adapters]
      /\ \A q \in Requests : foreign'[q] <= spent'
  BY BudgetAssumption, ChargeEffect DEF SynthesisPays
<1>3. stage'[r] = "writing" /\ \A q \in Requests \ {r} : stage'[q] = stage[q]
  BY <1>1 DEF TypeOK
<1>4. TypeOK'
  BY <1>1, <1>2 DEF TypeOK
<1>5. /\ Valid(r)' = Valid(r) /\ (Settled(r)' <=> Settled(r))
      /\ Effective(ran[r])' = Effective(ran[r])
  BY <1>1 DEF Valid, Settled, Effective
<1>6. RowInv(r)'
  BY <1>1, <1>3, <1>5 DEF RowInv, CallsInv, QuorumInv, ResultInv, ReportInv, Busy
<1>7. \A q \in Requests \ {r} : UNCHANGED Row(q)
  BY <1>1, <1>3 DEF Row
<1> QED BY <1>2, <1>4, <1>6, <1>7, RowStep

\* What stands when a synthesis is waited for.
LEMMA SynthesisReady ==
  ASSUME RouteInv, NEW r \in Requests, stage[r] \in {"synthesizing", "writing"}
  PROVE  /\ Settled(r) /\ Effective(ran[r]) >= 1
         /\ Cardinality(Valid(r)) >= Effective(ran[r])
         /\ \A a \in Adapters : reply[r][a] \notin {"called", "paid"}
         /\ Consistent(Report(r, "minimum_valid_outputs_synthesized", ran[r]))
         /\ Consistent(Report(r, "synthesis_failed", ran[r]))
<1>1. TypeOK /\ RowInv(r)
  BY DEF RouteInv
<1>2. /\ Settled(r) /\ Effective(ran[r]) >= 1
      /\ Cardinality(Valid(r)) >= Effective(ran[r])
      /\ \A a \in Adapters : reply[r][a] \notin {"called", "paid"}
  BY <1>1 DEF RowInv, CallsInv, QuorumInv, ResultInv, Busy
<1> QED BY <1>1, <1>2, QuorumReportConsistent

LEMMA SynthesisFailsInv ==
  ASSUME RouteInv, NEW r \in Requests, SynthesisFails(r)
  PROVE  RouteInv'
<1>1. stage[r] \in {"synthesizing", "writing"}
  BY DEF SynthesisFails
<1> QED BY <1>1, SynthesisReady, FailClosedInv DEF SynthesisFails, Outcomes

LEMMA SourceListsType ==
  ASSUME NEW s \in SourceLists
  PROVE  s \in Seq(Labels) /\ s # <<>>
<1>1. CASE \E l \in Labels : s = <<l>>
  BY <1>1
<1>2. CASE \E l \in Labels, m \in Labels : s = <<l, m>>
  BY <1>2
<1> QED BY <1>1, <1>2 DEF SourceLists

LEMMA SynthesisAnswersInv ==
  ASSUME RouteInv, NEW r \in Requests, NEW s \in SourceLists, SynthesisAnswers(r, s)
  PROVE  RouteInv'
<1>1. /\ TypeOK /\ RowInv(r) /\ \A q \in Requests : foreign[q] <= spent
      /\ stage[r] = "writing" /\ ~ Heeded(r)
      /\ ran' = ran /\ reply' = reply /\ late' = late /\ policy' = policy
      /\ spent' = spent /\ foreign' = foreign /\ starved' = starved
  BY DEF RouteInv, SynthesisAnswers, calls, budget
<1>2. /\ Settled(r) /\ Effective(ran[r]) >= 1
      /\ Cardinality(Valid(r)) >= Effective(ran[r])
      /\ \A a \in Adapters : reply[r][a] \notin {"called", "paid"}
      /\ Consistent(Report(r, "minimum_valid_outputs_synthesized", ran[r]))
      /\ Consistent(Report(r, "synthesis_failed", ran[r]))
  BY <1>1, SynthesisReady
<1>3. CASE ~ Grounded(r, s) /\ FailClosed(r, "synthesis_failed", ran[r])
  BY <1>2, <1>3, FailClosedInv DEF SynthesisAnswers, Outcomes
<1>4. CASE /\ Grounded(r, s)
           /\ stage' = [stage EXCEPT ![r] = "done"]
           /\ result' = [result EXCEPT ![r] = "final"]
           /\ sources' = [sources EXCEPT ![r] = s]
           /\ report' = [report EXCEPT ![r] =
                           Report(r, "minimum_valid_outputs_synthesized", ran[r])]
  <2>1. /\ Report(r, "minimum_valid_outputs_synthesized", ran[r]) \in Reports
        /\ Report(r, "minimum_valid_outputs_synthesized", ran[r]).outcome
             = "minimum_valid_outputs_synthesized"
    BY <1>1, ReportType DEF TypeOK, Outcomes
  <2>2. /\ stage'[r] = "done" /\ result'[r] = "final" /\ sources'[r] = s
        /\ report'[r] = Report(r, "minimum_valid_outputs_synthesized", ran[r])
        /\ \A q \in Requests \ {r} : /\ stage'[q] = stage[q] /\ result'[q] = result[q]
                                     /\ sources'[q] = sources[q] /\ report'[q] = report[q]
    BY <1>1, <1>4 DEF TypeOK
  <2>3. TypeOK'
    BY <1>1, <1>4, <2>1, SourceListsType DEF TypeOK
  <2>4. /\ Valid(r)' = Valid(r) /\ (Settled(r)' <=> Settled(r))
        /\ Effective(ran[r])' = Effective(ran[r])
    BY <1>1 DEF Valid, Settled, Effective
  <2>5. Grounded(r, sources[r])'
    BY <1>4, <2>2, <2>4 DEF Grounded
  <2>7. CallsInv(r)' /\ QuorumInv(r)' /\ ResultInv(r)'
    BY <1>1, <1>2, <2>2, <2>4, <2>5
       DEF RowInv, CallsInv, QuorumInv, ResultInv, Busy
  <2>8. Consistent(report'[r])
    BY <1>2, <2>2
  <2>9. ReportInv(r)'
    BY <2>1, <2>2, <2>8 DEF ReportInv, Consistent
  <2>10. \A q \in Requests \ {r} : UNCHANGED Row(q)
    BY <1>1, <2>2 DEF Row
  <2> QED BY <1>1, <2>3, <2>7, <2>9, <2>10, RowStep DEF RowInv
<1> QED BY <1>3, <1>4 DEF SynthesisAnswers

LEMMA TimesOutInv ==
  ASSUME RouteInv, NEW r \in Requests, TimesOut(r)
  PROVE  RouteInv'
<1>1. /\ TypeOK /\ RowInv(r) /\ \A q \in Requests : foreign[q] <= spent
      /\ stage[r] \in Busy
      /\ late' = [late EXCEPT ![r] = stage[r]]
      /\ policy' = policy /\ stage' = stage /\ ran' = ran /\ reply' = reply
      /\ result' = result /\ report' = report /\ sources' = sources
      /\ spent' = spent /\ foreign' = foreign /\ starved' = starved
  BY DEF RouteInv, TimesOut, TypeOK, calls, verdict, budget, Busy
<1>2. TypeOK'
  BY <1>1 DEF TypeOK, Busy
<1>3. /\ Valid(r)' = Valid(r) /\ (Settled(r)' <=> Settled(r))
      /\ Effective(ran[r])' = Effective(ran[r])
  BY <1>1 DEF Valid, Settled, Effective
<1>4. result'[r] = "none"
  BY <1>1 DEF RowInv, ResultInv, Busy
<1>5. RowInv(r)'
  BY <1>1, <1>3, <1>4 DEF RowInv, CallsInv, QuorumInv, ResultInv, ReportInv, Busy
<1>6. \A q \in Requests \ {r} : UNCHANGED Row(q)
  BY <1>1 DEF Row, TypeOK
<1> QED BY <1>1, <1>2, <1>5, <1>6, RowStep

LEMMA NextRouteInv == RouteInv /\ [Next]_vars => RouteInv'
<1> SUFFICES ASSUME RouteInv, [Next]_vars PROVE RouteInv'
  OBVIOUS
<1>1. CASE Next
  BY <1>1, RejectInv, RouteStepInv, CallPaysInv, CallEndsInv, TallyInv, SynthesisPaysInv,
     SynthesisAnswersInv, SynthesisFailsInv, TimesOutInv DEF Next
<1>2. CASE UNCHANGED vars
  <2>1. TypeOK'
    BY <1>2 DEF RouteInv, TypeOK, vars, calls, verdict, budget
  <2>2. \A r \in Requests : UNCHANGED Row(r)
    BY <1>2 DEF Row, vars, calls, verdict, budget
  <2>3. \A r \in Requests : RowInv(r)'
    BY <2>2, RowStable DEF RouteInv
  <2>4. \A r \in Requests : foreign'[r] <= spent'
    BY <1>2 DEF RouteInv, vars, budget
  <2> QED BY <2>1, <2>3, <2>4 DEF RouteInv
<1> QED BY <1>1, <1>2

LEMMA RouteInvariant == Spec => []RouteInv
BY InitRouteInv, NextRouteInv, PTL DEF Spec

-----------------------------------------------------------------------------
(* Induction and recursion                                                 *)

\* A set that holds 0 and the successor of each natural number it holds, holds them
\* all: else the least number it lacks has a predecessor, which it holds.
LEMMA SetInduction ==
  ASSUME NEW S, 0 \in S, \A n \in Nat : n \in S => n + 1 \in S
  PROVE  Nat \subseteq S
<1> SUFFICES ASSUME Nat \ S # {} PROVE FALSE
  OBVIOUS
<1>1. PICK n \in Nat \ S : \A m \in Nat \ S : <<m, n>> \notin OpToRel(<, Nat)
  BY NatLessThanWellFounded, WFMin, Nat \ S \subseteq Nat, Zenon
<1>2. n - 1 \in Nat \ S /\ n - 1 < n /\ (n - 1) + 1 = n
  OBVIOUS
<1> QED BY <1>1, <1>2, Zenon DEF OpToRel

\* The same up to a bound.
LEMMA IntervalInduction ==
  ASSUME NEW N \in Nat, NEW S, 0 \in S, \A i \in 1 .. N : i - 1 \in S => i \in S
  PROVE  0 .. N \subseteq S
<1> DEFINE T == {n \in Nat : n <= N => n \in S}
<1>1. 0 \in T
  OBVIOUS
<1>2. \A n \in Nat : n \in T => n + 1 \in T
  <2> SUFFICES ASSUME NEW n \in Nat, n \in T, n + 1 <= N PROVE n + 1 \in S
    OBVIOUS
  <2>1. n + 1 \in 1 .. N /\ (n + 1) - 1 = n /\ n \in S
    OBVIOUS
  <2> QED BY <2>1
<1>3. Nat \subseteq T
  <2> HIDE DEF T
  <2> QED BY <1>1, <1>2, SetInduction
<1> QED BY <1>3

\* f starts with the first value and goes on by the step up to N.
Recurses(f, N, first, step) ==
  f[0] = first /\ \A i \in 1 .. N : f[i] = step[<<i, f[i - 1]>>]

\* Whatever the first value and the step, some function on 0 .. N does.
LEMMA RecursionExists ==
  ASSUME NEW N \in Nat, NEW X, NEW first \in X, NEW step \in [(1 .. N) \X X -> X]
  PROVE  \E f \in [0 .. N -> X] : Recurses(f, N, first, step)
<1> USE DEF Recurses
<1> DEFINE UpTo(n) == \E f \in [0 .. n -> X] : Recurses(f, n, first, step)
           S == {n \in 0 .. N : UpTo(n)}
<1>1. 0 \in S
  <2> DEFINE f == [i \in 0 .. 0 |-> first]
  <2>1. f \in [0 .. 0 -> X] /\ f[0] = first /\ \A i \in 1 .. 0 : f[i] = step[<<i, f[i - 1]>>]
    OBVIOUS
  <2> HIDE DEF f
  <2> QED BY <2>1
<1>2. ASSUME NEW n \in 1 .. N, n - 1 \in S PROVE n \in S
  <2>1. PICK f \in [0 .. n - 1 -> X] :
          f[0] = first /\ \A i \in 1 .. n - 1 : f[i] = step[<<i, f[i - 1]>>]
    BY <1>2
  <2> DEFINE g == [i \in 0 .. n |-> IF i = n THEN step[<<n, f[n - 1]>>] ELSE f[i]]
  <2>2. f[n - 1] \in X /\ <<n, f[n - 1]>> \in (1 .. N) \X X
    BY <2>1
  <2>3. step[<<n, f[n - 1]>>] \in X
    BY <2>2
  <2>4. g \in [0 .. n -> X] /\ g[0] = first
    BY <2>1, <2>3
  <2>5. ASSUME NEW i \in 1 .. n PROVE g[i] = step[<<i, g[i - 1]>>]
    <3>1. i \in 0 .. n /\ i - 1 \in 0 .. n /\ i - 1 # n
      OBVIOUS
    <3>2. g[i - 1] = f[i - 1]
      BY <3>1
    <3>3. g[i] = step[<<i, f[i - 1]>>]
      <4>1. CASE i = n
        BY <3>1, <4>1
      <4>2. CASE i # n
        <5>1. g[i] = f[i] /\ i \in 1 .. n - 1
          BY <3>1, <4>2
        <5> QED BY <2>1, <5>1
      <4> QED BY <4>1, <4>2
    <3> QED BY <3>2, <3>3
  <2> HIDE DEF g
  <2>6. UpTo(n)
    BY <2>4, <2>5
  <2> QED BY <2>6
<1>3. 0 .. N \subseteq S
  <2> HIDE DEF S
  <2> QED BY <1>1, <1>2, IntervalInduction
<1> QED BY <1>3

-----------------------------------------------------------------------------
(* What sets of candidates cost                                            *)

N        == Len(Candidates)
Places   == 0 .. N
Price(a) == Cost[Key[a]]

\* f adds up what the members of S among the first candidates cost.
Adds(f, S) ==
  /\ f \in [Places -> Nat] /\ f[0] = 0
  /\ \A i \in 1 .. N :
       f[i] = f[i - 1] + (IF Candidates[i] \in S THEN Price(Candidates[i]) ELSE 0)

CostUpTo(S) == CHOOSE f : Adds(f, S)
CostOf(S)   == CostUpTo(S)[N]

LEMMA Candidate ==
  /\ N \in Nat
  /\ \A i \in 1 .. N : Candidates[i] \in Adapters /\ Price(Candidates[i]) \in Nat
  /\ \A i, j \in 1 .. N : Candidates[i] = Candidates[j] => i = j
  /\ \A a \in Adapters : Price(a) \in Nat /\ \E i \in 1 .. N : Candidates[i] = a
<1>1. N \in Nat /\ DOMAIN Candidates = 1 .. N
  BY RouterAssumption DEF N
<1> QED BY <1>1, RouterAssumption, BudgetAssumption DEF Adapters, Price

LEMMA CostAdds ==
  ASSUME NEW S
  PROVE  Adds(CostUpTo(S), S)
<1> DEFINE step == [p \in (1 .. N) \X Nat |->
                      p[2] + (IF Candidates[p[1]] \in S THEN Price(Candidates[p[1]]) ELSE 0)]
<1>1. step \in [(1 .. N) \X Nat -> Nat]
  BY Candidate
<1>2. \A i \in 1 .. N, n \in Nat :
        step[<<i, n>>] = n + (IF Candidates[i] \in S THEN Price(Candidates[i]) ELSE 0)
  OBVIOUS
<1> HIDE DEF step
<1>3. PICK f \in [0 .. N -> Nat] : Recurses(f, N, 0, step)
  <2>1. N \in Nat /\ 0 \in Nat
    BY Candidate
  <2> QED BY <1>1, <2>1, RecursionExists, Zenon
<1>4. Adds(f, S)
  <2>1. \A i \in 1 .. N : f[i - 1] \in Nat
    BY Candidate
  <2> QED BY <1>2, <1>3, <2>1 DEF Recurses, Adds, Places
<1> QED BY <1>4 DEF CostUpTo

LEMMA CostType ==
  ASSUME NEW S
  PROVE  CostOf(S) \in Nat
BY CostAdds, Candidate DEF Adds, CostOf, Places

LEMMA CostOfNone == CostOf({}) = 0
<1> DEFINE f == CostUpTo({})
           S == {i \in Places : f[i] = 0}
<1>1. Adds(f, {})
  BY CostAdds
<1> HIDE DEF f
<1>2. 0 \in S /\ \A i \in 1 .. N : i - 1 \in S => i \in S
  BY <1>1, Candidate DEF Adds, Places
<1>3. Places \subseteq S
  <2> HIDE DEF S
  <2> QED BY <1>2, Candidate, IntervalInduction DEF Places
<1>4. N \in Places
  BY Candidate DEF Places
<1> QED BY <1>3, <1>4 DEF CostOf, f

\* One adapter more adds its price, where it stands among the candidates.
LEMMA CostOfOneMore ==
  ASSUME NEW S, NEW a \in Adapters, a \notin S
  PROVE  CostOf(S \cup {a}) = CostOf(S) + Price(a)
<1> DEFINE f == CostUpTo(S)
           g == CostUpTo(S \cup {a})
<1>1. Adds(f, S) /\ Adds(g, S \cup {a})
  BY CostAdds
<1> HIDE DEF f, g
<1>2. PICK k \in 1 .. N : Candidates[k] = a
  BY Candidate
<1> DEFINE T == {i \in Places : g[i] = f[i] + (IF i >= k THEN Price(a) ELSE 0)}
<1>3. 0 \in T
  BY <1>1, <1>2, Candidate DEF Adds, Places
<1>4. ASSUME NEW i \in 1 .. N, i - 1 \in T PROVE i \in T
  <2>1. /\ i \in Places /\ f[i - 1] \in Nat /\ g[i - 1] \in Nat /\ Price(a) \in Nat
        /\ Price(Candidates[i]) \in Nat
    BY <1>1, Candidate DEF Adds, Places
  <2>2. CASE i = k
    <3>1. g[i] = g[i - 1] + Price(a) /\ f[i] = f[i - 1] + 0
      BY <1>1, <1>2, <2>2 DEF Adds
    <3> QED BY <1>4, <2>1, <2>2, <3>1
  <2>3. CASE i # k
    <3>1. Candidates[i] \in S \cup {a} <=> Candidates[i] \in S
      BY <1>2, <2>3, Candidate
    <3>2. i >= k <=> i - 1 >= k
      BY <2>3
    <3>3. g[i] = g[i - 1] + (IF Candidates[i] \in S THEN Price(Candidates[i]) ELSE 0)
      BY <1>1, <3>1 DEF Adds
    <3>4. f[i] = f[i - 1] + (IF Candidates[i] \in S THEN Price(Candidates[i]) ELSE 0)
      BY <1>1 DEF Adds
    <3> QED BY <1>4, <2>1, <3>2, <3>3, <3>4
  <2> QED BY <2>2, <2>3
<1>5. Places \subseteq T
  <2> HIDE DEF T
  <2> QED BY <1>3, <1>4, Candidate, IntervalInduction DEF Places
<1>6. N \in Places /\ N >= k
  BY Candidate DEF Places
<1>7. g[N] = f[N] + Price(a)
  BY <1>5, <1>6
<1> QED BY <1>7 DEF CostOf, f, g

-----------------------------------------------------------------------------
(* What the policy selects                                                 *)

\* A decision is affordable if its estimate counts its adapters and the synthesis
\* and fits what is left.
Decisions == [adapters : SUBSET Adapters, estimate : Nat]

NextDecision(ready, i, d) ==
  IF Key[Candidates[i]] \in ready /\ Fits(Price(Candidates[i]), d.estimate)
  THEN [adapters |-> d.adapters \cup {Candidates[i]},
        estimate |-> d.estimate + Price(Candidates[i])]
  ELSE d

Decides(d, ready) ==
  /\ d \in [Places -> Decisions]
  /\ d[0] = [adapters |-> {}, estimate |-> SynthesisEstimate]
  /\ \A i \in 1 .. N : d[i] = NextDecision(ready, i, d[i - 1])

LEMMA SelectedIs ==
  ASSUME NEW ready
  PROVE  \E d : Decides(d, ready) /\ Selected(ready) = d[N].adapters
<1> DEFINE Solves(g) ==
             g = [i \in 0 .. Len(Candidates) |->
                    IF i = 0 THEN [adapters |-> {}, estimate |-> SynthesisEstimate]
                    ELSE LET a == Candidates[i]
                         IN  IF Key[a] \in ready /\ Fits(Cost[Key[a]], g[i - 1].estimate)
                             THEN [adapters |-> g[i - 1].adapters \cup {a},
                                   estimate |-> g[i - 1].estimate + Cost[Key[a]]]
                             ELSE g[i - 1]]
           h     == CHOOSE g : Solves(g)
           first == [adapters |-> {}, estimate |-> SynthesisEstimate]
           step  == [p \in (1 .. N) \X Decisions |-> NextDecision(ready, p[1], p[2])]
<1>1. \A i \in 1 .. N, d \in Decisions : NextDecision(ready, i, d) \in Decisions
  BY Candidate DEF NextDecision, Decisions
<1>2. first \in Decisions
  BY BudgetAssumption DEF Decisions
<1>3. step \in [(1 .. N) \X Decisions -> Decisions]
  BY <1>1
<1>4. \A i \in 1 .. N, d \in Decisions : step[<<i, d>>] = NextDecision(ready, i, d)
  OBVIOUS
<1> HIDE DEF step, first
<1>5. PICK e \in [0 .. N -> Decisions] : Recurses(e, N, first, step)
  <2>1. N \in Nat
    BY Candidate
  <2> QED BY <1>2, <1>3, <2>1, RecursionExists, Zenon
<1>6. \A i \in 1 .. N : e[i] = NextDecision(ready, i, e[i - 1])
  <2>1. \A i \in 1 .. N : e[i - 1] \in Decisions
    BY Candidate
  <2> QED BY <1>4, <1>5, <2>1 DEF Recurses
<1>7. Solves(e)
  <2> DEFINE F == [i \in 0 .. N |-> IF i = 0 THEN first ELSE NextDecision(ready, i, e[i - 1])]
  <2>1. e = F
    BY <1>5, <1>6, Candidate DEF Recurses
  <2> QED BY <2>1 DEF NextDecision, Price, N, first
<1>8. Solves(h)
  <2> HIDE DEF Solves
  <2> QED BY <1>7
<1>9. Selected(ready) = h[Len(Candidates)].adapters
  BY DEF Selected
<1> HIDE DEF h
<1>10. h = [i \in 0 .. N |-> IF i = 0 THEN first ELSE NextDecision(ready, i, h[i - 1])]
  BY <1>8 DEF NextDecision, Price, N, first
<1> HIDE DEF Solves
<1>11. Decides(h, ready)
  <2> DEFINE S == {i \in 0 .. N : h[i] \in Decisions}
  <2>1. h[0] = first /\ \A i \in 1 .. N : h[i] = NextDecision(ready, i, h[i - 1])
    BY <1>10, Candidate
  <2>2. 0 \in S /\ \A i \in 1 .. N : i - 1 \in S => i \in S
    BY <1>1, <1>2, <2>1, Candidate
  <2>3. 0 .. N \subseteq S
    <3> HIDE DEF S
    <3> QED BY <2>2, Candidate, IntervalInduction
  <2>4. h \in [0 .. N -> Decisions]
    BY <1>10, <2>3
  <2> QED BY <2>1, <2>4 DEF Decides, Places, first
<1> QED BY <1>9, <1>11 DEF N

\* What the policy selects fits what is left of the budget.
LEMMA SelectedFits ==
  ASSUME TypeOK, NEW ready, Fits(SynthesisEstimate, 0)
  PROVE  /\ Selected(ready) \in SUBSET Adapters
         /\ spent + CostOf(Selected(ready)) <= Limit
<1>1. PICK d : Decides(d, ready) /\ Selected(ready) = d[N].adapters
  BY SelectedIs
<1> DEFINE Good(i) == /\ d[i].adapters \subseteq {Candidates[j] : j \in 1 .. i}
                      /\ d[i].estimate = SynthesisEstimate + CostOf(d[i].adapters)
                      /\ spent + d[i].estimate <= Limit
           S == {i \in Places : Good(i)}
<1>2. spent \in Nat /\ Limit \in Nat /\ SynthesisEstimate \in Nat /\ spent <= Limit
  BY BudgetAssumption DEF TypeOK
<1>3. 0 \in S
  <2>1. d[0].adapters = {} /\ d[0].estimate = SynthesisEstimate
    BY <1>1 DEF Decides
  <2>2. SynthesisEstimate = SynthesisEstimate + CostOf(d[0].adapters)
    BY <1>2, <2>1, CostOfNone
  <2>3. spent + SynthesisEstimate <= Limit
    BY <1>2 DEF Fits
  <2> QED BY <2>1, <2>2, <2>3, Candidate DEF Places
<1>4. ASSUME NEW i \in 1 .. N, i - 1 \in S PROVE i \in S
  <2> DEFINE a == Candidates[i]
             D == d[i - 1]
  <2>1. /\ i \in Places /\ D \in Decisions /\ a \in Adapters /\ Price(a) \in Nat
        /\ D.estimate \in Nat /\ D.estimate = SynthesisEstimate + CostOf(D.adapters)
        /\ D.adapters \subseteq {Candidates[j] : j \in 1 .. i - 1}
    <3>1. i \in Places /\ i - 1 \in Places /\ a \in Adapters /\ Price(a) \in Nat
      BY Candidate DEF Places
    <3>2. D \in Decisions
      BY <1>1, <3>1 DEF Decides
    <3>3. Good(i - 1)
      BY <1>4
    <3> QED BY <3>1, <3>2, <3>3 DEF Decisions
  <2>2. d[i] = NextDecision(ready, i, D)
    BY <1>1 DEF Decides
  <2>3. D.adapters \subseteq {Candidates[j] : j \in 1 .. i}
    BY <2>1, Candidate
  <2>4. CASE Key[a] \in ready /\ Fits(Price(a), D.estimate)
    <3>1. d[i].adapters = D.adapters \cup {a} /\ d[i].estimate = D.estimate + Price(a)
      BY <2>2, <2>4 DEF NextDecision
    <3>2. a \notin D.adapters
      <4>1. \A j \in 1 .. i - 1 : j \in 1 .. N /\ j # i
        BY Candidate
      <4> QED BY <2>1, <4>1, Candidate
    <3>3. CostOf(D.adapters \cup {a}) = CostOf(D.adapters) + Price(a)
      BY <2>1, <3>2, CostOfOneMore
    <3>4. CostOf(D.adapters) \in Nat
      BY CostType
    <3>5. d[i].estimate = SynthesisEstimate + CostOf(d[i].adapters)
      <4>1. CostOf(d[i].adapters) = CostOf(D.adapters) + Price(a)
        BY <3>1, <3>3, Zenon
      <4> HIDE DEF a, D
      <4> QED BY <1>2, <2>1, <3>1, <3>4, <4>1
    <3>6. spent + d[i].estimate <= Limit
      <4>1. D.estimate + Price(a) <= Limit - spent
        BY <2>4 DEF Fits
      <4> HIDE DEF a, D
      <4> QED BY <1>2, <2>1, <3>1, <4>1
    <3>7. d[i].adapters \subseteq {Candidates[j] : j \in 1 .. i}
      BY <2>3, <3>1, Candidate
    <3>8. Good(i)
      BY <3>5, <3>6, <3>7
    <3>9. i \in Places
      BY <2>1
    <3> HIDE DEF Good
    <3> QED BY <3>8, <3>9, Zenon
  <2>5. CASE ~ (Key[a] \in ready /\ Fits(Price(a), D.estimate))
    <3>1. d[i] = D
      BY <2>2, <2>5 DEF NextDecision
    <3>2. spent + D.estimate <= Limit
      BY <1>4
    <3>3. Good(i)
      BY <2>1, <2>3, <3>1, <3>2, Zenon
    <3> HIDE DEF Good
    <3> QED BY <2>1, <3>3
  <2> QED BY <2>4, <2>5
<1>5. Places \subseteq S
  <2> HIDE DEF S
  <2> QED BY <1>3, <1>4, Candidate, IntervalInduction DEF Places
<1>6. N \in Places /\ d[N] \in Decisions
  BY <1>1, Candidate DEF Places, Decides
<1>7. Good(N)
  BY <1>5, <1>6
<1>8. CostOf(Selected(ready)) \in Nat
  BY CostType
<1>9. spent + CostOf(Selected(ready)) <= Limit
  <2>1. d[N].estimate = SynthesisEstimate + CostOf(Selected(ready))
    BY <1>1, <1>7, Zenon
  <2> QED BY <1>2, <1>7, <1>8, <2>1
<1> QED BY <1>1, <1>6, <1>9 DEF Decisions

-----------------------------------------------------------------------------
(* What the policy has let a request spend                                 *)

\* The adapters of request r that have yet to charge the budget.
Owing(r)    == {a \in ran[r] : reply[r][a] = "called"}
Distinct(r) == \A a, b \in ran[r] : Key[a] = Key[b] => a = b

\* As long as nobody else has spent anything since the decision of request r, the
\* budget has room for all that its adapters have yet to charge.
ShareInv(r) ==
  policy /\ foreign[r] = 0 /\ Distinct(r) =>
    /\ starved[r] = {}
    /\ Owing(r) # {} => spent + CostOf(Owing(r)) <= Limit

ShareRow(r) == <<ran[r], reply[r], foreign[r], starved[r]>>

LEMMA OwingDrops ==
  ASSUME TypeOK, NEW r \in Requests, NEW a \in Owing(r)
  PROVE  CostOf(Owing(r)) = CostOf(Owing(r) \ {a}) + Price(a) /\ a \in Adapters
<1>1. a \in Adapters /\ a \notin Owing(r) \ {a} /\ (Owing(r) \ {a}) \cup {a} = Owing(r)
  BY DEF Owing, TypeOK
<1>2. CostOf((Owing(r) \ {a}) \cup {a}) = CostOf(Owing(r) \ {a}) + Price(a)
  BY <1>1, CostOfOneMore
<1> QED BY <1>1, <1>2, Zenon

\* A request whose own part stands still, while the budget does or counts the
\* charge of another one.
LEMMA ShareStable ==
  ASSUME NEW q \in Requests, ShareInv(q), policy' = policy, ran'[q] = ran[q],
         reply'[q] = reply[q], starved'[q] = starved[q],
         \/ foreign'[q] = foreign[q] /\ (spent' = spent \/ Owing(q) = {})
         \/ foreign'[q] # 0
  PROVE  ShareInv(q)'
<1>1. Owing(q)' = Owing(q) /\ (Distinct(q)' <=> Distinct(q))
  BY DEF Owing, Distinct
<1>2. CostOf(Owing(q))' = CostOf(Owing(q)')
  BY DEF CostOf, CostUpTo, Adds, Price, Places, N
<1> QED BY <1>1, <1>2 DEF ShareInv

LEMMA OthersShares ==
  ASSUME RouteInv, NEW r \in Requests, NEW cost \in Nat, Charge(r, cost), policy' = policy,
         NEW q \in Requests \ {r}, ShareInv(q), ran'[q] = ran[q], reply'[q] = reply[q]
  PROVE  ShareInv(q)'
<1>1. /\ spent \in Nat /\ foreign[q] \in Nat /\ spent' = spent + cost
      /\ starved'[q] = starved[q]
      /\ foreign'[q] = IF stage[q] # "idle" THEN foreign[q] + cost ELSE foreign[q]
  BY BudgetAssumption DEF RouteInv, TypeOK, Charge
<1>2. stage[q] = "idle" => Owing(q) = {}
  BY DEF RouteInv, RowInv, ResultInv, Owing
<1>3. \/ foreign'[q] = foreign[q] /\ (spent' = spent \/ Owing(q) = {})
      \/ foreign'[q] # 0
  BY <1>1, <1>2
<1> QED BY <1>1, <1>3, ShareStable

LEMMA RouteShares ==
  ASSUME RouteInv, \A q \in Requests : ShareInv(q), NEW r \in Requests, NEW ready,
         Route(r, ready)
  PROVE  \A q \in Requests : ShareInv(q)'
<1>1. /\ TypeOK /\ stage[r] = "idle" /\ ran[r] = {} /\ policy' = policy
      /\ spent' = spent /\ foreign' = foreign /\ starved' = starved
  BY DEF RouteInv, RowInv, ResultInv, Route, budget
<1> DEFINE execution == IF policy THEN Executable(Selected(ready)) ELSE Adapters
<1>2. CASE UNCHANGED calls
  BY <1>1, <1>2, ShareStable DEF calls
<1>3. CASE /\ ran' = [ran EXCEPT ![r] = execution]
           /\ reply' = [reply EXCEPT ![r] =
                          [a \in Adapters |-> IF a \in execution THEN "called" ELSE "none"]]
  <2>1. \A q \in Requests \ {r} : ran'[q] = ran[q] /\ reply'[q] = reply[q]
    BY <1>1, <1>3 DEF TypeOK
  <2>2. ASSUME NEW q \in Requests, q # r PROVE ShareInv(q)'
    BY <1>1, <2>1, <2>2, ShareStable
  <2>3. ShareInv(r)'
    <3>1. SUFFICES ASSUME policy, foreign[r] = 0, Distinct(r)'
                   PROVE  starved[r] = {} /\ (spent + CostOf(Owing(r))') <= Limit
      BY <1>1 DEF ShareInv
    <3>2. starved[r] = {}
      BY <1>1, <3>1 DEF ShareInv, Distinct
    <3>3. Fits(SynthesisEstimate, 0)
      BY <3>1 DEF Route
    <3>4. Selected(ready) \in SUBSET Adapters /\ spent + CostOf(Selected(ready)) <= Limit
      BY <1>1, <3>3, SelectedFits
    <3>5. ran'[r] = execution
      BY <1>1, <1>3 DEF TypeOK
    <3>6. execution = Executable(Selected(ready))
      BY <3>1
    <3>7. execution = Selected(ready)
      <4>1. Selected(ready) \subseteq execution
        BY <3>4, <3>6 DEF Executable
      <4>2. execution \subseteq Selected(ready)
        BY <3>1, <3>5, <3>6, <4>1 DEF Executable, Distinct
      <4> QED BY <4>1, <4>2
    <3>8. Owing(r)' = execution
      <4>1. execution \subseteq Adapters
        BY <3>4, <3>7
      <4>2. \A a \in Adapters : reply'[r][a] = IF a \in execution THEN "called" ELSE "none"
        BY <1>1, <1>3 DEF TypeOK
      <4> QED BY <3>5, <4>1, <4>2 DEF Owing
    <3>9. CostOf(Owing(r))' = CostOf(Selected(ready))
      BY <3>7, <3>8, Zenon DEF CostOf, CostUpTo, Adds, Price, Places, N
    <3> QED BY <3>2, <3>4, <3>9
  <2> QED BY <2>2, <2>3
<1> QED BY <1>2, <1>3 DEF Route

LEMMA CallPaysShares ==
  ASSUME RouteInv, \A q \in Requests : ShareInv(q), NEW r \in Requests, NEW a \in Adapters,
         CallPays(r, a)
  PROVE  \A q \in Requests : ShareInv(q)'
<1>1. TypeOK /\ policy' = policy /\ ran' = ran /\ reply[r][a] = "called" /\ a \in ran[r]
  BY DEF RouteInv, RowInv, CallsInv, CallPays
<1>2. a \in Owing(r) /\ Price(a) \in Nat /\ spent \in Nat /\ Limit \in Nat
  BY <1>1, Candidate, BudgetAssumption DEF Owing, TypeOK
<1>3. CostOf(Owing(r)) = CostOf(Owing(r) \ {a}) + Price(a) /\ CostOf(Owing(r) \ {a}) \in Nat
  BY <1>1, <1>2, OwingDrops, CostType
<1>4. PICK v \in {"paid", "failed"} : reply' = [reply EXCEPT ![r][a] = v]
  BY DEF CallPays
<1>5. \A q \in Requests \ {r} : reply'[q] = reply[q]
  BY <1>1, <1>4 DEF TypeOK
<1>6. Owing(r)' = Owing(r) \ {a} /\ (Distinct(r)' <=> Distinct(r))
  <2>1. \A b \in Adapters : reply'[r][b] = IF b = a THEN v ELSE reply[r][b]
    BY <1>1, <1>4 DEF TypeOK
  <2>2. ran[r] \subseteq Adapters
    BY <1>1 DEF TypeOK
  <2> QED BY <1>1, <2>1, <2>2 DEF Owing, Distinct
<1>7. CASE Charge(r, Cost[Key[a]])
  <2>1. /\ foreign'[r] = foreign[r] /\ starved'[r] = starved[r] /\ spent' = spent + Price(a)
    BY <1>7 DEF Charge, Price
  <2>2. ShareInv(r)'
    <3>1. CostOf(Owing(r))' = CostOf(Owing(r) \ {a})
      BY <1>6, Zenon DEF CostOf, CostUpTo, Adds, Price, Places, N
    <3>2. ShareInv(r)
      OBVIOUS
    <3>3. spent + CostOf(Owing(r)) <= Limit => spent' + CostOf(Owing(r) \ {a}) <= Limit
      BY <1>2, <1>3, <2>1
    <3> QED BY <1>1, <1>2, <1>6, <2>1, <3>1, <3>2, <3>3 DEF ShareInv
  <2>3. ASSUME NEW q \in Requests, q # r PROVE ShareInv(q)'
    <3>1. Cost[Key[a]] \in Nat
      BY <1>2 DEF Price
    <3> QED BY <1>1, <1>5, <1>7, <2>3, <3>1, OthersShares
  <2> QED BY <2>2, <2>3
<1>8. CASE ~ Affordable(Cost[Key[a]]) /\ starved' = [starved EXCEPT ![r] = @ \cup {a}]
           /\ UNCHANGED <<spent, foreign>>
  <2>1. ~ (policy /\ foreign[r] = 0 /\ Distinct(r))
    <3>1. spent + Price(a) > Limit
      BY <1>2, <1>8 DEF Affordable, Price
    <3>2. spent + CostOf(Owing(r)) > Limit
      BY <1>2, <1>3, <3>1
    <3>3. ~ (spent + CostOf(Owing(r)) <= Limit)
      BY <1>2, <1>3, <3>2
    <3> QED BY <1>2, <3>3 DEF ShareInv
  <2>2. ShareInv(r)'
    BY <1>1, <1>6, <1>8, <2>1 DEF ShareInv
  <2>3. ASSUME NEW q \in Requests, q # r PROVE ShareInv(q)'
    <3>1. starved'[q] = starved[q]
      BY <1>1, <1>8, <2>3 DEF TypeOK
    <3> QED BY <1>1, <1>5, <1>8, <2>3, <3>1, ShareStable
  <2> QED BY <2>2, <2>3
<1> QED BY <1>7, <1>8 DEF CallPays

LEMMA CallEndsShares ==
  ASSUME RouteInv, \A q \in Requests : ShareInv(q), NEW r \in Requests, NEW a \in Adapters,
         CallAnswers(r, a) \/ CallFails(r, a)
  PROVE  \A q \in Requests : ShareInv(q)'
<1>1. /\ TypeOK /\ policy' = policy /\ ran' = ran
      /\ spent' = spent /\ foreign' = foreign /\ starved' = starved
  BY DEF RouteInv, CallAnswers, CallFails, budget
<1>2. PICK v \in {"valid", "failed", "mute"} : reply' = [reply EXCEPT ![r][a] = v]
  BY DEF CallAnswers, CallFails
<1>3. \A q \in Requests \ {r} : reply'[q] = reply[q]
  BY <1>1, <1>2 DEF TypeOK
<1>4. ASSUME NEW q \in Requests, q # r PROVE ShareInv(q)'
  BY <1>1, <1>3, <1>4, ShareStable
<1>5. Owing(r)' = Owing(r) \ {a} /\ (Distinct(r)' <=> Distinct(r))
  <2>1. \A b \in Adapters : reply'[r][b] = IF b = a THEN v ELSE reply[r][b]
    BY <1>1, <1>2 DEF TypeOK
  <2>2. ran[r] \subseteq Adapters
    BY <1>1 DEF TypeOK
  <2> QED BY <1>1, <2>1, <2>2 DEF Owing, Distinct
<1>6. CostOf(Owing(r))' = CostOf(Owing(r) \ {a})
  BY <1>5, Zenon DEF CostOf, CostUpTo, Adds, Price, Places, N
<1>7. spent \in Nat /\ Limit \in Nat
  BY <1>1, BudgetAssumption DEF TypeOK
<1>8. CASE a \in Owing(r)
  <2>1. /\ CostOf(Owing(r)) = CostOf(Owing(r) \ {a}) + Price(a)
        /\ CostOf(Owing(r) \ {a}) \in Nat /\ Price(a) \in Nat
    BY <1>1, <1>8, OwingDrops, CostType, Candidate
  <2>2. spent + CostOf(Owing(r)) <= Limit => spent + CostOf(Owing(r) \ {a}) <= Limit
    BY <1>7, <2>1
  <2>3. ShareInv(r)
    OBVIOUS
  <2>4. ShareInv(r)'
    BY <1>1, <1>5, <1>6, <1>8, <2>2, <2>3 DEF ShareInv
  <2> QED BY <1>4, <2>4
<1>9. CASE a \notin Owing(r)
  <2>1. Owing(r) \ {a} = Owing(r)
    BY <1>9
  <2>2. CostOf(Owing(r))' = CostOf(Owing(r))
    BY <1>6, <2>1, Zenon
  <2>3. ShareInv(r)'
    BY <1>1, <1>5, <2>1, <2>2 DEF ShareInv
  <2> QED BY <1>4, <2>3
<1> QED BY <1>8, <1>9

LEMMA SynthesisPaysShares ==
  ASSUME RouteInv, \A q \in Requests : ShareInv(q), NEW r \in Requests, SynthesisPays(r)
  PROVE  \A q \in Requests : ShareInv(q)'
<1>1. /\ policy' = policy /\ ran' = ran /\ reply' = reply
      /\ Charge(r, SynthesisCost) /\ stage[r] = "synthesizing" /\ SynthesisCost \in Nat
  BY BudgetAssumption DEF SynthesisPays, calls
<1>2. ASSUME NEW q \in Requests, q # r PROVE ShareInv(q)'
  BY <1>1, <1>2, OthersShares
<1>3. Owing(r) = {}
  BY <1>1 DEF RouteInv, RowInv, CallsInv, Owing, TypeOK
<1>4. foreign'[r] = foreign[r] /\ starved'[r] = starved[r]
  BY <1>1 DEF Charge
<1>5. ShareInv(r)'
  BY <1>1, <1>3, <1>4, ShareStable
<1> QED BY <1>2, <1>5

LEMMA NextShares ==
  ASSUME RouteInv, \A q \in Requests : ShareInv(q), [Next]_vars
  PROVE  \A q \in Requests : ShareInv(q)'
<1>1. ASSUME UNCHANGED <<policy, calls, budget>> PROVE \A q \in Requests : ShareInv(q)'
  BY <1>1, ShareStable DEF calls, budget
<1>2. CASE UNCHANGED vars
  BY <1>1, <1>2 DEF vars
<1>3. ASSUME NEW r \in Requests,
             \/ Reject(r) \/ Tally(r) \/ SynthesisFails(r) \/ TimesOut(r)
             \/ \E s \in SourceLists : SynthesisAnswers(r, s)
      PROVE  UNCHANGED <<policy, calls, budget>>
  BY <1>3 DEF Reject, Tally, SynthesisFails, TimesOut, SynthesisAnswers
<1> QED BY <1>1, <1>2, <1>3, RouteShares, CallPaysShares, CallEndsShares, SynthesisPaysShares
        DEF Next

LEMMA InitShares == Init => \A q \in Requests : ShareInv(q)
BY DEF Init, ShareInv, Owing

-----------------------------------------------------------------------------
(* Theorems                                                                *)

\* Every state of every router has its type; above all, concurrent requests
\* never spend more than the budget's limit.
THEOREM RouterTypeCorrect == Spec => []TypeOK
BY RouteInvariant, PTL DEF RouteInv

\* A final synthesis rests on a quorum of outputs validated in its own request,
\* and its sources are unique labels of such outputs.
THEOREM SynthesisGroundedCorrect == Spec => []SynthesisGrounded
<1>1. RouteInv => SynthesisGrounded
  <2> SUFFICES ASSUME RouteInv, NEW r \in Requests, result[r] = "final"
               PROVE  /\ Valid(r) # {} /\ sources[r] # <<>>
                      /\ Cardinality(Valid(r)) >= MinSuccessful \/ Valid(r) = ran[r]
                      /\ {sources[r][i] : i \in DOMAIN sources[r]}
                           \subseteq {Label[a] : a \in Valid(r)}
                      /\ Cardinality({sources[r][i] : i \in DOMAIN sources[r]})
                           = Len(sources[r])
    BY DEF SynthesisGrounded, Valid
  <2>1. /\ TypeOK /\ Effective(ran[r]) >= 1
        /\ Cardinality(Valid(r)) >= Effective(ran[r])
        /\ sources[r] \in SourceLists /\ Grounded(r, sources[r])
    BY DEF RouteInv, RowInv, QuorumInv, ResultInv
  <2>2. Valid(r) # {}
    BY <2>1, FS_EmptySet, EffectiveType, ReplySets
  <2>3. Cardinality(Valid(r)) >= MinSuccessful \/ Valid(r) = ran[r]
    BY <2>1, EffectiveType, ReplySets, AdapterSets
  <2>4. {sources[r][i] : i \in DOMAIN sources[r]} \subseteq {Label[a] : a \in Valid(r)}
    BY <2>1 DEF Grounded
  <2>5. Cardinality({sources[r][i] : i \in DOMAIN sources[r]}) = Len(sources[r])
    <3>1. CASE \E l \in Labels : sources[r] = <<l>>
      <4>1. PICK l \in Labels : sources[r] = <<l>>
        BY <3>1
      <4>2. {sources[r][i] : i \in DOMAIN sources[r]} = {l} /\ Len(sources[r]) = 1
        BY <4>1
      <4> QED BY <4>2, FS_Singleton
    <3>2. CASE \E l \in Labels, m \in Labels : sources[r] = <<l, m>>
      <4>1. PICK l \in Labels, m \in Labels : sources[r] = <<l, m>>
        BY <3>2
      <4>2. /\ {sources[r][i] : i \in DOMAIN sources[r]} = {l} \cup {m}
            /\ Len(sources[r]) = 2
        BY <4>1
      <4>3. l # m
        BY <2>1, <4>1 DEF Grounded
      <4>4. Cardinality({l} \cup {m}) = 2
        <5>1. IsFiniteSet({l}) /\ Cardinality({l}) = 1 /\ m \notin {l}
          BY <4>3, FS_Singleton
        <5>2. Cardinality({l} \cup {m}) = Cardinality({l}) + 1
          BY <5>1, FS_AddElement
        <5> QED BY <5>1, <5>2
      <4> QED BY <4>2, <4>4
    <3> QED BY <2>1, <3>1, <3>2 DEF SourceLists
  <2> QED BY <2>1, <2>2, <2>3, <2>4, <2>5, SourceListsType
<1> QED BY <1>1, RouteInvariant, PTL

\* The schema accepts every decision report, on whichever path it is built.
THEOREM ReportsConsistentCorrect == Spec => []ReportsConsistent
<1>1. RouteInv => ReportsConsistent
  BY DEF RouteInv, RowInv, ReportInv, ReportsConsistent, Telling
<1> QED BY <1>1, RouteInvariant, PTL

\* The budget refuses a candidate that the policy let in only if another request
\* has spent of it since, or two of the adapters it ran share a key.
THEOREM StarvedOnlyByOthersCorrect == Spec => []StarvedOnlyByOthers
<1> DEFINE Inv == RouteInv /\ \A q \in Requests : ShareInv(q)
<1>1. Init => Inv
  BY InitRouteInv, InitShares
<1>2. Inv /\ [Next]_vars => Inv'
  BY NextRouteInv, NextShares
<1>3. Inv => StarvedOnlyByOthers
  <2> SUFFICES ASSUME RouteInv, policy, NEW r \in Requests, ShareInv(r), starved[r] # {},
                      ~ (\E a, b \in ran[r] : a # b /\ Key[a] = Key[b])
               PROVE  foreign[r] > 0
    BY DEF StarvedOnlyByOthers
  <2>1. foreign[r] # 0
    BY DEF ShareInv, Distinct
  <2>2. foreign[r] \in 0 .. Limit /\ Limit \in Nat
    BY BudgetAssumption DEF RouteInv, TypeOK
  <2> QED BY <2>1, <2>2
<1> QED BY <1>1, <1>2, <1>3, PTL DEF Spec
=============================================================================
