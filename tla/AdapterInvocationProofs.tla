----------------------- MODULE AdapterInvocationProofs -----------------------
(***************************************************************************)
(* Safety of concurrent adapter calls for every set of calls and adapters, *)
(* every budget and every retry policy.                                    *)
(***************************************************************************)
EXTENDS AdapterInvocation, FiniteSetTheorems, WellFoundedInduction, TLAPS

Results == Errors \cup {"none", "output"}

\* What a failure of call c leaves behind: the call ends with an error, or sleeps,
\* if nobody has aborted it and an attempt is left.
Ends(c)   == \E code \in Errors : End(c, code)
Sleeps(c) == aborted[c] = "no" /\ attempt[c] < MaxAttempts /\ Move(c, "backoff")

\* What a step of a call may do to the breaker of its adapter a: whenever it is
\* open afterwards and was not before, it has been opened once more.
Trips(a) ==
  \/ UNCHANGED breaker
  \/ \E f \in Nat, isOpen \in BOOLEAN, k \in Nat :
       /\ failures' = [failures EXCEPT ![a] = f]
       /\ open' = [open EXCEPT ![a] = isOpen]
       /\ opened' = [opened EXCEPT ![a] = k]
       /\ k >= opened[a]
       /\ isOpen => open[a] \/ k > opened[a]

LEMMA Recorded ==
  ASSUME TypeOK, NEW a \in Adapters, NEW n \in Nat, NEW isOpen \in BOOLEAN,
         isOpen => open[a], RecordFailure(a, n, isOpen)
  PROVE  Trips(a)
<1>1. opened[a] \in Nat /\ open[a] \in BOOLEAN
  BY DEF TypeOK
<1> DEFINE opens == n + 1 >= FailureThreshold
           k     == IF opens /\ ~ isOpen THEN opened[a] + 1 ELSE opened[a]
<1>2. /\ failures' = [failures EXCEPT ![a] = n + 1]
      /\ open' = [open EXCEPT ![a] = isOpen \/ opens]
      /\ opened' = [opened EXCEPT ![a] = k]
  BY DEF RecordFailure
<1>3. n + 1 \in Nat /\ k \in Nat /\ k >= opened[a] /\ (isOpen \/ opens) \in BOOLEAN
  BY <1>1
<1>4. (isOpen \/ opens) => open[a] \/ k > opened[a]
  BY <1>1
<1> HIDE DEF k, opens
<1> QED BY <1>2, <1>3, <1>4 DEF Trips

LEMMA Caught ==
  ASSUME TypeOK, NEW c \in Calls, NEW code \in Errors, Catch(c, code)
  PROVE  /\ Ends(c) \/ (code \in Retriable /\ Sleeps(c))
         /\ Trips(AdapterOf[c])
<1>1. Ends(c) \/ (code \in Retriable /\ Sleeps(c))
  BY DEF Catch, AfterFailure, Ends, Sleeps, Errors
<1>2. AdapterOf[c] \in Adapters
  BY AdaptersAssumption
<1>3. CASE code \in Counted
  <2>1. failures[AdapterOf[c]] \in Nat /\ open[AdapterOf[c]] \in BOOLEAN
    BY <1>2 DEF TypeOK
  <2>2. RecordFailure(AdapterOf[c], failures[AdapterOf[c]], open[AdapterOf[c]])
    BY <1>3 DEF Catch
  <2> QED BY <1>1, <1>2, <2>1, <2>2, Recorded
<1>4. CASE code \notin Counted
  <2>1. UNCHANGED breaker
    BY <1>4 DEF Catch
  <2> QED BY <1>1, <2>1 DEF Trips
<1> QED BY <1>3, <1>4

-----------------------------------------------------------------------------
(* The invariant                                                           *)

\* Signals.  A process call that is aborted on its way ends, but for a refresh; an
\* HTTP call goes on running; nobody sleeps with an aborted signal.
AbortInv(c) ==
  /\ aborted[c] = "before" /\ ~ IsProcess(c) => at[c] \in {"idle", "done"}
  /\ aborted[c] = "during" =>
       at[c] \in {"refreshing", "done"} \/ (at[c] = "running" /\ ~ IsProcess(c))
  /\ at[c] = "refreshing" => Auth[AdapterOf[c]] = "refresh"

\* Where a call stands, and what it has done by then.
StageInv(c) ==
  /\ at[c] # "done" => result[c] = "none"
  /\ at[c] = "idle" => launches[c] = 0
  /\ at[c] = "backoff" => attempt[c] < MaxAttempts
  /\ launches[c] > 0 => ~ Owes(c)
  /\ ~ IsProcess(c) => at[c] \notin {"checking", "refreshing", "rechecking"}
  /\ aborted[c] = "before" \/ (aborted[c] = "during" /\ IsProcess(c)) => result[c] # "output"

\* A call in progress was admitted while the breaker was closed.
AdmittedInv(c) ==
  at[c] \notin {"idle", "done"} =>
    /\ admitted[c] <= opened[AdapterOf[c]]
    /\ open[AdapterOf[c]] => admitted[c] < opened[AdapterOf[c]]

CallInv == /\ TypeOK /\ spent <= Limit
           /\ \A c \in Calls : AbortInv(c) /\ StageInv(c) /\ AdmittedInv(c)

LEMMA InitCallInv == Init => CallInv
BY AdaptersAssumption, LimitsAssumption
   DEF Init, CallInv, TypeOK, AbortInv, StageInv, AdmittedInv, Owes, IsProcess, Stages, Errors

-----------------------------------------------------------------------------
(* Steps of a call                                                         *)

\* What no other call changes of call c.
Row(c) == <<at[c], attempt[c], launches[c], result[c], aborted[c], paid[c], admitted[c]>>

\* A call that is in progress after a step was so before, or has been admitted.
Admission(c) ==
  at'[c] \notin {"idle", "done"} =>
    \/ at[c] \notin {"idle", "done"} /\ admitted'[c] = admitted[c]
    \/ ~ open[AdapterOf[c]] /\ admitted'[c] = opened[AdapterOf[c]]

LEMMA TripsTypes ==
  ASSUME TypeOK, NEW a \in Adapters, Trips(a)
  PROVE  /\ failures' \in [Adapters -> Nat]
         /\ open' \in [Adapters -> BOOLEAN]
         /\ opened' \in [Adapters -> Nat]
         /\ \A b \in Adapters : /\ opened'[b] >= opened[b]
                                /\ open'[b] => open[b] \/ opened'[b] > opened[b]
BY DEF Trips, TypeOK, breaker

\* A step of one call keeps the invariant if it does so in the row of that call.
LEMMA RowStep ==
  ASSUME CallInv, NEW c \in Calls, Trips(AdapterOf[c]), Admission(c),
         TypeOK', spent' <= Limit, AbortInv(c)', StageInv(c)',
         \A d \in Calls \ {c} : UNCHANGED Row(d)
  PROVE  CallInv'
<1>1. AdapterOf \in [Calls -> Adapters]
  BY AdaptersAssumption
<1>2. \A b \in Adapters : /\ opened'[b] >= opened[b]
                          /\ open'[b] => open[b] \/ opened'[b] > opened[b]
  BY <1>1, TripsTypes DEF CallInv
<1>3. \A d \in Calls : AbortInv(d)' /\ StageInv(d)'
  BY DEF CallInv, Row, AbortInv, StageInv, Owes
<1>4. \A d \in Calls : AdmittedInv(d)'
  <2> TAKE d \in Calls
  <2>1. /\ AdapterOf[d] \in Adapters /\ opened[AdapterOf[d]] \in Nat
        /\ opened'[AdapterOf[d]] \in Nat /\ admitted[d] \in Nat /\ admitted'[d] \in Nat
    BY <1>1 DEF CallInv, TypeOK
  <2>2. CASE d # c
    BY <1>2, <2>1, <2>2 DEF CallInv, Row, AdmittedInv
  <2>3. CASE d = c
    BY <1>2, <2>1, <2>3 DEF CallInv, Admission, AdmittedInv, breaker
  <2> QED BY <2>2, <2>3
<1> QED BY <1>3, <1>4 DEF CallInv

LEMMA ChargedAndRun ==
  ASSUME CallInv, NEW c \in Calls, ChargeAndRun(c)
  PROVE  /\ Trips(AdapterOf[c])
         /\ spent' \in Nat /\ spent' <= Limit
         /\ paid' \in {paid, [paid EXCEPT ![c] = TRUE]}
         /\ \/ Ends(c) /\ UNCHANGED launches
            \/ /\ Move(c, "running") /\ ~ Owes(c)'
               /\ IsProcess(c) \/ aborted[c] = "no"
               /\ launches' = [launches EXCEPT ![c] = @ + 1]
<1>1. /\ AdapterOf[c] \in Adapters /\ Cost[AdapterOf[c]] \in Nat /\ Limit \in Nat
      /\ spent \in Nat /\ paid[c] \in BOOLEAN /\ paid \in [Calls -> BOOLEAN] /\ TypeOK
  BY AdaptersAssumption, LimitsAssumption DEF CallInv, TypeOK
<1>2. CASE Owes(c) /\ ~ Affordable(c)
  <2>1. Catch(c, "budget_exhausted") /\ UNCHANGED <<budget, launches>>
    BY <1>2 DEF ChargeAndRun
  <2>2. Ends(c) /\ Trips(AdapterOf[c])
    BY <1>1, <2>1, Caught DEF Errors, Retriable
  <2> QED BY <1>1, <2>1, <2>2 DEF CallInv, budget
<1>3. CASE Owes(c) => Affordable(c)
  <2>1. Charge(c)
    BY <1>3 DEF ChargeAndRun
  <2>2. spent' \in Nat /\ spent' <= Limit
    BY <1>1, <1>3, <2>1 DEF Charge, Affordable, CallInv
  <2>3. paid' \in {paid, [paid EXCEPT ![c] = TRUE]} /\ ~ Owes(c)'
    BY <1>1, <2>1 DEF Charge, Owes
  <2>4. CASE /\ IsProcess(c) \/ aborted[c] = "no"
             /\ Move(c, "running")
             /\ launches' = [launches EXCEPT ![c] = @ + 1]
             /\ UNCHANGED breaker
    <3>1. Trips(AdapterOf[c])
      BY <2>4 DEF Trips
    <3> QED BY <2>2, <2>3, <2>4, <3>1
  <2>5. ASSUME NEW code \in {"aborted", "other"}, Catch(c, code), UNCHANGED launches
        PROVE  Ends(c) /\ Trips(AdapterOf[c])
    BY <1>1, <2>5, Caught DEF Errors, Retriable
  <2>6. CASE \E code \in {"aborted", "other"} : Catch(c, code) /\ UNCHANGED launches
    BY <2>2, <2>3, <2>5, <2>6
  <2>7. ~ (Owes(c) /\ ~ Affordable(c))
    BY <1>3
  <2> QED BY <2>4, <2>6, <2>7 DEF ChargeAndRun
<1> QED BY <1>2, <1>3

\* A step that ends a call with an error keeps the invariant.
LEMMA Ended ==
  ASSUME CallInv, NEW c \in Calls, Ends(c), Trips(AdapterOf[c]), UNCHANGED launches,
         spent' \in Nat, spent' <= Limit, paid' \in {paid, [paid EXCEPT ![c] = TRUE]},
         attempt' \in [Calls -> 0 .. MaxAttempts], admitted' \in [Calls -> Nat],
         aborted' \in [Calls -> {"no", "before", "during"}],
         \A d \in Calls \ {c} : UNCHANGED <<attempt[d], admitted[d], aborted[d]>>
  PROVE  CallInv'
<1> USE AdaptersAssumption
<1>1. PICK code \in Errors : End(c, code)
  BY DEF Ends
<1>2. at'[c] = "done" /\ result'[c] = code /\ code \notin {"none", "output"}
  BY <1>1 DEF CallInv, TypeOK, End, Errors
<1>3. TypeOK'
  BY <1>1, TripsTypes DEF CallInv, TypeOK, End, Errors
<1>4. AbortInv(c)' /\ StageInv(c)' /\ Admission(c)
  BY <1>2 DEF CallInv, TypeOK, AbortInv, StageInv, Admission, Owes
<1>5. \A d \in Calls \ {c} : UNCHANGED Row(d)
  BY <1>1 DEF CallInv, TypeOK, Row, End
<1> QED BY <1>3, <1>4, <1>5, RowStep

\* So does one that leaves it at another stage, with what it has paid for.
LEMMA Moved ==
  ASSUME CallInv, NEW c \in Calls, Trips(AdapterOf[c]), at[c] # "done",
         NEW stage \in Stages \cup {"backoff"}, Move(c, stage), Admission(c),
         spent' \in Nat, spent' <= Limit, paid' \in {paid, [paid EXCEPT ![c] = TRUE]},
         attempt' \in [Calls -> 0 .. MaxAttempts], admitted' \in [Calls -> Nat],
         launches' \in [Calls -> Nat], launches'[c] > 0 => launches[c] > 0 \/ ~ Owes(c)',
         aborted' \in [Calls -> {"no", "before", "during"}], AbortInv(c)',
         stage = "backoff" => attempt'[c] < MaxAttempts,
         ~ IsProcess(c) => stage \in {"running", "backoff"},
         \A d \in Calls \ {c} :
           UNCHANGED <<attempt[d], admitted[d], launches[d], aborted[d]>>
  PROVE  CallInv'
<1> USE AdaptersAssumption
<1>1. at'[c] = stage /\ result' = result /\ result[c] = "none"
  BY DEF CallInv, TypeOK, StageInv, Move
<1>2. TypeOK'
  BY TripsTypes DEF CallInv, TypeOK, Move
<1>3. StageInv(c)'
  BY <1>1 DEF CallInv, TypeOK, StageInv, Owes, IsProcess, Stages
<1>4. \A d \in Calls \ {c} : UNCHANGED Row(d)
  BY DEF CallInv, TypeOK, Row, Move
<1> QED BY <1>2, <1>3, <1>4, RowStep

\* A call goes on to its model, or fails before.
LEMMA Ran ==
  ASSUME CallInv, NEW c \in Calls, ChargeAndRun(c), at[c] # "done", aborted[c] # "during",
         UNCHANGED aborted, \A d \in Calls \ {c} : UNCHANGED <<attempt[d], admitted[d]>>,
         attempt' \in [Calls -> 0 .. MaxAttempts], admitted' \in [Calls -> Nat],
         \/ at[c] # "idle" /\ admitted'[c] = admitted[c]
         \/ ~ open[AdapterOf[c]] /\ admitted'[c] = opened[AdapterOf[c]]
  PROVE  CallInv'
<1>1. /\ Trips(AdapterOf[c])
      /\ spent' \in Nat /\ spent' <= Limit
      /\ paid' \in {paid, [paid EXCEPT ![c] = TRUE]}
      /\ \/ Ends(c) /\ UNCHANGED launches
         \/ /\ Move(c, "running") /\ ~ Owes(c)'
            /\ IsProcess(c) \/ aborted[c] = "no"
            /\ launches' = [launches EXCEPT ![c] = @ + 1]
  BY ChargedAndRun
<1>2. /\ aborted' \in [Calls -> {"no", "before", "during"}]
      /\ \A d \in Calls \ {c} : UNCHANGED aborted[d]
  BY DEF CallInv, TypeOK
<1>3. CASE Ends(c) /\ UNCHANGED launches
  BY <1>1, <1>2, <1>3, Ended
<1>4. CASE /\ Move(c, "running") /\ ~ Owes(c)'
           /\ IsProcess(c) \/ aborted[c] = "no"
           /\ launches' = [launches EXCEPT ![c] = @ + 1]
  <2>1. Admission(c)
    BY <1>4 DEF Admission, CallInv, TypeOK
  <2>2. AbortInv(c)'
    BY <1>4 DEF AbortInv, CallInv, TypeOK, Move, IsProcess
  <2>3. /\ launches' \in [Calls -> Nat]
        /\ \A d \in Calls \ {c} : UNCHANGED launches[d]
    BY <1>4 DEF CallInv, TypeOK
  <2>4. "running" \in Stages \cup {"backoff"}
    BY DEF Stages
  <2> QED BY <1>1, <1>2, <1>4, <2>1, <2>2, <2>3, <2>4, Moved
<1> QED BY <1>1, <1>3, <1>4

LEMMA Attempted ==
  ASSUME CallInv, NEW c \in Calls, Attempt(c), at[c] \in {"idle", "backoff"},
         UNCHANGED aborted, \A d \in Calls \ {c} : UNCHANGED <<attempt[d], admitted[d]>>,
         attempt' \in [Calls -> 0 .. MaxAttempts], admitted' \in [Calls -> Nat],
         \/ at[c] # "idle" /\ admitted'[c] = admitted[c]
         \/ ~ open[AdapterOf[c]] /\ admitted'[c] = opened[AdapterOf[c]]
  PROVE  CallInv'
<1>1. aborted[c] # "during"
  BY DEF CallInv, AbortInv
<1>2. /\ aborted' \in [Calls -> {"no", "before", "during"}]
      /\ \A d \in Calls \ {c} : UNCHANGED aborted[d]
      /\ TypeOK /\ spent \in Nat /\ spent <= Limit
  BY DEF CallInv, TypeOK
<1>3. CASE ChargeAndRun(c)
  BY <1>1, <1>3, Ran
<1>4. CASE IsProcess(c) /\ Move(c, "checking") /\ UNCHANGED <<launches, budget, breaker>>
  <2>1. Admission(c)
    BY <1>4 DEF Admission, CallInv, TypeOK
  <2>2. AbortInv(c)'
    BY <1>1, <1>4 DEF AbortInv, CallInv, TypeOK, Move, IsProcess
  <2>3. /\ Trips(AdapterOf[c]) /\ spent' \in Nat /\ spent' <= Limit /\ paid' = paid
        /\ launches' \in [Calls -> Nat] /\ launches' = launches
        /\ \A d \in Calls \ {c} : UNCHANGED launches[d]
    BY <1>2, <1>4 DEF TypeOK, Trips, budget
  <2>4. "checking" \in Stages \cup {"backoff"}
    BY DEF Stages
  <2> QED BY <1>2, <1>4, <2>1, <2>2, <2>3, <2>4, Moved
<1>5. CASE Catch(c, "auth_failed") /\ UNCHANGED <<launches, budget>>
  <2>1. Ends(c) /\ Trips(AdapterOf[c])
    BY <1>2, <1>5, Caught DEF Errors, Retriable
  <2> QED BY <1>2, <1>5, <2>1, Ended DEF budget
<1> QED BY <1>3, <1>4, <1>5 DEF Attempt

\* A child fails; its call may be aborted by the same step.
LEMMA StageFailed ==
  ASSUME CallInv, NEW c \in Calls, NEW code \in Errors, StageFails(c, code),
         at[c] \in Stages,
         \/ UNCHANGED aborted
         \/ code = "aborted" /\ aborted' = [aborted EXCEPT ![c] = "during"]
  PROVE  CallInv'
<1>1. /\ aborted' \in [Calls -> {"no", "before", "during"}]
      /\ \A d \in Calls \ {c} : UNCHANGED aborted[d]
      /\ TypeOK /\ spent \in Nat /\ spent <= Limit
      /\ at[c] \notin {"idle", "done"}
  BY DEF CallInv, TypeOK, Stages
<1>2. /\ UNCHANGED <<attempt, launches, paid, spent, admitted>>
      /\ attempt' \in [Calls -> 0 .. MaxAttempts]
      /\ admitted' \in [Calls -> Nat]
      /\ launches' \in [Calls -> Nat]
      /\ Admission(c)
      /\ attempt'[c] = attempt[c]
      /\ \A d \in Calls \ {c} : UNCHANGED <<attempt[d], admitted[d], launches[d]>>
      /\ launches'[c] > 0 => launches[c] > 0 \/ ~ Owes(c)'
  BY <1>1 DEF StageFails, TypeOK, budget, Admission
<1>3. CASE /\ at[c] = "checking" /\ Auth[AdapterOf[c]] = "refresh"
           /\ Move(c, "refreshing")
           /\ UNCHANGED breaker
  <2>1. IsProcess(c)
    BY <1>3 DEF CallInv, StageInv
  <2>2. AbortInv(c)'
    BY <1>3, <2>1 DEF AbortInv, CallInv, TypeOK, Move, IsProcess
  <2>3. Trips(AdapterOf[c])
    BY <1>3 DEF Trips
  <2>4. "refreshing" \in Stages \cup {"backoff"}
    BY DEF Stages
  <2> QED BY <1>1, <1>2, <1>3, <2>1, <2>2, <2>3, <2>4, Moved
<1>4. CASE Catch(c, code)
  <2>1. Ends(c) \/ (code \in Retriable /\ Sleeps(c))
    BY <1>1, <1>4, Caught
  <2>2. Trips(AdapterOf[c])
    BY <1>1, <1>4, Caught
  <2>3. CASE Ends(c)
    BY <1>1, <1>2, <2>2, <2>3, Ended
  <2>4. CASE code \in Retriable /\ Sleeps(c)
    <3>1. UNCHANGED aborted /\ aborted[c] = "no" /\ Move(c, "backoff")
      BY <2>4 DEF Sleeps, Retriable
    <3>2. AbortInv(c)'
      BY <1>1, <3>1 DEF AbortInv, TypeOK, Move
    <3>3. attempt'[c] < MaxAttempts
      BY <1>2, <2>4 DEF Sleeps
    <3> QED BY <1>1, <1>2, <2>2, <3>1, <3>2, <3>3, Moved
  <2> QED BY <2>1, <2>3, <2>4
<1> QED BY <1>3, <1>4 DEF StageFails

LEMMA StepInvoke ==
  ASSUME CallInv, NEW c \in Calls, Invoke(c)
  PROVE  CallInv'
<1>1. /\ at[c] = "idle" /\ UNCHANGED aborted /\ TypeOK
      /\ spent \in Nat /\ spent <= Limit /\ 1 \in 0 .. MaxAttempts
      /\ opened[AdapterOf[c]] \in Nat
  BY LimitsAssumption, AdaptersAssumption DEF Invoke, CallInv, TypeOK
<1>2. CASE End(c, "circuit_open") /\ UNCHANGED <<attempt, launches, budget, breaker, admitted>>
  <2>1. Ends(c) /\ Trips(AdapterOf[c])
    BY <1>2 DEF Ends, Errors, Trips
  <2> QED BY <1>1, <1>2, <2>1, Ended DEF TypeOK, budget
<1>3. CASE /\ Available(AdapterOf[c])
           /\ attempt' = [attempt EXCEPT ![c] = 1]
           /\ admitted' = [admitted EXCEPT ![c] = opened[AdapterOf[c]]]
           /\ Attempt(c)
  <2>1. /\ attempt' \in [Calls -> 0 .. MaxAttempts] /\ admitted' \in [Calls -> Nat]
        /\ ~ open[AdapterOf[c]] /\ admitted'[c] = opened[AdapterOf[c]]
        /\ \A d \in Calls \ {c} : UNCHANGED <<attempt[d], admitted[d]>>
    BY <1>1, <1>3 DEF TypeOK, Available
  <2> QED BY <1>1, <1>3, <2>1, Attempted
<1> QED BY <1>2, <1>3 DEF Invoke

LEMMA StepStagePasses ==
  ASSUME CallInv, NEW c \in Calls, StagePasses(c)
  PROVE  CallInv'
<1>1. /\ UNCHANGED <<attempt, aborted, admitted>> /\ TypeOK
      /\ aborted' \in [Calls -> {"no", "before", "during"}]
      /\ attempt' \in [Calls -> 0 .. MaxAttempts] /\ admitted' \in [Calls -> Nat]
      /\ \A d \in Calls \ {c} : UNCHANGED <<attempt[d], admitted[d], aborted[d]>>
      /\ admitted'[c] = admitted[c]
  BY DEF StagePasses, CallInv, TypeOK
<1>2. CASE at[c] \in {"checking", "rechecking"} /\ ChargeAndRun(c)
  <2>1. aborted[c] # "during" /\ at[c] \notin {"idle", "done"}
    BY <1>2 DEF CallInv, AbortInv
  <2> QED BY <1>1, <1>2, <2>1, Ran
<1>3. CASE at[c] = "refreshing" /\ Move(c, "rechecking") /\ UNCHANGED <<launches, budget, breaker>>
  <2>1. IsProcess(c) /\ aborted[c] = "no"
    BY <1>1, <1>3 DEF CallInv, StageInv, StagePasses, ChildAborted, HasChild, Stages
  <2>2. AbortInv(c)' /\ Admission(c)
    BY <1>1, <1>3, <2>1 DEF AbortInv, Admission, TypeOK, Move, IsProcess
  <2>3. /\ Trips(AdapterOf[c]) /\ spent' \in Nat /\ spent' <= Limit /\ paid' = paid
        /\ launches' \in [Calls -> Nat] /\ launches' = launches
        /\ \A d \in Calls \ {c} : UNCHANGED launches[d]
    BY <1>3 DEF CallInv, TypeOK, Trips, budget
  <2>4. "rechecking" \in Stages \cup {"backoff"}
    BY DEF Stages
  <2> QED BY <1>1, <1>3, <2>1, <2>2, <2>3, <2>4, Moved
<1> QED BY <1>2, <1>3 DEF StagePasses

LEMMA StepChildFails ==
  ASSUME CallInv, NEW c \in Calls, ChildFails(c) \/ TimesOut(c)
  PROVE  CallInv'
<1>1. at[c] \in Stages /\ UNCHANGED aborted
  BY DEF ChildFails, TimesOut, HasChild
<1>2. PICK code \in {"aborted", "process_failed", "auth_failed", "provider_malformed", "timeout"} :
        StageFails(c, code)
  BY DEF ChildFails, TimesOut
<1>3. code \in Errors
  BY DEF Errors
<1> QED BY <1>1, <1>2, <1>3, StageFailed

LEMMA StepModelAnswers ==
  ASSUME CallInv, NEW c \in Calls, ModelAnswers(c) \/ OutputRejected(c)
  PROVE  CallInv'
<1> USE AdaptersAssumption
<1>1. /\ at[c] = "running" /\ ~ ChildAborted(c) /\ UNCHANGED aborted
      /\ UNCHANGED <<attempt, launches, budget, admitted>> /\ TypeOK
      /\ AdapterOf[c] \in Adapters /\ spent' \in Nat /\ spent' <= Limit /\ paid' = paid
      /\ aborted' \in [Calls -> {"no", "before", "during"}]
      /\ attempt' \in [Calls -> 0 .. MaxAttempts] /\ admitted' \in [Calls -> Nat]
      /\ \A d \in Calls \ {c} : UNCHANGED <<attempt[d], admitted[d], aborted[d]>>
  BY DEF ModelAnswers, OutputRejected, CallInv, TypeOK, budget
<1>2. CASE End(c, "output") /\ RecordSuccess(AdapterOf[c])
  <2>1. opened' = [opened EXCEPT ![AdapterOf[c]] = opened[AdapterOf[c]]]
    BY <1>1, <1>2 DEF RecordSuccess, TypeOK
  <2>2. Trips(AdapterOf[c])
    <3>1. /\ opened[AdapterOf[c]] \in Nat /\ opened[AdapterOf[c]] >= opened[AdapterOf[c]]
          /\ 0 \in Nat /\ FALSE \in BOOLEAN
      BY <1>1 DEF TypeOK
    <3> QED BY <1>2, <2>1, <3>1 DEF RecordSuccess, Trips
  <2>3. TypeOK'
    BY <1>1, <1>2, <2>2, TripsTypes DEF TypeOK, End, budget
  <2>4. at'[c] = "done" /\ result'[c] = "output"
    BY <1>1, <1>2 DEF End, TypeOK
  <2>5. ~ (aborted[c] = "before" \/ (aborted[c] = "during" /\ IsProcess(c)))
    BY <1>1 DEF CallInv, AbortInv, ChildAborted
  <2>6. AbortInv(c)' /\ StageInv(c)' /\ Admission(c)
    BY <1>1, <2>4, <2>5 DEF CallInv, AbortInv, StageInv, Admission, Owes, IsProcess
  <2>7. \A d \in Calls \ {c} : UNCHANGED Row(d)
    BY <1>1, <1>2 DEF Row, End, TypeOK, budget
  <2> QED BY <1>1, <2>2, <2>3, <2>6, <2>7, RowStep
<1>3. CASE Catch(c, "provider_malformed")
  <2>1. Ends(c) /\ Trips(AdapterOf[c])
    BY <1>1, <1>3, Caught DEF Errors, Retriable
  <2> QED BY <1>1, <2>1, Ended
<1>4. CASE RecordFailure(AdapterOf[c], 0, FALSE) /\ End(c, "provider_malformed")
  <2>1. Ends(c)
    BY <1>4 DEF Ends, Errors
  <2>2. Trips(AdapterOf[c])
    BY <1>1, <1>4, Recorded
  <2> QED BY <1>1, <2>1, <2>2, Ended
<1> QED BY <1>2, <1>3, <1>4 DEF ModelAnswers, OutputRejected

LEMMA StepBackoffElapses ==
  ASSUME CallInv, NEW c \in Calls, BackoffElapses(c)
  PROVE  CallInv'
<1>1. /\ at[c] = "backoff" /\ UNCHANGED <<aborted, admitted>> /\ Attempt(c)
      /\ attempt' = [attempt EXCEPT ![c] = @ + 1]
  BY DEF BackoffElapses
<1>2. /\ attempt' \in [Calls -> 0 .. MaxAttempts] /\ admitted' \in [Calls -> Nat]
      /\ admitted'[c] = admitted[c]
      /\ \A d \in Calls \ {c} : UNCHANGED <<attempt[d], admitted[d]>>
  BY <1>1, LimitsAssumption DEF CallInv, TypeOK, StageInv
<1> QED BY <1>1, <1>2, Attempted

LEMMA StepAbort ==
  ASSUME CallInv, NEW c \in Calls, AbortBefore(c) \/ AbortDuring(c)
  PROVE  CallInv'
<1>1. TypeOK /\ spent \in Nat /\ spent <= Limit
  BY DEF CallInv, TypeOK
<1>2. CASE AbortBefore(c)
  <2>1. TypeOK' /\ Trips(AdapterOf[c]) /\ spent' <= Limit
    BY <1>1, <1>2 DEF AbortBefore, TypeOK, progress, budget, breaker, Trips
  <2>2. AbortInv(c)' /\ StageInv(c)' /\ Admission(c)
    BY <1>2 DEF AbortBefore, CallInv, TypeOK, AbortInv, StageInv, Admission, Owes, progress, budget
  <2>3. \A d \in Calls \ {c} : UNCHANGED Row(d)
    BY <1>1, <1>2 DEF AbortBefore, TypeOK, Row, progress, budget
  <2> QED BY <2>1, <2>2, <2>3, RowStep
<1>3. CASE AbortDuring(c)
  <2>1. /\ aborted' = [aborted EXCEPT ![c] = "during"]
        /\ aborted' \in [Calls -> {"no", "before", "during"}]
        /\ \A d \in Calls \ {c} : UNCHANGED aborted[d]
    BY <1>1, <1>3 DEF AbortDuring, TypeOK
  <2>2. CASE HasChild(c) /\ StageFails(c, "aborted")
    BY <2>1, <2>2, StageFailed DEF HasChild, Errors
  <2>3. CASE End(c, "aborted") /\ UNCHANGED <<attempt, launches, budget, breaker, admitted>>
    <3>1. Ends(c) /\ Trips(AdapterOf[c])
      BY <2>3 DEF Ends, Errors, Trips
    <3> QED BY <1>1, <2>1, <2>3, <3>1, Ended DEF TypeOK, budget
  <2>4. CASE /\ ~ IsProcess(c) /\ at[c] = "running"
             /\ UNCHANGED <<progress, budget, breaker, admitted>>
    <3>1. TypeOK' /\ Trips(AdapterOf[c]) /\ spent' <= Limit
      BY <1>1, <2>1, <2>4 DEF TypeOK, progress, budget, breaker, Trips
    <3>2. AbortInv(c)' /\ StageInv(c)' /\ Admission(c)
      BY <2>1, <2>4
         DEF CallInv, TypeOK, AbortInv, StageInv, Admission, Owes, IsProcess, progress, budget
    <3>3. \A d \in Calls \ {c} : UNCHANGED Row(d)
      BY <2>1, <2>4 DEF Row, progress, budget
    <3> QED BY <3>1, <3>2, <3>3, RowStep
  <2> QED BY <1>3, <2>2, <2>3, <2>4 DEF AbortDuring
<1> QED BY <1>2, <1>3

LEMMA StepCooldownEnds ==
  ASSUME CallInv, NEW a \in Adapters, CooldownEnds(a)
  PROVE  CallInv'
<1>1. TypeOK' /\ spent' <= Limit
  BY DEF CallInv, TypeOK, CooldownEnds, progress, budget
<1>2. \A c \in Calls : AbortInv(c)' /\ StageInv(c)'
  BY DEF CallInv, CooldownEnds, AbortInv, StageInv, Owes, progress, budget
<1>3. \A c \in Calls : AdmittedInv(c)'
  BY AdaptersAssumption DEF CallInv, TypeOK, CooldownEnds, AdmittedInv, progress
<1> QED BY <1>1, <1>2, <1>3 DEF CallInv

LEMMA NextCallInv ==
  ASSUME CallInv, [Next]_vars
  PROVE  CallInv'
<1>1. CASE Next
  BY <1>1, StepInvoke, StepStagePasses, StepChildFails, StepModelAnswers, StepBackoffElapses,
     StepAbort, StepCooldownEnds DEF Next
<1>2. CASE UNCHANGED vars
  BY <1>2 DEF CallInv, TypeOK, AbortInv, StageInv, AdmittedInv, Owes, vars, progress, budget, breaker
<1> QED BY <1>1, <1>2

LEMMA CallInvariant == Spec => []CallInv
BY InitCallInv, NextCallInv, PTL DEF Spec

-----------------------------------------------------------------------------
\* A set that holds 0 and the successor of each natural number it holds, holds them
\* all: else the least number it lacks has a predecessor, which it holds.
LEMMA SetInduction ==
  ASSUME NEW S, 0 \in S, \A n \in Nat : n \in S => n + 1 \in S
  PROVE  Nat \subseteq S
<1> SUFFICES ASSUME Nat \ S # {} PROVE FALSE
  OBVIOUS
<1>1. PICK n \in Nat \ S : \A m \in Nat \ S : <<m, n>> \notin OpToRel(<, Nat)
  BY NatLessThanWellFounded, WFMin, Nat \ S \subseteq Nat, Zenon
<1>2. n - 1 \in Nat \ S /\ n - 1 < n /\ (n - 1) + 1 = n
  OBVIOUS
<1> QED BY <1>1, <1>2, Zenon DEF OpToRel

-----------------------------------------------------------------------------
(* What calls have paid together: MapThenSumSet, on finite sets of calls.  *)

Price(c) == Cost[AdapterOf[c]]
Some(s)  == CHOOSE c \in s : TRUE
Total(S) == MapThenSumSet(LAMBDA c : Cost[AdapterOf[c]], S)

LEMMA PriceIsNat ==
  ASSUME NEW c \in Calls
  PROVE  Price(c) \in Nat
  BY AdaptersAssumption DEF Price

LEMMA SomeRemoved ==
  ASSUME NEW s, IsFiniteSet(s), s # {}
  PROVE  /\ Some(s) \in s
         /\ Cardinality(s) \in Nat
         /\ IsFiniteSet(s \ {Some(s)})
         /\ Cardinality(s \ {Some(s)}) = Cardinality(s) - 1
<1>1. Some(s) \in s
  BY DEF Some
<1> QED BY <1>1, FS_CardinalityType, FS_RemoveElement

(* The recursion of MapThenFoldSet, here for the prices of calls.          *)
Sums(g, s) == g[s] = IF s = {} THEN 0 ELSE Price(Some(s)) + g[s \ {Some(s)}]

LEMMA SumsExists ==
  ASSUME NEW U \in SUBSET Calls, IsFiniteSet(U)
  PROVE  \E g \in [SUBSET U -> Nat] : \A s \in SUBSET U : Sums(g, s)
<1> DEFINE UpTo(n) == \E g \in [SUBSET U -> Nat] :
                        \A s \in SUBSET U : Cardinality(s) <= n => Sums(g, s)
           S == {n \in Nat : UpTo(n)}
<1>1. \A s \in SUBSET U : IsFiniteSet(s) /\ Cardinality(s) \in Nat
                          /\ Cardinality(s) <= Cardinality(U)
  BY FS_Subset, FS_CardinalityType
<1>2. 0 \in S
  <2> DEFINE g == [s \in SUBSET U |-> 0]
  <2>1. \A s \in SUBSET U : Cardinality(s) <= 0 => s = {}
    BY <1>1, FS_EmptySet
  <2>2. \A s \in SUBSET U : Cardinality(s) <= 0 => Sums(g, s)
    BY <2>1 DEF Sums
  <2>3. g \in [SUBSET U -> Nat]
    OBVIOUS
  <2> QED BY <2>2, <2>3
<1>3. ASSUME NEW n \in Nat, n \in S PROVE n + 1 \in S
  <2>1. PICK g \in [SUBSET U -> Nat] : \A s \in SUBSET U : Cardinality(s) <= n => Sums(g, s)
    BY <1>3
  <2> DEFINE h == [s \in SUBSET U |-> IF Cardinality(s) = n + 1
                                      THEN Price(Some(s)) + g[s \ {Some(s)}] ELSE g[s]]
  <2>2. ASSUME NEW s \in SUBSET U, s # {}
        PROVE  /\ Price(Some(s)) \in Nat /\ s \ {Some(s)} \in SUBSET U
               /\ Cardinality(s \ {Some(s)}) = Cardinality(s) - 1
               /\ Cardinality(s) \in Nat
    BY <1>1, <2>2, SomeRemoved, PriceIsNat
  <2>3. ASSUME NEW s \in SUBSET U, Cardinality(s) = n + 1 PROVE s # {}
    <3>1. s = {} => Cardinality(s) = 0
      BY FS_EmptySet, Zenon
    <3> QED BY <2>3, <3>1
  <2>4. h \in [SUBSET U -> Nat]
    <3>1. \A s \in SUBSET U : (IF Cardinality(s) = n + 1
                                THEN Price(Some(s)) + g[s \ {Some(s)}] ELSE g[s]) \in Nat
      BY <2>2, <2>3
    <3> QED BY <3>1
  <2>5. ASSUME NEW s \in SUBSET U, Cardinality(s) <= n + 1 PROVE Sums(h, s)
    <3>1. CASE s = {}
      <4>1. Cardinality(s) = 0 /\ Sums(g, s)
        BY <2>1, <3>1, FS_EmptySet
      <4>2. h[s] = g[s]
        BY <4>1
      <4> QED BY <3>1, <4>1, <4>2 DEF Sums
    <3>2. CASE s # {}
      <4>1. /\ s \ {Some(s)} \in SUBSET U /\ Cardinality(s) \in Nat
            /\ Cardinality(s \ {Some(s)}) # n + 1
        <5>1. /\ s \ {Some(s)} \in SUBSET U /\ Cardinality(s) \in Nat
              /\ Cardinality(s \ {Some(s)}) = Cardinality(s) - 1
          BY <2>2, <3>2
        <5> HIDE DEF Some
        <5> QED BY <2>5, <5>1
      <4>2. h[s \ {Some(s)}] = g[s \ {Some(s)}]
        BY <4>1
      <4>3. h[s] = Price(Some(s)) + g[s \ {Some(s)}]
        <5>1. CASE Cardinality(s) = n + 1
          BY <5>1
        <5>2. CASE Cardinality(s) # n + 1
          <6>1. Sums(g, s) /\ h[s] = g[s]
            BY <2>1, <2>5, <4>1, <5>2
          <6> QED BY <3>2, <6>1 DEF Sums
        <5> QED BY <5>1, <5>2
      <4> HIDE DEF h
      <4> QED BY <3>2, <4>2, <4>3 DEF Sums
    <3> QED BY <3>1, <3>2
  <2> HIDE DEF h
  <2>6. UpTo(n + 1)
    BY <2>4, <2>5
  <2> QED BY <2>6
<1>4. Nat \subseteq S
  <2> HIDE DEF S
  <2> QED BY <1>2, <1>3, SetInduction
<1>5. UpTo(Cardinality(U))
  <2>1. Cardinality(U) \in Nat
    BY FS_CardinalityType
  <2> HIDE DEF UpTo
  <2> QED BY <1>4, <2>1
<1> QED BY <1>1, <1>5

LEMMA SumsUnique ==
  ASSUME NEW U, IsFiniteSet(U), NEW V, U \subseteq V, NEW g, NEW h,
         \A s \in SUBSET U : Sums(g, s), \A s \in SUBSET V : Sums(h, s)
  PROVE  g[U] = h[U]
<1> DEFINE S == {n \in Nat : \A s \in SUBSET U : Cardinality(s) = n => g[s] = h[s]}
<1>1. \A s \in SUBSET U : IsFiniteSet(s) /\ Cardinality(s) \in Nat
  BY FS_Subset, FS_CardinalityType
<1>2. 0 \in S
  <2>1. \A s \in SUBSET U : Cardinality(s) = 0 => s = {}
    BY <1>1, FS_EmptySet
  <2> QED BY <2>1 DEF Sums
<1>3. ASSUME NEW n \in Nat, n \in S PROVE n + 1 \in S
  <2> SUFFICES ASSUME NEW s \in SUBSET U, Cardinality(s) = n + 1 PROVE g[s] = h[s]
    OBVIOUS
  <2>1. s # {}
    BY FS_EmptySet
  <2>2. s \ {Some(s)} \in SUBSET U /\ Cardinality(s \ {Some(s)}) = n
    <3>1. Cardinality(s \ {Some(s)}) = Cardinality(s) - 1
      BY <1>1, <2>1, SomeRemoved
    <3> QED BY <3>1
  <2>3. g[s \ {Some(s)}] = h[s \ {Some(s)}]
    BY <1>3, <2>2
  <2>4. Sums(g, s) /\ Sums(h, s)
    OBVIOUS
  <2> QED BY <2>1, <2>3, <2>4 DEF Sums
<1>4. Nat \subseteq S
  <2> HIDE DEF S
  <2> QED BY <1>2, <1>3, SetInduction
<1> QED BY <1>1, <1>4

LEMMA TotalIs ==
  ASSUME NEW U \in SUBSET Calls, IsFiniteSet(U)
  PROVE  \E g \in [SUBSET U -> Nat] : (\A s \in SUBSET U : Sums(g, s)) /\ Total(U) = g[U]
<1> DEFINE Solves(g) == g = [s \in SUBSET U |->
                               IF s = {} THEN 0
                               ELSE Cost[AdapterOf[CHOOSE x \in s : TRUE]]
                                    + g[s \ {CHOOSE x \in s : TRUE}]]
           h == CHOOSE g : Solves(g)
<1>1. PICK g \in [SUBSET U -> Nat] : \A s \in SUBSET U : Sums(g, s)
  BY SumsExists
<1>2. Solves(g)
  BY <1>1 DEF Sums, Some, Price
<1>3. Solves(h)
  <2> HIDE DEF Solves
  <2> QED BY <1>2
<1>4. Total(U) = h[U]
  BY DEF Total, MapThenSumSet, MapThenFoldSet
<1> HIDE DEF h
<1>5. \A s \in SUBSET U : Sums(h, s)
  BY <1>3 DEF Sums, Some, Price
<1> HIDE DEF Solves
<1>6. h[U] = g[U]
  BY <1>1, <1>5, SumsUnique
<1> QED BY <1>1, <1>4, <1>6

LEMMA TotalIsNat ==
  ASSUME NEW U \in SUBSET Calls, IsFiniteSet(U)
  PROVE  Total(U) \in Nat
<1>1. PICK g \in [SUBSET U -> Nat] : Total(U) = g[U]
  BY TotalIs
<1> QED BY <1>1

LEMMA TotalOfNone == Total({}) = 0
<1>1. PICK g : (\A s \in SUBSET {} : Sums(g, s)) /\ Total({}) = g[{}]
  BY TotalIs, FS_EmptySet
<1> QED BY <1>1 DEF Sums

LEMMA TotalOfSome ==
  ASSUME NEW U \in SUBSET Calls, IsFiniteSet(U), U # {}
  PROVE  Total(U) = Price(Some(U)) + Total(U \ {Some(U)})
<1> DEFINE V == U \ {Some(U)}
<1>1. PICK g \in [SUBSET U -> Nat] : (\A s \in SUBSET U : Sums(g, s)) /\ Total(U) = g[U]
  BY TotalIs
<1>2. V \in SUBSET Calls /\ IsFiniteSet(V) /\ V \in SUBSET U
  BY FS_Subset
<1>3. PICK h \in [SUBSET V -> Nat] : (\A s \in SUBSET V : Sums(h, s)) /\ Total(V) = h[V]
  BY <1>2, TotalIs
<1>4. h[V] = g[V]
  <2>1. \A s \in SUBSET V : Sums(h, s)
    BY <1>3
  <2>2. \A s \in SUBSET U : Sums(g, s)
    BY <1>1
  <2>3. IsFiniteSet(V) /\ V \subseteq U
    BY <1>2
  <2> HIDE DEF V
  <2> QED BY <2>1, <2>2, <2>3, SumsUnique
<1>5. g[U] = Price(Some(U)) + g[V]
  BY <1>1 DEF Sums
<1> QED BY <1>1, <1>3, <1>4, <1>5

(* One more call adds its price, whichever call the sum takes first.       *)
LEMMA TotalOfOneMore ==
  ASSUME NEW U \in SUBSET Calls, IsFiniteSet(U), NEW c \in Calls \ U
  PROVE  Total(U \cup {c}) = Total(U) + Price(c)
<1> DEFINE S == {n \in Nat : \A s \in SUBSET U : \A x \in Calls \ s : 
                   Cardinality(s) = n => Total(s \cup {x}) = Total(s) + Price(x)}
<1>1. \A s \in SUBSET U : s \in SUBSET Calls /\ IsFiniteSet(s) /\ Cardinality(s) \in Nat
  BY FS_Subset, FS_CardinalityType
<1>2. \A s \in SUBSET U : \A x \in Calls \ s :
        /\ s \cup {x} \in SUBSET Calls /\ IsFiniteSet(s \cup {x})
        /\ Total(s) \in Nat /\ Total(s \cup {x}) \in Nat /\ Price(x) \in Nat
  <2> TAKE s \in SUBSET U
  <2> TAKE x \in Calls \ s
  <2>1. s \cup {x} \in SUBSET Calls /\ IsFiniteSet(s \cup {x}) /\ x \in Calls
    BY <1>1, FS_AddElement
  <2> QED BY <1>1, <2>1, TotalIsNat, PriceIsNat
<1>3. 0 \in S
  <2> SUFFICES ASSUME NEW x \in Calls
               PROVE  Total({} \cup {x}) = Total({}) + Price(x)
    <3>1. \A s \in SUBSET U : Cardinality(s) = 0 => s = {}
      BY <1>1, FS_EmptySet
    <3> QED BY <3>1
  <2>1. Some({x}) = x
    BY DEF Some
  <2>2. IsFiniteSet({x}) /\ {x} \in SUBSET Calls /\ {x} \ {x} = {} /\ {} \cup {x} = {x}
    BY FS_Singleton
  <2>3. Total({x}) = Price(x) + Total({})
    BY <2>1, <2>2, TotalOfSome
  <2> QED BY <2>2, <2>3, TotalOfNone, PriceIsNat
<1>4. ASSUME NEW n \in Nat, n \in S PROVE n + 1 \in S
  <2> SUFFICES ASSUME NEW s \in SUBSET U, NEW x \in Calls \ s, Cardinality(s) = n + 1
               PROVE  Total(s \cup {x}) = Total(s) + Price(x)
    OBVIOUS
  <2> DEFINE t == s \cup {x}
             y == Some(t)
  <2>1. t \in SUBSET Calls /\ IsFiniteSet(t) /\ t # {} /\ y \in t
    BY <1>2 DEF Some
  <2>2. Total(t) = Price(y) + Total(t \ {y})
    BY <2>1, TotalOfSome
  <2>3. CASE y = x
    <3>1. t \ {y} = s
      BY <2>3
    <3> HIDE DEF y, t
    <3>2. Total(t) = Price(x) + Total(s)
      BY <2>2, <2>3, <3>1, Zenon
    <3>3. Total(s) \in Nat /\ Price(x) \in Nat
      BY <1>2
    <3>4. Total(t) = Total(s) + Price(x)
      BY <3>2, <3>3
    <3> QED BY <3>4 DEF t
  <2>4. CASE y # x
    <3>1. y \in s /\ t \ {y} = (s \ {y}) \cup {x} /\ x \in Calls \ (s \ {y})
          /\ s \ {y} \in SUBSET U /\ y \in Calls \ (s \ {y}) /\ (s \ {y}) \cup {y} = s
      BY <2>1, <2>4
    <3> HIDE DEF y, t
    <3>2. Cardinality(s \ {y}) = n
      <4>1. Cardinality(s \ {y}) = Cardinality(s) - 1
        BY <1>1, <3>1, FS_RemoveElement
      <4> QED BY <4>1
    <3>3. Total((s \ {y}) \cup {x}) = Total(s \ {y}) + Price(x)
      BY <1>4, <3>1, <3>2
    <3>4. Total(s) = Total(s \ {y}) + Price(y)
      BY <1>4, <3>1, <3>2, Zenon
    <3>5. Total(s \ {y}) \in Nat /\ Price(x) \in Nat /\ Price(y) \in Nat
      BY <1>2, <3>1
    <3>6. Total(t) = Price(y) + Total((s \ {y}) \cup {x})
      BY <2>2, <3>1, Zenon
    <3>7. Total(t) = Total(s) + Price(x)
      BY <3>3, <3>4, <3>5, <3>6
    <3> QED BY <3>7 DEF t
  <2> QED BY <2>3, <2>4
<1>5. Nat \subseteq S
  <2> HIDE DEF S
  <2> QED BY <1>3, <1>4, SetInduction
<1> QED BY <1>1, <1>5

-----------------------------------------------------------------------------
(* What the budget has spent                                               *)

Payers == {c \in Calls : paid[c]}

\* The part of the invariant that counts: only finitely many calls have paid, and
\* the budget has spent what they cost together.
SumKept == IsFiniteSet(Payers) /\ spent = Total(Payers)

\* Whatever step a call takes, the budget is charged for it by consume or not at
\* all.
LEMMA Pays ==
  ASSUME [Next]_vars
  PROVE  UNCHANGED budget \/ \E c \in Calls : Charge(c)
<1>1. ASSUME NEW c \in Calls, ChargeAndRun(c) PROVE UNCHANGED budget \/ Charge(c)
  BY <1>1 DEF ChargeAndRun
<1>2. ASSUME NEW c \in Calls, Invoke(c) \/ StagePasses(c) \/ BackoffElapses(c)
      PROVE  UNCHANGED budget \/ Charge(c)
  BY <1>1, <1>2 DEF Invoke, StagePasses, BackoffElapses, Attempt
<1>3. CASE UNCHANGED budget
  BY <1>3
<1> QED BY <1>2, <1>3 DEF Next, ChildFails, TimesOut, StageFails, ModelAnswers, OutputRejected,
                          AbortBefore, AbortDuring, CooldownEnds, progress, vars, budget

LEMMA InitSumKept == Init => SumKept
<1> SUFFICES ASSUME Init PROVE SumKept
  OBVIOUS
<1>1. Payers = {} /\ spent = 0
  BY DEF Init, Payers
<1> QED BY <1>1, FS_EmptySet, TotalOfNone, Zenon DEF SumKept

LEMMA NextSumKept ==
  ASSUME TypeOK, SumKept, [Next]_vars
  PROVE  SumKept'
<1>1. CASE UNCHANGED budget
  <2>1. Payers' = Payers /\ spent' = spent
    BY <1>1 DEF Payers, budget
  <2> QED BY <2>1, Zenon DEF SumKept
<1>2. ASSUME NEW c \in Calls, Charge(c) PROVE SumKept'
  <2>1. paid \in [Calls -> BOOLEAN] /\ Cost[AdapterOf[c]] = Price(c) /\ Price(c) \in Nat
    BY PriceIsNat DEF TypeOK, Price
  <2>2. CASE Owes(c)
    <3>1. c \in Calls \ Payers /\ Payers \in SUBSET Calls /\ IsFiniteSet(Payers)
      BY <2>2 DEF Owes, Payers, SumKept
    <3>2. Payers' = Payers \cup {c}
      BY <1>2, <2>1, <2>2 DEF Charge, Payers
    <3>3. spent' = spent + Price(c)
      BY <1>2, <2>1, <2>2 DEF Charge
    <3>4. IsFiniteSet(Payers \cup {c}) /\ Total(Payers \cup {c}) = Total(Payers) + Price(c)
      BY <3>1, FS_AddElement, TotalOfOneMore
    <3>5. spent' = Total(Payers \cup {c})
      BY <3>3, <3>4 DEF SumKept
    <3> QED BY <3>2, <3>4, <3>5, Zenon DEF SumKept
  <2>3. CASE ~ Owes(c)
    <3>1. paid' = paid /\ spent' = spent
      BY <1>2, <2>1, <2>3 DEF Charge
    <3>2. Payers' = Payers
      BY <3>1 DEF Payers
    <3> QED BY <3>1, <3>2, Zenon DEF SumKept
  <2> QED BY <2>2, <2>3
<1> QED BY <1>1, <1>2, Pays

-----------------------------------------------------------------------------
(* The theorems                                                            *)

\* Every state of every set of calls has its type.
THEOREM CallsTypeCorrect == Spec => []TypeOK
BY CallInvariant, PTL DEF CallInv

\* Concurrent calls never overdraw the budget; what it has spent is what the calls
\* that paid cost together, each counted once; and no model run starts unpaid.
\* For all calls, costs and limits.
THEOREM BudgetKeptCorrect == Spec => []BudgetKept
<1>1. Init => CallInv /\ SumKept
  BY InitCallInv, InitSumKept
<1>2. CallInv /\ SumKept /\ [Next]_vars => CallInv' /\ SumKept'
  BY NextCallInv, NextSumKept DEF CallInv
<1>3. CallInv /\ SumKept => BudgetKept
  <2> SUFFICES ASSUME CallInv, SumKept PROVE BudgetKept
    OBVIOUS
  <2>1. spent <= Limit
    BY DEF CallInv
  <2>2. spent = MapThenSumSet(LAMBDA c : Cost[AdapterOf[c]], {c \in Calls : paid[c]})
    BY Zenon DEF SumKept, Total, Payers
  <2>3. \A c \in Calls : launches[c] > 0 /\ Cost[AdapterOf[c]] > 0 => paid[c]
    BY DEF CallInv, StageInv, Owes
  <2> QED BY <2>1, <2>2, <2>3, Zenon DEF BudgetKept
<1> QED BY <1>1, <1>2, <1>3, PTL DEF Spec

\* While a breaker is open, only calls admitted before it last opened are in
\* progress on its adapter, for all calls, adapters and thresholds.
THEOREM OnlyEarlierCallsRunCorrect == Spec => []OnlyEarlierCallsRun
<1>1. CallInv => OnlyEarlierCallsRun
  BY DEF CallInv, AdmittedInv, OnlyEarlierCallsRun
<1> QED BY <1>1, CallInvariant, PTL

\* A call aborted before it, or while a process runs, never returns an output.
THEOREM AbortedCallYieldsNothingCorrect == Spec => []AbortedCallYieldsNothing
<1>1. CallInv => AbortedCallYieldsNothing
  BY DEF CallInv, StageInv, AbortedCallYieldsNothing
<1> QED BY <1>1, CallInvariant, PTL

\* A call that is aborted on its way starts no further model run.
THEOREM NoLaunchAfterAbortCorrect == Spec => NoLaunchAfterAbort
<1>1. CallInv /\ [Next]_vars =>
        [\A c \in Calls : aborted[c] = "during" => launches'[c] = launches[c]]_vars
  <2> SUFFICES ASSUME CallInv, Next, NEW c \in Calls, aborted[c] = "during"
               PROVE  launches'[c] = launches[c]
    OBVIOUS
  <2>1. at[c] \notin {"idle", "backoff", "checking", "rechecking"} /\ launches \in [Calls -> Nat]
    BY DEF CallInv, AbortInv, TypeOK
  <2>2. CASE UNCHANGED launches
    BY <2>2
  <2>3. ASSUME NEW d \in Calls, Invoke(d) \/ StagePasses(d) \/ BackoffElapses(d)
        PROVE  launches'[c] = launches[c]
    <3>1. CASE d = c
      BY <2>1, <2>3, <3>1 DEF Invoke, StagePasses, BackoffElapses
    <3>2. CASE d # c
      BY <2>1, <2>3, <3>2 DEF Invoke, StagePasses, BackoffElapses, Attempt, ChargeAndRun
    <3> QED BY <3>1, <3>2
  <2> QED BY <2>2, <2>3 DEF Next, ChildFails, TimesOut, StageFails, ModelAnswers, OutputRejected,
                            AbortBefore, AbortDuring, CooldownEnds, progress
<1> QED BY <1>1, CallInvariant, PTL DEF Spec, NoLaunchAfterAbort
=============================================================================
