---------------------------- MODULE DecisionProofs ----------------------------
(***************************************************************************)
(* What the deciding functions promise, proved for inputs of every size    *)
(* and kind, and from that the invariants of MCDecisions.                  *)
(***************************************************************************)
EXTENDS MCDecisions, FiniteSetTheorems, WellFoundedInduction, TLAPS

-----------------------------------------------------------------------------
(* Numbers and sequences                                                   *)

LEMMA SetInduction ==
  ASSUME NEW T, 0 \in T, \A n \in Nat : n \in T => n + 1 \in T
  PROVE  Nat \subseteq T
<1> SUFFICES ASSUME Nat \ T # {} PROVE FALSE
  OBVIOUS
<1>1. PICK n \in Nat \ T : \A m \in Nat \ T : <<m, n>> \notin OpToRel(<, Nat)
  BY NatLessThanWellFounded, WFMin, Nat \ T \subseteq Nat, Zenon
<1>2. n - 1 \in Nat \ T /\ n - 1 < n /\ (n - 1) + 1 = n
  OBVIOUS
<1> QED BY <1>1, <1>2, Zenon DEF OpToRel

LEMMA LeastOf ==
  ASSUME NEW T, T \subseteq Nat, T # {}
  PROVE  Min(T) \in T /\ \A n \in T : Min(T) <= n
<1>1. PICK n \in T : \A m \in T : <<m, n>> \notin OpToRel(<, Nat)
  BY NatLessThanWellFounded, WFMin, Zenon
<1>2. \A m \in T : ~ (m < n)
  BY <1>1, Zenon DEF OpToRel
<1>3. \A m \in T : n <= m
  BY <1>2
<1> QED BY <1>3 DEF Min

LEMMA GreatestOf ==
  ASSUME NEW b \in Nat, NEW T, T \subseteq 0..b, T # {}
  PROVE  S!Max(T) \in T /\ \A n \in T : S!Max(T) >= n
<1> DEFINE R == {b - n : n \in T}
           m == b - Min(R)
<1>1. R \subseteq Nat /\ R # {}
  <2>1. \A n \in T : b - n \in Nat
    OBVIOUS
  <2> QED BY <2>1
<1>2. Min(R) \in R /\ \A n \in R : Min(R) <= n
  BY <1>1, LeastOf
<1>3. m \in T
  BY <1>2
<1>4. \A n \in T : m >= n
  <2> SUFFICES ASSUME NEW n \in T PROVE m >= n
    OBVIOUS
  <2>1. Min(R) <= b - n /\ Min(R) \in Nat
    BY <1>1, <1>2
  <2>2. n \in Nat
    OBVIOUS
  <2> HIDE DEF R
  <2> QED BY <2>1, <2>2
<1> HIDE DEF m
<1>5. \E x \in T : \A y \in T : x >= y
  BY <1>3, <1>4
<1> QED BY <1>5 DEF S!Max

LEMMA ListOf ==
  ASSUME NEW T, NEW n \in Nat, NEW f \in [1..n -> T]
  PROVE  f \in Seq(T) /\ Len(f) = n
<1>1. f = [i \in 1..n |-> f[i]]
  OBVIOUS
<1>2. [i \in 1..n |-> f[i]] \in Seq(T) /\ Len([i \in 1..n |-> f[i]]) = n
  OBVIOUS
<1> QED BY <1>1, <1>2

-----------------------------------------------------------------------------
(* Structured fusion                                                       *)

(* Whatever the judge says and the synthesis cites, a run that has paid    *)
(* for both does not end at the schema of its report, and it has asked for *)
(* the synthesis only with a verdict that cites nothing but candidates,    *)
(* from a judge that is none of them (runStructuredFusion).                *)
THEOREM FusionIsReported ==
  ASSUME NEW labels, NEW verdict, NEW judge, NEW final
  PROVE  LET run == F!Run(labels, verdict, judge, final)
         IN  /\ run.ended # "report"
             /\ Len(run.calls) = 2 =>
                  /\ Len(labels) >= 2 /\ F!Distinct(labels)
                  /\ F!Mentioned(verdict) \subseteq Range(labels)
                  /\ judge \notin Range(labels)
<1> DEFINE run    == F!Run(labels, verdict, judge, final)
           report == F!DecisionReport(labels, judge, verdict)
           few    == Len(labels) < 2 \/ ~ F!Distinct(labels)
           bad    == \/ ~ F!VerdictOK(verdict) \/ ~ F!Grounded(verdict, Range(labels))
                     \/ judge \in Range(labels)
<1> USE DEF F!Range, Range
<1>1. CASE few
  <2>1. run = F!Stopped(<<>>, "candidates")
    BY <1>1 DEF F!Run
  <2> QED BY <2>1 DEF F!Stopped
<1>2. CASE ~ few /\ bad
  <2>1. run = F!Stopped(<<"judge">>, "verdict")
    BY <1>2 DEF F!Run
  <2> QED BY <2>1 DEF F!Stopped
<1>3. CASE ~ few /\ ~ bad
  <2>1. F!DecisionReportOK(report)
    BY <1>3 DEF F!DecisionReportOK, F!DecisionReport, F!Grounded
  <2>2. run.ended # "report"
    BY <1>3, <2>1 DEF F!Run, F!Stopped
  <2>3. F!Mentioned(verdict) \subseteq Range(labels) /\ judge \notin Range(labels)
    BY <1>3 DEF F!Grounded
  <2> QED BY <1>3, <2>2, <2>3
<1> QED BY <1>1, <1>2, <1>3

-----------------------------------------------------------------------------
(* The states of MCDecisions: a result is what the function of its kind    *)
(* makes of its input, and the input one of those of the kind.             *)

ProcessAttempt == [outcome   |-> O!ProcessOutcome(input, input.adapter),
                   validated |-> O!Validated(O!ProcessOutcome(input, input.adapter), input.adapter)]

HttpAttempt == [outcome   |-> O!HttpOutcome(input, input.adapter),
                validated |-> O!Validated(O!HttpOutcome(input, input.adapter), input.adapter)]

CalibrationInv ==
  kind = "calibration" =>
    /\ input \in CalibrationInputs
    /\ result # Pending => result = [flat   |-> FlatAggregate(input.obs, input.minimum),
                                     report |-> Aggregate(input.obs, input.minimum)]

QualityInv ==
  kind = "quality" =>
    input \in QualityInputs /\ (result # Pending => result = Q!Aggregate(input))

FusionInv ==
  kind = "fusion" =>
    /\ input \in FusionInputs
    /\ result # Pending => result = F!Run(input.labels, input.verdict, input.judge, input.final)

SimulatorInv ==
  kind = "simulator" =>
    /\ input \in [script : Scripts, start : Starts, limits : LimitSets]
    /\ result # Pending => result = Simulate(input.script, input.start, input.limits)

AttemptInv ==
  kind = "attempt" =>
    /\ input \in Processes \cup Exchanges
    /\ result # Pending => result = IF ByProcess THEN ProcessAttempt ELSE HttpAttempt

PolicyInv ==
  kind = "policy" =>
    /\ input \in PolicyInputs
    /\ result # Pending =>
         result = S!Decide(input.candidates, input.synthesis, S!DefaultRegistry, input.hints,
                           input.remaining)

SetupInv ==
  kind = "setup" =>
    input \in SetupInputs /\ (result # Pending => result = <<S!Generated(input)>>)

DecisionInv ==
  /\ CalibrationInv /\ QualityInv /\ FusionInv /\ SimulatorInv
  /\ AttemptInv /\ PolicyInv /\ SetupInv

LEMMA DecisionInvariant == Spec => []DecisionInv
<1>1. Init => DecisionInv
  BY DEF Init, DecisionInv, CalibrationInv, QualityInv, FusionInv, SimulatorInv, AttemptInv,
         PolicyInv, SetupInv
<1>2. DecisionInv /\ [Next]_vars => DecisionInv'
  <2> SUFFICES ASSUME DecisionInv, [Next]_vars PROVE DecisionInv'
    OBVIOUS
  <2> USE DEF DecisionInv
  <2>1. CASE Calibrate
    BY <2>1 DEF Calibrate, CalibrationInv, QualityInv, FusionInv, SimulatorInv, AttemptInv,
                PolicyInv, SetupInv
  <2>2. CASE MeasureQuality
    BY <2>2 DEF MeasureQuality, CalibrationInv, QualityInv, FusionInv, SimulatorInv, AttemptInv,
                PolicyInv, SetupInv
  <2>3. CASE Fuse
    BY <2>3 DEF Fuse, CalibrationInv, QualityInv, FusionInv, SimulatorInv, AttemptInv,
                PolicyInv, SetupInv
  <2>4. CASE Simulation
    BY <2>4 DEF Simulation, CalibrationInv, QualityInv, FusionInv, SimulatorInv, AttemptInv,
                PolicyInv, SetupInv
  <2>5. CASE Attempt
    BY <2>5 DEF Attempt, CalibrationInv, QualityInv, FusionInv, SimulatorInv, AttemptInv,
                PolicyInv, SetupInv, ByProcess, ProcessAttempt, HttpAttempt
  <2>6. CASE Choose
    BY <2>6 DEF Choose, CalibrationInv, QualityInv, FusionInv, SimulatorInv, AttemptInv,
                PolicyInv, SetupInv
  <2>7. CASE SetUp
    BY <2>7 DEF SetUp, CalibrationInv, QualityInv, FusionInv, SimulatorInv, AttemptInv,
                PolicyInv, SetupInv
  <2>8. CASE UNCHANGED vars
    BY <2>8 DEF vars, CalibrationInv, QualityInv, FusionInv, SimulatorInv, AttemptInv,
                PolicyInv, SetupInv, ByProcess, ProcessAttempt, HttpAttempt
  <2> QED BY <2>1, <2>2, <2>3, <2>4, <2>5, <2>6, <2>7, <2>8 DEF Next
<1> QED BY <1>1, <1>2, PTL DEF Spec

LEMMA FusionCardinality == \A T : F!Cardinality(T) = Cardinality(T)
BY DEF F!Cardinality, Cardinality

(* A candidate list of the run with two different sources has "a" in it.   *)
LEMMA LabelsHaveA ==
  ASSUME NEW labels \in (UNION {[1..n -> Sources] : n \in 1..2}) \cup {<<"a", "b", "c">>},
         Len(labels) >= 2, F!Distinct(labels)
  PROVE  "a" \in Range(labels)
<1>1. CASE labels = <<"a", "b", "c">>
  BY <1>1 DEF Range
<1>2. CASE labels \in [1..1 -> Sources]
  <2>1. Len(labels) = 1
    BY <1>2, ListOf
  <2> QED BY <2>1
<1>3. CASE labels \in [1..2 -> Sources] /\ labels[1] = "b" /\ labels[2] = "b"
  <2>1. Len(labels) = 2
    BY <1>3, ListOf
  <2>2. \A i \in DOMAIN labels : labels[i] = "b"
    BY <1>3
  <2>3. F!Range(labels) = {"b"}
    BY <1>3, <2>2 DEF F!Range
  <2>4. Cardinality({"b"}) = 1
    BY FS_Singleton
  <2> QED BY <2>1, <2>3, <2>4, FusionCardinality DEF F!Distinct
<1>4. CASE labels \in [1..2 -> Sources] /\ (labels[1] = "a" \/ labels[2] = "a")
  BY <1>4 DEF Range
<1>5. CASE \E n \in 1..2 : labels \in [1..n -> Sources]
  <2>1. PICK n \in 1..2 : labels \in [1..n -> Sources]
    BY <1>5
  <2>2. CASE n = 1
    BY <2>1, <2>2, <1>2
  <2>3. CASE n = 2
    <3>1. labels[1] \in {"a", "b"} /\ labels[2] \in {"a", "b"}
      BY <2>1, <2>3 DEF Sources
    <3> QED BY <2>1, <2>3, <3>1, <1>3, <1>4
  <2> QED BY <2>1, <2>2, <2>3
<1> QED BY <1>1, <1>5

(* What was paid for is reported: no fusion of the run ends at the schema  *)
(* of its report, and the second call is made for grounded verdicts only.  *)
THEOREM PaidFusionIsReportedCorrect == Spec => []PaidFusionIsReported
<1>1. DecisionInv => PaidFusionIsReported
  <2> SUFFICES ASSUME DecisionInv, kind = "fusion", result # Pending
               PROVE  /\ result.ended # "report"
                      /\ Len(result.calls) = 2 =>
                           F!Mentioned(input.verdict) \cup {input.judge}
                             \subseteq Range(input.labels) \cup {"j"}
    BY DEF PaidFusionIsReported
  <2>1. /\ input \in FusionInputs
        /\ result = F!Run(input.labels, input.verdict, input.judge, input.final)
    BY DEF DecisionInv, FusionInv
  <2>2. /\ input.judge \in {"a", "j"}
        /\ input.labels \in (UNION {[1..n -> Sources] : n \in 1..2}) \cup {<<"a", "b", "c">>}
    BY <2>1 DEF FusionInputs
  <2>3. CASE Len(result.calls) = 2
    BY <2>1, <2>2, <2>3, FusionIsReported, LabelsHaveA
  <2> QED BY <2>1, <2>3, FusionIsReported
<1> QED BY <1>1, DecisionInvariant, PTL

-----------------------------------------------------------------------------
(* Adapters                                                                *)

(* What is made of an answer is an output or one of two errors, neither of *)
(* which is a reason to ask another provider.                              *)
MadeOfAnswer(v) ==
  v \in {O!Error("provider_malformed"), O!Error("other")} \/ v[1] = "output"

LEMMA AnswersStand ==
  ASSUME NEW d, NEW v, MadeOfAnswer(v)
  PROVE  ~ O!FallbackAllowed(O!Validated(v, d), "provider")
<1> USE DEF O!Error, O!IsError, O!Validated, O!FallbackAllowed, O!FallbackReason, O!SafeReasons,
            O!ReasonOf
<1>1. CASE v[1] = "output"
  BY <1>1
<1>2. CASE v = O!Error("provider_malformed")
  BY <1>2
<1>3. CASE v = O!Error("other")
  BY <1>3
<1> QED BY <1>1, <1>2, <1>3 DEF MadeOfAnswer

LEMMA ProcessAnswers ==
  ASSUME NEW p, NEW d, p.ended = "exited", ~ O!Refusal(O!Read(p), d)
  PROVE  MadeOfAnswer(O!ProcessOutcome(p, d))
<1> USE DEF MadeOfAnswer, O!Error, O!Output
<1>1. MadeOfAnswer(O!ParsePlainText(O!Read(p), d))
  BY DEF O!ParsePlainText
<1>2. MadeOfAnswer(O!ParseCodex(O!Read(p), d))
  BY <1>1 DEF O!ParseCodex
<1>3. MadeOfAnswer(O!ParseCline(O!Read(p), d))
  BY <1>1 DEF O!ParseCline
<1>4. ~ O!IsError(O!RunProcess(p))
  BY DEF O!RunProcess, O!IsError
<1> HIDE DEF MadeOfAnswer
<1> QED BY <1>1, <1>2, <1>3, <1>4 DEF O!ProcessOutcome

LEMMA ExchangeAnswers ==
  ASSUME NEW h, NEW d, h.ended = "responded", h.status = 200
  PROVE  MadeOfAnswer(O!HttpOutcome(h, d))
<1>1. ASSUME NEW body, NEW usage
      PROVE  MadeOfAnswer(O!ParseBody(body, d, usage))
  BY DEF MadeOfAnswer, O!Error, O!Output, O!ParseBody
<1>2. CASE h.body = None
  <2>1. O!FetchDirectHttpJson(h) = O!Error("provider_malformed")
    BY <1>2 DEF O!FetchDirectHttpJson
  <2> QED BY <2>1 DEF O!HttpOutcome, O!IsError, O!Error, MadeOfAnswer
<1>3. CASE h.body # None
  <2>1. O!FetchDirectHttpJson(h) = <<"json", h.body>>
    BY <1>3 DEF O!FetchDirectHttpJson
  <2> QED BY <1>1, <2>1 DEF O!HttpOutcome, O!IsError
<1> QED BY <1>2, <1>3

(* Another provider is asked only in place of one that has not answered,   *)
(* for processes with any output and any exchange (fallback-policy.ts).    *)
THEOREM FallbackOnlyUnansweredCorrect == Spec => []FallbackOnlyUnanswered
<1>1. DecisionInv => FallbackOnlyUnanswered
  <2> SUFFICES ASSUME DecisionInv, Attempted, Answered
               PROVE  ~ O!FallbackAllowed(result.validated, "provider")
    BY DEF FallbackOnlyUnanswered
  <2>1. result = IF ByProcess THEN ProcessAttempt ELSE HttpAttempt
    BY DEF DecisionInv, AttemptInv, Attempted
  <2>2. CASE ByProcess
    <3>1. result.validated = O!Validated(O!ProcessOutcome(input, input.adapter), input.adapter)
      BY <2>1, <2>2 DEF ProcessAttempt
    <3> QED BY <2>2, <3>1, ProcessAnswers, AnswersStand DEF Answered
  <2>3. CASE ~ ByProcess
    <3>1. result.validated = O!Validated(O!HttpOutcome(input, input.adapter), input.adapter)
      BY <2>1, <2>3 DEF HttpAttempt
    <3> QED BY <2>3, <3>1, ExchangeAnswers, AnswersStand DEF Answered
  <2> QED BY <2>2, <2>3
<1> QED BY <1>1, DecisionInvariant, PTL

(* Descriptors of which only the zcode wrapper's report failures as        *)
(* answers: it is neither Codex nor Cline.                                 *)
OneDialect(d) == d.client \in {"CodexCLI", "Cline"} => d.transport # "zcodeWrapper"

(* How an attempt of a process ends.                                       *)
Ends == {"no command", "timed out", "aborted", "failed", "exited"}

LEMMA CountedProcesses ==
  ASSUME NEW p, NEW d, OneDialect(d), p.ended \in Ends,
         ~ O!IsError(O!Validated(O!ProcessOutcome(p, d), d))
  PROVE  /\ p.ended = "exited" /\ ~ O!Refusal(O!Read(p), d)
         /\ O!Validated(O!ProcessOutcome(p, d), d) = O!ProcessOutcome(p, d)
         /\ O!ProcessOutcome(p, d)[3] = d.model
<1> DEFINE v == O!ProcessOutcome(p, d)
<1>1. ~ O!IsError(v) /\ v[3] = d.model /\ O!Validated(v, d) = v
  BY DEF O!Validated, O!IsError, O!Error
<1>2. ~ O!IsError(O!RunProcess(p))
  BY <1>1 DEF O!ProcessOutcome
<1>3. p.ended = "exited"
  BY <1>2 DEF O!RunProcess, O!IsError, O!Error, O!ClassifyProcessFailure, Ends
<1>4. ASSUME O!Refusal(O!Read(p), d) PROVE FALSE
  <2>1. d.transport = "zcodeWrapper"
    BY <1>4 DEF O!Refusal
  <2>2. v = O!ParsePlainText(O!Read(p), d)
    BY <1>2, <2>1 DEF OneDialect, O!ProcessOutcome
  <2>3. O!IsError(v)
    BY <2>2, <1>4 DEF O!ParsePlainText, O!ClassifyProcessFailure, O!IsError, O!Error
  <2> QED BY <1>1, <2>3
<1> QED BY <1>1, <1>3, <1>4

(* Of a log with agent messages that its redaction left readable, what     *)
(* Codex is taken to have answered is the first of them and nothing else   *)
(* (parseCodexJsonlOutput).                                                *)
LEMMA FirstAgentMessage ==
  ASSUME NEW raw, NEW p, p = O!Read(raw), NEW d, d.client = "CodexCLI", raw.ended = "exited",
         p.stdout \in Seq(Range(p.stdout)),
         \E l \in Range(p.stdout) : l.kind = "agent",
         ~ O!IsError(O!ProcessOutcome(raw, d))
  PROVE  \E l \in Range(p.stdout) :
            l.kind = "agent" /\ O!ProcessOutcome(raw, d)[2] = <<l>>
<1> DEFINE I == {i \in 1..Len(p.stdout) : p.stdout[i].kind = "agent"}
           i == Min(I)
<1>1. O!ProcessOutcome(raw, d) = O!ParseCodex(p, d)
  BY DEF O!ProcessOutcome, O!RunProcess, O!IsError
<1>2. I # {} /\ I \subseteq Nat
  BY DEF Range
<1>3. i \in I
  BY <1>2, LeastOf
<1>4. O!SelectInSeq(p.stdout, LAMBDA line : line.kind = "agent") = i
  BY <1>2 DEF O!SelectInSeq, O!Min, Min
<1>5. i # 0
  BY <1>3
<1> HIDE DEF I, i
<1>6. CASE p.stdout[i].text = "blank"
  <2>1. O!ParseCodex(p, d) = O!Error("other")
    BY <1>4, <1>5, <1>6 DEF O!ParseCodex
  <2> QED BY <1>1, <2>1 DEF O!IsError, O!Error
<1>7. CASE p.stdout[i].text # "blank"
  <2>1. O!ParseCodex(p, d) = O!Output(<<p.stdout[i]>>, d.model)
    BY <1>4, <1>5, <1>7 DEF O!ParseCodex
  <2>2. p.stdout[i] \in Range(p.stdout) /\ p.stdout[i].kind = "agent"
    BY <1>3 DEF I, Range
  <2> QED BY <1>1, <2>1, <2>2 DEF O!Output
<1> QED BY <1>6, <1>7

(* Counts that a provider reports, of which some may be missing; the       *)
(* adapters add the uncached ones (parseOpenAIChatContent, ...).           *)
Counts(u) == "uncached" \notin DOMAIN u /\ u \in [DOMAIN u -> Int]

LEMMA UsageStands ==
  ASSUME NEW body, Counts(body.usage)
  PROVE  /\ O!UsageOK(O!OpenAIUsage(body)) <=> O!UsageOK(body.usage)
         /\ O!UsageOK(O!AnthropicUsage(body)) <=> O!UsageOK(body.usage)
<1> DEFINE u == body.usage
<1>1. ASSUME NEW n \in Int, NEW w, w = O!WithUncached(u, n)
      PROVE  O!UsageOK(w) <=> n >= 0 /\ O!UsageOK(u)
  <2>1. DOMAIN w = {"uncached"} \cup DOMAIN u /\ w["uncached"] = n
    BY <1>1 DEF O!WithUncached
  <2>2. \A f \in DOMAIN u : w[f] = u[f]
    BY <1>1 DEF O!WithUncached, Counts
  <2> QED BY <2>1, <2>2 DEF O!UsageOK
<1>2. O!UsageOK(O!OpenAIUsage(body)) <=> O!UsageOK(u)
  <2>1. CASE {"input", "cached"} \subseteq DOMAIN u
    <3> DEFINE n == Max({0, u.input - u.cached})
    <3>1. u.input - u.cached \in Int
      BY <2>1 DEF Counts
    <3>2. n \in Int /\ n >= 0
      BY <3>1 DEF Max
    <3>3. O!OpenAIUsage(body) = O!WithUncached(u, n)
      BY <2>1 DEF O!OpenAIUsage, O!Max, Max
    <3> QED BY <1>1, <3>2, <3>3
  <2>2. CASE ~ ({"input", "cached"} \subseteq DOMAIN u)
    BY <2>2 DEF O!OpenAIUsage
  <2> QED BY <2>1, <2>2
<1>3. O!UsageOK(O!AnthropicUsage(body)) <=> O!UsageOK(u)
  <2>1. CASE "input" \in DOMAIN u
    <3>1. u.input \in Int /\ (O!UsageOK(u) => u.input >= 0)
      BY <2>1 DEF Counts, O!UsageOK
    <3>2. O!AnthropicUsage(body) = O!WithUncached(u, u.input)
      BY <2>1 DEF O!AnthropicUsage
    <3> QED BY <1>1, <3>1, <3>2
  <2>2. CASE "input" \notin DOMAIN u
    BY <2>2 DEF O!AnthropicUsage
  <2> QED BY <2>1, <2>2
<1> QED BY <1>2, <1>3

(* An exchange is counted just if it delivers a text with sensible counts  *)
(* under the configured model, or without naming one.                      *)
LEMMA CountedExchanges ==
  ASSUME NEW h, NEW d, h.status \notin 200..299 \/ h.status = 200,
         h.ended \in {"responded", "timed out", "aborted", "network"},
         h.ended = "responded" /\ h.body # None => Counts(h.body.usage)
  PROVE  ~ O!IsError(O!Validated(O!HttpOutcome(h, d), d)) <=>
           /\ h.ended = "responded" /\ h.status = 200 /\ h.body # None
           /\ h.body.content \notin {"missing", "blank"} /\ O!UsageOK(h.body.usage)
           /\ h.body.model \in {None, d.model}
<1> DEFINE v == O!HttpOutcome(h, d)
<1>1. ~ O!IsError(O!Validated(v, d)) <=> ~ O!IsError(v) /\ v[3] = d.model
  BY DEF O!Validated, O!IsError, O!Error
<1>2. CASE h.ended # "responded" \/ h.status # 200 \/ h.body = None
  <2>1. O!IsError(O!FetchDirectHttpJson(h))
    BY <1>2 DEF O!FetchDirectHttpJson, O!ClassifyDirectHttpFailure, O!ClassifyProcessFailure,
                O!IsError, O!Error
  <2>2. O!IsError(v)
    BY <2>1 DEF O!HttpOutcome
  <2> QED BY <1>1, <1>2, <2>2
<1>3. CASE h.ended = "responded" /\ h.status = 200 /\ h.body # None
  <2> DEFINE body  == h.body
             usage == IF d.provider = "OpenAI" THEN O!OpenAIUsage(body) ELSE O!AnthropicUsage(body)
  <2>1. O!FetchDirectHttpJson(h) = <<"json", body>> /\ ~ O!IsError(<<"json", body>>)
    BY <1>3 DEF O!FetchDirectHttpJson, O!IsError
  <2>2. v = O!ParseBody(body, d, usage)
    BY <2>1, Zenon DEF O!HttpOutcome
  <2>3. O!UsageOK(usage) <=> O!UsageOK(body.usage)
    BY <1>3, UsageStands
  <2> HIDE DEF v, usage
  <2>4. CASE body.content \in {"missing", "blank"} \/ ~ O!UsageOK(usage)
    <3>1. O!IsError(v)
      BY <2>2, <2>4 DEF O!ParseBody, O!IsError, O!Error
    <3> QED BY <1>1, <2>3, <2>4, <3>1 DEF v
  <2>5. CASE body.content \notin {"missing", "blank"} /\ O!UsageOK(usage)
    <3>1. /\ ~ O!IsError(v)
          /\ v[3] = IF body.model = None THEN d.model ELSE body.model
      BY <2>2, <2>5 DEF O!ParseBody, O!IsError, O!Output
    <3> QED BY <1>1, <1>3, <2>3, <2>5, <3>1 DEF v
  <2> QED BY <2>4, <2>5
<1> QED BY <1>2, <1>3

LEMMA AttemptInputs ==
  ASSUME input \in Processes \cup Exchanges
  PROVE  /\ ByProcess => input \in Processes
         /\ ~ ByProcess => input \in Exchanges
<1>1. \A p \in Processes : "stdout" \in DOMAIN p
  BY DEF Processes
<1>2. ASSUME NEW h \in Exchanges PROVE "stdout" \notin DOMAIN h
  <2>1. CASE h \in Responses
    BY <2>1 DEF Responses
  <2>2. CASE h \in Failures
    BY <2>2 DEF Failures
  <2> QED BY <2>1, <2>2, Zenon DEF Exchanges
<1> QED BY <1>1, <1>2 DEF ByProcess

LEMMA RunProcesses ==
  ASSUME NEW p \in Processes
  PROVE  /\ OneDialect(p.adapter) /\ p.ended \in Ends
         /\ O!Read(p).stdout \in Seq(Range(O!Read(p).stdout))
<1>1. p.adapter \in {S!CodexCli, S!ClineCli, S!ZcodeGlm, S!ClaudeCode} /\ p.ended \in Ends
  BY DEF Processes, Ends
<1>2. OneDialect(p.adapter)
  BY <1>1 DEF OneDialect, S!CodexCli, S!ClineCli, S!ZcodeGlm, S!ClaudeCode, S!Descriptor
<1>3. PICK n \in 0..2 : p.stdout \in [1..n -> Lines]
  BY DEF Processes
<1> DEFINE read == O!Read(p).stdout
<1>4. read = [i \in 1..n |-> O!Sanitized(p.stdout[i])]
  <2>1. p \in Processes /\ "stdout" \in DOMAIN p /\ DOMAIN p.stdout = 1..n
    BY <1>3 DEF Processes
  <2> QED BY <2>1 DEF O!Read
<1>5. n \in Nat /\ read \in [1..n -> Range(read)]
  BY <1>3, <1>4 DEF Range
<1> HIDE DEF read
<1>6. read \in Seq(Range(read))
  BY <1>5, ListOf
<1> QED BY <1>1, <1>2, <1>6 DEF read

LEMMA RunExchanges ==
  ASSUME NEW h \in Exchanges
  PROVE  /\ h.status \notin 200..299 \/ h.status = 200
         /\ h.ended \in {"responded", "timed out", "aborted", "network"}
         /\ h.ended = "responded" /\ h.body # None =>
              Counts(h.body.usage) /\ h.body.content \in {"missing", "blank", "a"}
<1>1. h \in Responses \/ h \in Failures
  BY DEF Exchanges
<1>2. ASSUME NEW u \in Usages PROVE Counts(u)
  <2>1. CASE u = <<>>
    BY <2>1 DEF Counts
  <2>2. CASE u \in [{"input"} -> {-1, 2}]
    BY <2>2 DEF Counts
  <2>3. CASE u \in [{"input", "cached"} -> {-1, 2, 3}]
    BY <2>3 DEF Counts
  <2> QED BY <2>1, <2>2, <2>3 DEF Usages
<1>3. ASSUME NEW body \in Bodies
      PROVE  body.usage \in Usages /\ body.content \in {"missing", "blank", "a"}
  BY DEF Bodies
<1>4. CASE h \in Responses
  <2>1. h.ended = "responded" /\ h.status \in {200, 401, 404, 429, 503}
    BY <1>4 DEF Responses
  <2>2. h.body \in {None} \cup Bodies
    BY <1>4 DEF Responses
  <2>3. h.status \notin 200..299 \/ h.status = 200
    BY <2>1
  <2>4. h.body # None => Counts(h.body.usage) /\ h.body.content \in {"missing", "blank", "a"}
    BY <2>2, <1>2, <1>3
  <2> QED BY <2>1, <2>3, <2>4
<1>5. CASE h \in Failures
  <2>1. h.ended \in {"timed out", "aborted", "network"}
    BY <1>5 DEF Failures
  <2>2. h.status = 0
    BY <1>5 DEF Failures
  <2>3. h.status \notin 200..299
    BY <2>2
  <2> QED BY <2>1, <2>3
<1> QED BY <1>1, <1>4, <1>5

(* What a quorum counts is an answer, of the adapter's own model, and of a *)
(* log nothing but a readable agent message; a usable HTTP answer is       *)
(* counted unless it names another model (validateAdapterOutputIdentity).  *)
THEOREM QuorumCountsOwnAnswersCorrect == Spec => []QuorumCountsOwnAnswers
<1>1. DecisionInv => QuorumCountsOwnAnswers
  <2> DEFINE v       == result.validated
             counted == ~ O!IsError(v)
             usable  == Answered /\ input.body # None
                          /\ input.body.content = "a"
                          /\ \A f \in DOMAIN input.body.usage : input.body.usage[f] >= 0
             agents  == {l \in Range(O!Read(input).stdout) : l.kind = "agent"}
  <2> SUFFICES ASSUME DecisionInv, Attempted
               PROVE  /\ counted => Answered /\ v[3] = input.adapter.model
                      /\ ~ ByProcess =>
                           (counted <=> usable /\ input.body.model \in {None, input.adapter.model})
                      /\ ByProcess /\ counted /\ input.adapter = S!CodexCli =>
                           (agents # {} => Range(v[2]) \subseteq agents)
    BY DEF QuorumCountsOwnAnswers
  <2>1. /\ result = IF ByProcess THEN ProcessAttempt ELSE HttpAttempt
        /\ input \in Processes \cup Exchanges
    BY DEF DecisionInv, AttemptInv, Attempted
  <2>2. CASE ByProcess
    <3>1. input \in Processes
      BY <2>1, <2>2, AttemptInputs
    <3>2. v = O!Validated(O!ProcessOutcome(input, input.adapter), input.adapter)
      BY <2>1, <2>2 DEF ProcessAttempt
    <3> HIDE DEF v
    <3>3. counted => /\ input.ended = "exited" /\ ~ O!Refusal(O!Read(input), input.adapter)
                     /\ v = O!ProcessOutcome(input, input.adapter)
                     /\ v[3] = input.adapter.model
      BY <3>1, <3>2, RunProcesses, CountedProcesses
    <3>4. ASSUME counted, input.adapter = S!CodexCli, agents # {}
          PROVE  Range(v[2]) \subseteq agents
      <4>1. input.adapter.client = "CodexCLI"
        BY <3>4 DEF S!CodexCli, S!Descriptor
      <4>2. PICK l \in agents : v[2] = <<l>>
        BY <3>1, <3>3, <3>4, <4>1, RunProcesses, FirstAgentMessage
      <4>3. Range(<<l>>) = {l}
        BY DEF Range
      <4> QED BY <4>2, <4>3
    <3> QED BY <2>2, <3>3, <3>4 DEF Answered
  <2>3. CASE ~ ByProcess
    <3>1. input \in Exchanges
      BY <2>1, <2>3, AttemptInputs
    <3>2. v = O!Validated(O!HttpOutcome(input, input.adapter), input.adapter)
      BY <2>1, <2>3 DEF HttpAttempt
    <3>3. counted <=>
            /\ input.ended = "responded" /\ input.status = 200 /\ input.body # None
            /\ input.body.content \notin {"missing", "blank"} /\ O!UsageOK(input.body.usage)
            /\ input.body.model \in {None, input.adapter.model}
      <4>1. /\ input.status \notin 200..299 \/ input.status = 200
            /\ input.ended \in {"responded", "timed out", "aborted", "network"}
            /\ input.ended = "responded" /\ input.body # None => Counts(input.body.usage)
        BY <3>1, RunExchanges
      <4> DEFINE w == O!Validated(O!HttpOutcome(input, input.adapter), input.adapter)
      <4>2. ~ O!IsError(w) <=>
              /\ input.ended = "responded" /\ input.status = 200 /\ input.body # None
              /\ input.body.content \notin {"missing", "blank"} /\ O!UsageOK(input.body.usage)
              /\ input.body.model \in {None, input.adapter.model}
        BY <4>1, CountedExchanges
      <4> QED BY <3>2, <4>2, Zenon
    <3>4. counted <=> usable /\ input.body.model \in {None, input.adapter.model}
      BY <2>3, <3>1, <3>3, RunExchanges DEF Answered, O!UsageOK
    <3>5. counted => v[3] = input.adapter.model
      BY <3>2 DEF O!Validated, O!IsError, O!Error
    <3> QED BY <2>3, <3>4, <3>5
  <2> QED BY <2>2, <2>3
<1> QED BY <1>1, DecisionInvariant, PTL

-----------------------------------------------------------------------------
(* Calibration: selections                                                 *)

Order(q) == FallbackOrder(RequestedScope(q))

(* Where the first sufficient of a list of groups is, 0 if nowhere.        *)
FirstOf(found) ==
  IF \E i \in DOMAIN found : Sufficient(found[i])
  THEN Min({i \in DOMAIN found : Sufficient(found[i])}) ELSE 0

LEMMA FirstSufficient == \A found : FirstThat(found, Sufficient) = FirstOf(found)
BY DEF FirstThat, FirstOf

(* The selection that the groups found for a question amount to.           *)
SelectionOf(q, found) ==
  [query      |-> q,
   requested  |-> RequestedScope(q),
   selected   |-> IF FirstOf(found) = 0 THEN None ELSE Order(q)[FirstOf(found)],
   candidates |-> [i \in DOMAIN Order(q) |-> Candidate(Order(q)[i], found[i])],
   group      |-> IF FirstOf(found) = 0 THEN <<>> ELSE found[FirstOf(found)]]

LEMMA ResolveIs == \A r, q : Resolve(r, q) = SelectionOf(q, GroupsFor(r, q))
BY FirstSufficient DEF Resolve, SelectionOf, Order

(* A selection made from one report and replayed with another is accepted  *)
(* only if that other report, asked the same, selects exactly the same:    *)
(* whatever the reports and the question (the decision schema of           *)
(* calibration.ts).                                                        *)
THEOREM ReplayedSelectionsAgree ==
  ASSUME NEW earlier, NEW r, NEW q, DecisionOK(r, Resolve(earlier, q))
  PROVE  Resolve(earlier, q) = Resolve(r, q)
<1> DEFINE s     == Resolve(earlier, q)
           order == Order(q)
           was   == GroupsFor(earlier, q)
           is    == GroupsFor(r, q)
<1>1. /\ was = [i \in DOMAIN order |-> GroupFor(earlier, q, order[i])]
      /\ is = [i \in DOMAIN order |-> GroupFor(r, q, order[i])]
  BY DEF GroupsFor, Order
<1>2. s = SelectionOf(q, was)
  BY ResolveIs
<1> HIDE DEF s, was, is, order
<1>3. /\ s.candidates = [i \in DOMAIN order |-> Candidate(order[i], was[i])]
      /\ s.query = q
      /\ s.group = IF FirstOf(was) = 0 THEN <<>> ELSE was[FirstOf(was)]
  BY <1>2 DEF SelectionOf, order
<1>4. DOMAIN s.candidates = DOMAIN order /\ \A i \in DOMAIN order : s.candidates[i].scope = order[i]
  BY <1>3 DEF Candidate
<1>5. [i \in DOMAIN s.candidates |-> GroupFor(r, s.query, s.candidates[i].scope)] = is
  BY <1>1, <1>3, <1>4
<1>6. /\ \A i \in DOMAIN order : s.candidates[i] = Candidate(order[i], is[i])
      /\ s.group = IF FirstOf(is) = 0 THEN <<>> ELSE is[FirstOf(is)]
  BY <1>4, <1>5, FirstSufficient DEF DecisionOK, s
<1>7. \A i \in DOMAIN order : Candidate(order[i], was[i]) = Candidate(order[i], is[i])
  BY <1>3, <1>6
<1>8. ASSUME NEW i \in DOMAIN order PROVE Sufficient(was[i]) <=> Sufficient(is[i])
  <2>1. ASSUME NEW found, found = <<>> \/ \E g : found = <<g>>
        PROVE  Sufficient(found) <=> Candidate(order[i], found).status = "sufficient"
    BY <2>1 DEF Sufficient, Candidate
  <2>2. /\ was[i] = <<>> \/ \E g : was[i] = <<g>>
        /\ is[i] = <<>> \/ \E g : is[i] = <<g>>
    BY <1>1 DEF GroupFor
  <2> QED BY <1>7, <2>1, <2>2
<1>9. FirstOf(was) = FirstOf(is)
  <2>1. DOMAIN was = DOMAIN order /\ DOMAIN is = DOMAIN order
    BY <1>1
  <2>2. {i \in DOMAIN was : Sufficient(was[i])} = {i \in DOMAIN is : Sufficient(is[i])}
    BY <1>8, <2>1
  <2>3. (\E i \in DOMAIN was : Sufficient(was[i])) <=> (\E i \in DOMAIN is : Sufficient(is[i]))
    BY <1>8, <2>1
  <2> QED BY <2>2, <2>3 DEF FirstOf
<1>10. /\ [i \in DOMAIN order |-> Candidate(order[i], was[i])]
            = [i \in DOMAIN order |-> Candidate(order[i], is[i])]
       /\ (IF FirstOf(was) = 0 THEN <<>> ELSE was[FirstOf(was)])
            = (IF FirstOf(is) = 0 THEN <<>> ELSE is[FirstOf(is)])
  BY <1>3, <1>6, <1>7
<1>11. SelectionOf(q, was) = SelectionOf(q, is)
  BY <1>9, <1>10, Zenon DEF SelectionOf, order
<1> QED BY <1>2, <1>11, ResolveIs DEF s, is

(* In the run: a selection of an earlier report is taken with a later one  *)
(* only if nothing that it rests on has changed.                           *)
THEOREM StaleSelectionsAreRefusedCorrect == Spec => []StaleSelectionsAreRefused
<1>1. DecisionInv => StaleSelectionsAreRefused
  BY ReplayedSelectionsAgree DEF DecisionInv, CalibrationInv, Calibrated,
     StaleSelectionsAreRefused
<1> QED BY <1>1, DecisionInvariant, PTL

-----------------------------------------------------------------------------
(* Folds over finite sets: sums, and the listing of a set                  *)

Some(s) == CHOOSE x \in s : TRUE

LEMMA SomeRemoved ==
  ASSUME NEW s, IsFiniteSet(s), s # {}
  PROVE  /\ Some(s) \in s /\ IsFiniteSet(s \ {Some(s)})
         /\ Cardinality(s) \in Nat \ {0} /\ Cardinality(s \ {Some(s)}) = Cardinality(s) - 1
<1>1. Some(s) \in s
  BY DEF Some
<1>2. Cardinality(s) \in Nat /\ Cardinality(s) # 0
  BY FS_CardinalityType, FS_EmptySet
<1> QED BY <1>1, <1>2, FS_RemoveElement

(* What holds of the empty set, and of a subset with one element more, is  *)
(* true of the whole set.                                                  *)
LEMMA OneByOne ==
  ASSUME NEW U, IsFiniteSet(U), NEW T, {} \in T,
         \A s \in SUBSET U : \A x \in U \ s : s \in T => s \cup {x} \in T
  PROVE  U \in T
<1> DEFINE N == {n \in Nat : \A s \in SUBSET U : Cardinality(s) = n => s \in T}
<1>1. \A s \in SUBSET U : IsFiniteSet(s) /\ Cardinality(s) \in Nat
  BY FS_Subset, FS_CardinalityType
<1>2. 0 \in N
  <2>1. \A s \in SUBSET U : Cardinality(s) = 0 => s = {}
    BY <1>1, FS_EmptySet
  <2> QED BY <2>1
<1>3. ASSUME NEW n \in Nat, n \in N PROVE n + 1 \in N
  <2> SUFFICES ASSUME NEW s \in SUBSET U, Cardinality(s) = n + 1 PROVE s \in T
    OBVIOUS
  <2>1. s # {}
    BY FS_EmptySet
  <2> DEFINE x == Some(s)
             t == s \ {x}
  <2>2. x \in s /\ Cardinality(t) = Cardinality(s) - 1
    BY <1>1, <2>1, SomeRemoved
  <2>3. t \in SUBSET U /\ x \in U \ t /\ t \cup {x} = s
    BY <2>2
  <2> HIDE DEF t, x
  <2>4. Cardinality(t) = n
    BY <2>2
  <2>5. t \in T
    BY <1>3, <2>3, <2>4
  <2> QED BY <2>3, <2>5
<1>4. Nat \subseteq N
  <2> HIDE DEF N
  <2> QED BY <1>2, <1>3, SetInduction
<1> QED BY <1>1, <1>4

(* The recursion by which a set is folded, as a fact of one function.      *)
Gathers(g, U, base, next) ==
  \A s \in SUBSET U : g[s] = IF s = {} THEN base ELSE next[<<Some(s), g[s \ {Some(s)}]>>]

Gathering(U, V)            == [U \X V -> V]
Gathered(U, V, base, next) == \E g \in [SUBSET U -> V] : Gathers(g, U, base, next)

LEMMA GatherExists ==
  ASSUME NEW U, IsFiniteSet(U), NEW V, NEW base \in V, NEW next \in Gathering(U, V)
  PROVE  Gathered(U, V, base, next)
<1> DEFINE Stepped(g, s) == g[s] = IF s = {} THEN base ELSE next[<<Some(s), g[s \ {Some(s)}]>>]
           Upto(n) == \E g \in [SUBSET U -> V] :
                        \A s \in SUBSET U : Cardinality(s) <= n => Stepped(g, s)
           N == {n \in Nat : Upto(n)}
<1>1. \A s \in SUBSET U : IsFiniteSet(s) /\ Cardinality(s) \in Nat
                          /\ Cardinality(s) <= Cardinality(U)
  BY FS_Subset, FS_CardinalityType
<1>2. 0 \in N
  <2> DEFINE g == [s \in SUBSET U |-> base]
  <2>1. \A s \in SUBSET U : Cardinality(s) <= 0 => s = {}
    BY <1>1, FS_EmptySet
  <2>2. \A s \in SUBSET U : Cardinality(s) <= 0 => Stepped(g, s)
    BY <2>1
  <2>3. g \in [SUBSET U -> V]
    OBVIOUS
  <2> HIDE DEF Stepped, g
  <2> QED BY <2>2, <2>3
<1>3. ASSUME NEW n \in Nat, n \in N PROVE n + 1 \in N
  <2>1. PICK g \in [SUBSET U -> V] : \A s \in SUBSET U : Cardinality(s) <= n => Stepped(g, s)
    <3> HIDE DEF Stepped
    <3> QED BY <1>3
  <2> DEFINE h == [s \in SUBSET U |-> IF Cardinality(s) = n + 1
                                      THEN next[<<Some(s), g[s \ {Some(s)}]>>] ELSE g[s]]
  <2>2. ASSUME NEW s \in SUBSET U, s # {}
        PROVE  /\ s \ {Some(s)} \in SUBSET U /\ next[<<Some(s), g[s \ {Some(s)}]>>] \in V
               /\ Cardinality(s \ {Some(s)}) = Cardinality(s) - 1
               /\ Cardinality(s) \in Nat
    <3>1. Some(s) \in U /\ g[s \ {Some(s)}] \in V
      BY <1>1, <2>2, SomeRemoved
    <3>2. next[<<Some(s), g[s \ {Some(s)}]>>] \in V
      BY <3>1 DEF Gathering
    <3> QED BY <1>1, <2>2, <3>2, SomeRemoved
  <2>3. ASSUME NEW s \in SUBSET U, Cardinality(s) = n + 1 PROVE s # {}
    <3>1. s = {} => Cardinality(s) = 0
      BY FS_EmptySet, Zenon
    <3> QED BY <2>3, <3>1
  <2>4. h \in [SUBSET U -> V]
    <3>1. \A s \in SUBSET U : (IF Cardinality(s) = n + 1
                                THEN next[<<Some(s), g[s \ {Some(s)}]>>] ELSE g[s]) \in V
      BY <2>2, <2>3
    <3> QED BY <3>1
  <2>5. ASSUME NEW s \in SUBSET U, Cardinality(s) <= n + 1 PROVE Stepped(h, s)
    <3>1. CASE s = {}
      <4>0. Cardinality(s) = 0
        BY <3>1, FS_EmptySet
      <4>1. Cardinality(s) = 0 /\ Stepped(g, s)
        <5> HIDE DEF Stepped
        <5> QED BY <2>1, <4>0
      <4>2. h[s] = g[s]
        BY <4>1
      <4> QED BY <3>1, <4>1, <4>2
    <3>2. CASE s # {}
      <4>1. /\ s \ {Some(s)} \in SUBSET U /\ Cardinality(s) \in Nat
            /\ Cardinality(s \ {Some(s)}) # n + 1
        <5>1. /\ s \ {Some(s)} \in SUBSET U /\ Cardinality(s) \in Nat
              /\ Cardinality(s \ {Some(s)}) = Cardinality(s) - 1
          BY <2>2, <3>2
        <5> HIDE DEF Some
        <5> QED BY <2>5, <5>1
      <4>2. h[s \ {Some(s)}] = g[s \ {Some(s)}]
        BY <4>1
      <4>3. h[s] = next[<<Some(s), g[s \ {Some(s)}]>>]
        <5>1. CASE Cardinality(s) = n + 1
          BY <5>1
        <5>2. CASE Cardinality(s) # n + 1
          <6>1. Stepped(g, s) /\ h[s] = g[s]
            BY <2>1, <2>5, <4>1, <5>2
          <6> QED BY <3>2, <6>1
        <5> QED BY <5>1, <5>2
      <4> HIDE DEF h
      <4> QED BY <3>2, <4>2, <4>3
    <3> QED BY <3>1, <3>2
  <2> HIDE DEF h, Stepped
  <2>6. Upto(n + 1)
    BY <2>4, <2>5
  <2> QED BY <2>6
<1>4. Nat \subseteq N
  <2> HIDE DEF N
  <2> QED BY <1>2, <1>3, SetInduction
<1>5. Upto(Cardinality(U))
  <2>1. Cardinality(U) \in Nat
    BY FS_CardinalityType
  <2> HIDE DEF Upto
  <2> QED BY <1>4, <2>1
<1> QED BY <1>1, <1>5 DEF Gathered, Gathers

(* The sum of what each element of a set weighs.                           *)
Sums(g, weight, U) ==
  \A s \in SUBSET U : g[s] = IF s = {} THEN 0 ELSE weight[Some(s)] + g[s \ {Some(s)}]

TotalOf(weight, U) ==
  (CHOOSE g : g = [s \in SUBSET U |-> IF s = {} THEN 0
                                      ELSE weight[Some(s)] + g[s \ {Some(s)}]])[U]

Weighs(weight, U) == \A x \in U : weight[x] \in Nat

TotalFrom(g, weight, U, total) ==
  g \in [SUBSET U -> Nat] /\ Sums(g, weight, U) /\ total = g[U]

LEMMA SumsUnique ==
  ASSUME NEW U, IsFiniteSet(U), NEW weight, NEW g, NEW h, NEW W, U \subseteq W,
         Sums(g, weight, U), Sums(h, weight, W)
  PROVE  g[U] = h[U]
<1> DEFINE N == {n \in Nat : \A s \in SUBSET U : Cardinality(s) = n => g[s] = h[s]}
<1>1. \A s \in SUBSET U : IsFiniteSet(s) /\ Cardinality(s) \in Nat
  BY FS_Subset, FS_CardinalityType
<1>2. 0 \in N
  <2>1. \A s \in SUBSET U : Cardinality(s) = 0 => s = {}
    BY <1>1, FS_EmptySet
  <2> QED BY <2>1 DEF Sums
<1>3. ASSUME NEW n \in Nat, n \in N PROVE n + 1 \in N
  <2> SUFFICES ASSUME NEW s \in SUBSET U, Cardinality(s) = n + 1 PROVE g[s] = h[s]
    OBVIOUS
  <2>1. s # {}
    BY FS_EmptySet
  <2>2. s \ {Some(s)} \in SUBSET U /\ Cardinality(s \ {Some(s)}) = n
    <3>1. Cardinality(s \ {Some(s)}) = Cardinality(s) - 1
      BY <1>1, <2>1, SomeRemoved
    <3> QED BY <3>1
  <2>3. g[s \ {Some(s)}] = h[s \ {Some(s)}]
    BY <1>3, <2>2
  <2> QED BY <2>1, <2>3 DEF Sums
<1>4. Nat \subseteq N
  <2> HIDE DEF N
  <2> QED BY <1>2, <1>3, SetInduction
<1> QED BY <1>1, <1>4

LEMMA SumsExist ==
  ASSUME NEW U, IsFiniteSet(U), NEW weight, Weighs(weight, U)
  PROVE  \E g \in [SUBSET U -> Nat] : Sums(g, weight, U)
<1> DEFINE next == [p \in U \X Nat |-> weight[p[1]] + p[2]]
<1>1. next \in Gathering(U, Nat)
  BY DEF Gathering, Weighs
<1>2. Gathered(U, Nat, 0, next)
  <2> HIDE DEF next
  <2> QED BY <1>1, GatherExists
<1>3. PICK g \in [SUBSET U -> Nat] : Gathers(g, U, 0, next)
  BY <1>2 DEF Gathered
<1>4. ASSUME NEW s \in SUBSET U, s # {} PROVE g[s] = weight[Some(s)] + g[s \ {Some(s)}]
  <2>1. Some(s) \in U /\ g[s \ {Some(s)}] \in Nat
    BY <1>4 DEF Some
  <2>2. g[s] = next[<<Some(s), g[s \ {Some(s)}]>>]
    BY <1>3, <1>4 DEF Gathers
  <2>3. <<Some(s), g[s \ {Some(s)}]>> \in U \X Nat
    BY <2>1
  <2> QED BY <2>2, <2>3
<1>5. g[{}] = 0
  BY <1>3 DEF Gathers
<1>6. Sums(g, weight, U)
  BY <1>4, <1>5 DEF Sums
<1> QED BY <1>6

LEMMA TotalIs ==
  ASSUME NEW U, IsFiniteSet(U), NEW weight, Weighs(weight, U)
  PROVE  \E g : TotalFrom(g, weight, U, TotalOf(weight, U))
<1> DEFINE Solves(g) == g = [s \in SUBSET U |-> IF s = {} THEN 0
                                                ELSE weight[Some(s)] + g[s \ {Some(s)}]]
           h == CHOOSE g : Solves(g)
<1>1. PICK g \in [SUBSET U -> Nat] : Sums(g, weight, U)
  BY SumsExist
<1>2. Solves(g)
  BY <1>1 DEF Sums
<1>3. Solves(h)
  <2> HIDE DEF Solves
  <2> QED BY <1>2
<1>4. TotalOf(weight, U) = h[U]
  BY DEF TotalOf
<1> HIDE DEF h
<1>5. Sums(h, weight, U)
  BY <1>3 DEF Sums
<1> HIDE DEF Solves
<1>6. g[U] = h[U]
  BY <1>1, <1>5, SumsUnique
<1> QED BY <1>1, <1>4, <1>6 DEF TotalFrom

LEMMA TotalIsNat ==
  ASSUME NEW U, IsFiniteSet(U), NEW weight, Weighs(weight, U)
  PROVE  TotalOf(weight, U) \in Nat
<1>1. PICK g : TotalFrom(g, weight, U, TotalOf(weight, U))
  BY TotalIs
<1> QED BY <1>1 DEF TotalFrom

LEMMA TotalOfNone == \A weight : TotalOf(weight, {}) = 0
<1> SUFFICES ASSUME NEW weight PROVE TotalOf(weight, {}) = 0
  OBVIOUS
<1>1. PICK g : TotalFrom(g, weight, {}, TotalOf(weight, {}))
  BY TotalIs, FS_EmptySet DEF Weighs
<1> QED BY <1>1 DEF TotalFrom, Sums

LEMMA TotalOfSome ==
  ASSUME NEW U, IsFiniteSet(U), U # {}, NEW weight, Weighs(weight, U)
  PROVE  TotalOf(weight, U) = weight[Some(U)] + TotalOf(weight, U \ {Some(U)})
<1> DEFINE V == U \ {Some(U)}
<1>1. PICK g : TotalFrom(g, weight, U, TotalOf(weight, U))
  BY TotalIs
<1>2. IsFiniteSet(V) /\ V \subseteq U /\ Weighs(weight, V)
  BY FS_Subset DEF Weighs
<1>3. PICK h : TotalFrom(h, weight, V, TotalOf(weight, V))
  <2> HIDE DEF V
  <2> QED BY <1>2, TotalIs
<1>4. h[V] = g[V]
  <2>1. Sums(h, weight, V) /\ Sums(g, weight, U)
    BY <1>1, <1>3 DEF TotalFrom
  <2> HIDE DEF V
  <2> QED BY <1>2, <2>1, SumsUnique
<1>5. g[U] = weight[Some(U)] + g[V]
  BY <1>1 DEF TotalFrom, Sums
<1> QED BY <1>1, <1>3, <1>4, <1>5 DEF TotalFrom

(* One more element adds its weight, whichever the sum takes first.        *)
LEMMA TotalOfOneMore ==
  ASSUME NEW U, IsFiniteSet(U), NEW weight, Weighs(weight, U), NEW c, c \notin U, weight[c] \in Nat
  PROVE  TotalOf(weight, U \cup {c}) = TotalOf(weight, U) + weight[c]
<1> DEFINE W == U \cup {c}
           N == {n \in Nat : \A s \in SUBSET W : \A x \in W \ s :
                   Cardinality(s) = n =>
                     TotalOf(weight, s \cup {x}) = TotalOf(weight, s) + weight[x]}
<1>1. IsFiniteSet(W) /\ Weighs(weight, W)
  BY FS_AddElement DEF Weighs
<1> HIDE DEF W
<1>2. \A s \in SUBSET W : IsFiniteSet(s) /\ Cardinality(s) \in Nat /\ Weighs(weight, s)
                          /\ TotalOf(weight, s) \in Nat
  <2> TAKE s \in SUBSET W
  <2>1. IsFiniteSet(s) /\ Weighs(weight, s)
    BY <1>1, FS_Subset DEF Weighs
  <2> QED BY <2>1, FS_CardinalityType, TotalIsNat
<1>3. 0 \in N
  <2> SUFFICES ASSUME NEW x \in W
               PROVE  TotalOf(weight, {} \cup {x}) = TotalOf(weight, {}) + weight[x]
    <3>1. \A s \in SUBSET W : Cardinality(s) = 0 => s = {}
      BY <1>2, FS_EmptySet
    <3> QED BY <3>1
  <2>1. Some({x}) = x
    BY DEF Some
  <2>2. {x} \in SUBSET W /\ {x} # {} /\ {x} \ {x} = {} /\ {} \cup {x} = {x}
    OBVIOUS
  <2>3. TotalOf(weight, {x}) = weight[x] + TotalOf(weight, {})
    BY <1>2, <2>1, <2>2, TotalOfSome
  <2>4. weight[x] \in Nat
    BY <1>1 DEF Weighs
  <2>5. TotalOf(weight, {}) = 0
    BY TotalOfNone
  <2> QED BY <2>2, <2>3, <2>4, <2>5
<1>4. ASSUME NEW n \in Nat, n \in N PROVE n + 1 \in N
  <2> SUFFICES ASSUME NEW s \in SUBSET W, NEW x \in W \ s, Cardinality(s) = n + 1
               PROVE  TotalOf(weight, s \cup {x}) = TotalOf(weight, s) + weight[x]
    OBVIOUS
  <2> DEFINE t == s \cup {x}
             y == Some(t)
  <2>1. t \in SUBSET W /\ t # {} /\ y \in t
    BY DEF Some
  <2>2. TotalOf(weight, t) = weight[y] + TotalOf(weight, t \ {y})
    <3>1. IsFiniteSet(t) /\ Weighs(weight, t) /\ t # {}
      BY <1>2, <2>1
    <3> HIDE DEF t
    <3> QED BY <3>1, TotalOfSome
  <2>0. weight[x] \in Nat /\ weight[y] \in Nat
    BY <1>1, <2>1 DEF Weighs
  <2>3. CASE y = x
    <3>1. t \ {y} = s
      BY <2>3
    <3> HIDE DEF y, t
    <3>2. TotalOf(weight, t) = weight[x] + TotalOf(weight, s)
      BY <2>2, <2>3, <3>1, Zenon
    <3>3. TotalOf(weight, s) \in Nat
      BY <1>2
    <3>4. TotalOf(weight, t) = TotalOf(weight, s) + weight[x]
      BY <2>0, <3>2, <3>3
    <3> QED BY <3>4 DEF t
  <2>4. CASE y # x
    <3>1. y \in s /\ t \ {y} = (s \ {y}) \cup {x} /\ x \in W \ (s \ {y})
          /\ s \ {y} \in SUBSET W /\ y \in W \ (s \ {y}) /\ (s \ {y}) \cup {y} = s
      BY <2>1, <2>4
    <3> HIDE DEF y, t
    <3>2. Cardinality(s \ {y}) = n
      <4>1. Cardinality(s \ {y}) = Cardinality(s) - 1
        BY <1>2, <3>1, FS_RemoveElement
      <4> QED BY <4>1
    <3>3. TotalOf(weight, (s \ {y}) \cup {x}) = TotalOf(weight, s \ {y}) + weight[x]
      BY <1>4, <3>1, <3>2
    <3>4. TotalOf(weight, s) = TotalOf(weight, s \ {y}) + weight[y]
      BY <1>4, <3>1, <3>2, Zenon
    <3>5. TotalOf(weight, s \ {y}) \in Nat
      BY <1>2, <3>1
    <3>6. TotalOf(weight, t) = weight[y] + TotalOf(weight, (s \ {y}) \cup {x})
      BY <2>2, <3>1, Zenon
    <3>7. TotalOf(weight, t) = TotalOf(weight, s) + weight[x]
      BY <2>0, <3>3, <3>4, <3>5, <3>6
    <3> QED BY <3>7 DEF t
  <2> QED BY <2>3, <2>4
<1>5. Nat \subseteq N
  <2> HIDE DEF N
  <2> QED BY <1>3, <1>4, SetInduction
<1>6. U \in SUBSET W /\ c \in W \ U
  BY DEF W
<1>7. Cardinality(U) \in N
  <2> HIDE DEF N
  <2> QED BY <1>2, <1>5, <1>6
<1> QED BY <1>6, <1>7

LEMMA TotalOfBoth ==
  ASSUME NEW A, IsFiniteSet(A), NEW B, IsFiniteSet(B), A \cap B = {},
         NEW weight, Weighs(weight, A), Weighs(weight, B)
  PROVE  TotalOf(weight, A \cup B) = TotalOf(weight, A) + TotalOf(weight, B)
<1> DEFINE T == {s \in SUBSET B : TotalOf(weight, A \cup s) = TotalOf(weight, A) + TotalOf(weight, s)}
<1>1. \A s \in SUBSET B : /\ IsFiniteSet(s) /\ Weighs(weight, s) /\ TotalOf(weight, s) \in Nat
                          /\ IsFiniteSet(A \cup s) /\ Weighs(weight, A \cup s)
  <2> TAKE s \in SUBSET B
  <2>1. IsFiniteSet(s) /\ Weighs(weight, s)
    BY FS_Subset DEF Weighs
  <2>2. IsFiniteSet(A \cup s)
    BY <2>1, FS_Union
  <2> QED BY <2>1, <2>2, TotalIsNat DEF Weighs
<1>2. TotalOf(weight, A) \in Nat
  BY TotalIsNat
<1>3. {} \in T
  <2>1. A \cup {} = A /\ TotalOf(weight, {}) = 0
    BY TotalOfNone
  <2> QED BY <1>2, <2>1
<1>4. ASSUME NEW s \in SUBSET B, NEW x \in B \ s, s \in T PROVE s \cup {x} \in T
  <2>1. weight[x] \in Nat /\ x \notin A \cup s
    BY DEF Weighs
  <2>2. TotalOf(weight, s \cup {x}) = TotalOf(weight, s) + weight[x]
    BY <1>1, <2>1, TotalOfOneMore
  <2>3. TotalOf(weight, (A \cup s) \cup {x}) = TotalOf(weight, A \cup s) + weight[x]
    <3> DEFINE D == A \cup s
    <3>1. IsFiniteSet(D) /\ Weighs(weight, D) /\ x \notin D
      BY <1>1, <2>1
    <3> HIDE DEF D
    <3>2. TotalOf(weight, D \cup {x}) = TotalOf(weight, D) + weight[x]
      BY <2>1, <3>1, TotalOfOneMore
    <3> QED BY <3>2 DEF D
  <2>4. (A \cup s) \cup {x} = A \cup (s \cup {x})
    OBVIOUS
  <2>5. TotalOf(weight, A \cup s) = TotalOf(weight, A) + TotalOf(weight, s)
    BY <1>4
  <2>6. TotalOf(weight, s) \in Nat
    BY <1>1
  <2>7. TotalOf(weight, A \cup (s \cup {x})) = TotalOf(weight, A) + TotalOf(weight, s \cup {x})
    <3> DEFINE a == TotalOf(weight, A)
               b == TotalOf(weight, s)
               w == weight[x]
    <3>1. TotalOf(weight, A \cup (s \cup {x})) = (a + b) + w
      BY <2>3, <2>4, <2>5, Zenon
    <3>2. a \in Nat /\ b \in Nat /\ w \in Nat /\ TotalOf(weight, s \cup {x}) = b + w
      BY <1>2, <2>1, <2>2, <2>6
    <3> HIDE DEF a, b, w
    <3>3. (a + b) + w = a + (b + w)
      BY <3>2
    <3> QED BY <3>1, <3>2, <3>3, Zenon DEF a
  <2> QED BY <2>7
<1>5. B \in T
  <2> HIDE DEF T
  <2> QED BY <1>3, <1>4, OneByOne
<1> QED BY <1>5

(* A sum of weights up to most is up to most for each element.             *)
LEMMA TotalBound ==
  ASSUME NEW A, IsFiniteSet(A), NEW most \in Nat, NEW weight, \A x \in A : weight[x] \in 0..most
  PROVE  TotalOf(weight, A) \in 0..(Cardinality(A) * most)
<1> DEFINE T == {s \in SUBSET A : TotalOf(weight, s) \in 0..(Cardinality(s) * most)}
<1>1. \A s \in SUBSET A : IsFiniteSet(s) /\ Weighs(weight, s) /\ Cardinality(s) \in Nat
  BY FS_Subset, FS_CardinalityType DEF Weighs
<1>2. {} \in T
  <2>1. Cardinality({}) = 0 /\ TotalOf(weight, {}) = 0
    BY TotalOfNone, FS_EmptySet
  <2> QED BY <2>1
<1>3. ASSUME NEW s \in SUBSET A, NEW x \in A \ s, s \in T PROVE s \cup {x} \in T
  <2>1. Cardinality(s \cup {x}) = Cardinality(s) + 1
    BY <1>1, FS_AddElement
  <2>2. TotalOf(weight, s \cup {x}) = TotalOf(weight, s) + weight[x]
    BY <1>1, TotalOfOneMore
  <2>3. TotalOf(weight, s) \in 0..(Cardinality(s) * most) /\ weight[x] \in 0..most
        /\ Cardinality(s) \in Nat
    BY <1>1, <1>3
  <2>4. (Cardinality(s) + 1) * most = Cardinality(s) * most + most /\ Cardinality(s) * most \in Nat
    BY <2>3
  <2>5. TotalOf(weight, s) + weight[x] \in 0..(Cardinality(s) * most + most)
    BY <2>3, <2>4
  <2> QED BY <2>1, <2>2, <2>4, <2>5
<1>4. A \in T
  <2> HIDE DEF T
  <2> QED BY <1>2, <1>3, OneByOne
<1> QED BY <1>4

LEMMA ModSum ==
  ASSUME NEW n \in Nat \ {0}, NEW a \in Int, NEW b \in Int, a % n = 0, b % n = 0
  PROVE  (a + b) % n = 0
<1>1. PICK q \in Int : a = n * q
  OBVIOUS
<1>2. PICK r \in Int : b = n * r
  OBVIOUS
<1>3. a + b = n * (q + r)
  BY <1>1, <1>2
<1>4. \A k \in Int : (n * k) % n = 0
  OBVIOUS
<1> QED BY <1>3, <1>4

LEMMA TotalDivides ==
  ASSUME NEW A, IsFiniteSet(A), NEW n \in Nat \ {0}, NEW weight,
         \A x \in A : weight[x] \in Nat /\ weight[x] % n = 0
  PROVE  TotalOf(weight, A) % n = 0
<1> DEFINE T == {s \in SUBSET A : TotalOf(weight, s) % n = 0}
<1>1. \A s \in SUBSET A : IsFiniteSet(s) /\ Weighs(weight, s) /\ TotalOf(weight, s) \in Nat
  <2> TAKE s \in SUBSET A
  <2>1. IsFiniteSet(s) /\ Weighs(weight, s)
    BY FS_Subset DEF Weighs
  <2> QED BY <2>1, TotalIsNat
<1>2. {} \in T
  <2>1. TotalOf(weight, {}) = 0
    BY TotalOfNone
  <2>2. 0 % n = 0
    OBVIOUS
  <2> QED BY <2>1, <2>2
<1>3. ASSUME NEW s \in SUBSET A, NEW x \in A \ s, s \in T PROVE s \cup {x} \in T
  <2>1. TotalOf(weight, s \cup {x}) = TotalOf(weight, s) + weight[x]
    BY <1>1, TotalOfOneMore
  <2>2. (TotalOf(weight, s) + weight[x]) % n = 0
    BY <1>1, <1>3, ModSum
  <2> QED BY <2>1, <2>2
<1>4. A \in T
  <2> HIDE DEF T
  <2> QED BY <1>2, <1>3, OneByOne
<1> QED BY <1>4

(* The parts of a set that no two share: what they weigh together is what  *)
(* their union weighs.                                                     *)
LEMMA TotalOfParts ==
  ASSUME NEW K, IsFiniteSet(K), NEW part, NEW weight, NEW sums,
         \A i \in K : /\ IsFiniteSet(part[i]) /\ Weighs(weight, part[i])
                      /\ sums[i] = TotalOf(weight, part[i]),
         \A i, j \in K : i # j => part[i] \cap part[j] = {}
  PROVE  /\ IsFiniteSet(UNION {part[i] : i \in K})
         /\ TotalOf(sums, K) = TotalOf(weight, UNION {part[i] : i \in K})
<1> DEFINE all(s) == UNION {part[i] : i \in s}
           T == {s \in SUBSET K : IsFiniteSet(all(s)) /\ TotalOf(sums, s) = TotalOf(weight, all(s))}
<1>1. \A s \in SUBSET K : Weighs(weight, all(s))
  BY DEF Weighs
<1>2. \A i \in K : sums[i] \in Nat
  BY TotalIsNat
<1>3. \A s \in SUBSET K : IsFiniteSet(s) /\ Weighs(sums, s)
  BY <1>2, FS_Subset DEF Weighs
<1>4. {} \in T
  <2>1. all({}) = {}
    OBVIOUS
  <2>2. TotalOf(sums, {}) = 0 /\ TotalOf(weight, {}) = 0 /\ IsFiniteSet({})
    BY TotalOfNone, FS_EmptySet
  <2> QED BY <2>1, <2>2
<1>5. ASSUME NEW s \in SUBSET K, NEW k \in K \ s, s \in T PROVE s \cup {k} \in T
  <2>1. all(s \cup {k}) = all(s) \cup part[k] /\ all(s) \cap part[k] = {}
    OBVIOUS
  <2>2. Weighs(weight, all(s)) /\ IsFiniteSet(all(s)) /\ TotalOf(sums, s) = TotalOf(weight, all(s))
    BY <1>1, <1>5
  <2>3. TotalOf(sums, s \cup {k}) = TotalOf(sums, s) + sums[k]
    <3>1. IsFiniteSet(s) /\ Weighs(sums, s) /\ k \notin s /\ sums[k] \in Nat
      BY <1>2, <1>3
    <3> QED BY <3>1, TotalOfOneMore
  <2> HIDE DEF all
  <2>4. TotalOf(weight, all(s) \cup part[k]) = TotalOf(weight, all(s)) + TotalOf(weight, part[k])
    BY <2>1, <2>2, TotalOfBoth
  <2>5. IsFiniteSet(all(s) \cup part[k])
    BY <2>2, FS_Union
  <2>6. TotalOf(sums, s \cup {k}) = TotalOf(weight, all(s \cup {k}))
    BY <2>1, <2>2, <2>3, <2>4
  <2> QED BY <2>1, <2>5, <2>6
<1>6. K \in T
  <2> HIDE DEF T
  <2> QED BY <1>4, <1>5, OneByOne
<1> QED BY <1>6

(* One of a set for each of 1..n, and none twice.                          *)
Enumerates(list, U) ==
  /\ list \in Seq(U) /\ DOMAIN list = 1..Len(list)
  /\ \A x \in U : \E i \in DOMAIN list : list[i] = x
  /\ \A i, j \in DOMAIN list : i # j => list[i] # list[j]

LEMMA EnumeratesOneMore ==
  ASSUME NEW s, NEW x \in s, NEW list, Enumerates(list, s \ {x})
  PROVE  Enumerates(Append(list, x), s)
<1> DEFINE n == Len(list)
           more == Append(list, x)
<1>1. list \in Seq(s) /\ n \in Nat
  BY DEF Enumerates
<1>2. more \in Seq(s) /\ Len(more) = n + 1 /\ DOMAIN more = 1..(n + 1)
  BY <1>1
<1>3. \A i \in 1..n : more[i] = list[i] /\ more[i] \in s \ {x}
  BY <1>1 DEF Enumerates
<1>4. more[n + 1] = x
  BY <1>1
<1> HIDE DEF more
<1>5. DOMAIN list = 1..n /\ n + 1 \in 1..(n + 1) /\ 1..n \subseteq 1..(n + 1)
      /\ 1..(n + 1) = 1..n \cup {n + 1}
  BY <1>1 DEF Enumerates
<1>6. \A y \in s : \E i \in DOMAIN more : more[i] = y
  <2> TAKE y \in s
  <2>1. CASE y = x
    BY <1>2, <1>4, <1>5, <2>1
  <2>2. CASE y # x
    <3>1. PICK i \in DOMAIN list : list[i] = y
      BY <2>2 DEF Enumerates
    <3> QED BY <1>2, <1>3, <1>5, <3>1
  <2> QED BY <2>1, <2>2
<1>7. ASSUME NEW i \in DOMAIN more, NEW j \in DOMAIN more, i # j PROVE more[i] # more[j]
  <2>1. CASE i \in 1..n /\ j \in 1..n
    BY <1>3, <1>5, <1>7, <2>1 DEF Enumerates
  <2>2. CASE i = n + 1 \/ j = n + 1
    BY <1>2, <1>3, <1>4, <1>5, <1>7, <2>2
  <2> QED BY <1>2, <1>5, <2>1, <2>2
<1>8. Enumerates(more, s)
  BY <1>2, <1>6, <1>7 DEF Enumerates
<1> QED BY <1>8 DEF more

LEMMA ListedEnumerates ==
  ASSUME NEW U, IsFiniteSet(U)
  PROVE  Enumerates(Listed(U), U)
<1> DEFINE Solves(g) == g = [s \in SUBSET U |-> IF s = {} THEN <<>>
                               ELSE Append(g[s \ {CHOOSE x \in s : TRUE}], CHOOSE x \in s : TRUE)]
           h == CHOOSE g : Solves(g)
           next == [p \in U \X Seq(U) |-> Append(p[2], p[1])]
<1>1. Listed(U) = h[U]
  BY DEF Listed, FoldSet, MapThenFoldSet
<1>2. next \in Gathering(U, Seq(U))
  BY DEF Gathering
<1>3. Gathered(U, Seq(U), <<>>, next)
  <2>1. <<>> \in Seq(U)
    OBVIOUS
  <2> HIDE DEF next
  <2> QED BY <1>2, <2>1, GatherExists
<1>4. PICK g \in [SUBSET U -> Seq(U)] : Gathers(g, U, <<>>, next)
  BY <1>3 DEF Gathered
<1>5. Solves(g)
  <2>1. ASSUME NEW s \in SUBSET U, s # {} PROVE g[s] = Append(g[s \ {Some(s)}], Some(s))
    <3>1. Some(s) \in U /\ g[s \ {Some(s)}] \in Seq(U)
      BY <2>1 DEF Some
    <3>2. g[s] = next[<<Some(s), g[s \ {Some(s)}]>>]
      BY <1>4, <2>1 DEF Gathers
    <3>3. <<Some(s), g[s \ {Some(s)}]>> \in U \X Seq(U)
      BY <3>1
    <3> QED BY <3>2, <3>3
  <2>2. g[{}] = <<>>
    BY <1>4 DEF Gathers
  <2> QED BY <2>1, <2>2 DEF Some
<1>6. Solves(h)
  <2> HIDE DEF Solves
  <2> QED BY <1>5
<1> HIDE DEF h
<1> DEFINE T == {s \in SUBSET U : Enumerates(h[s], s)}
           N == {n \in Nat : \A s \in SUBSET U : Cardinality(s) = n => s \in T}
<1>7. \A s \in SUBSET U : IsFiniteSet(s) /\ Cardinality(s) \in Nat
  BY FS_Subset, FS_CardinalityType
<1>8. h[{}] = <<>> /\ \A s \in SUBSET U : s # {} => h[s] = Append(h[s \ {Some(s)}], Some(s))
  BY <1>6 DEF Some
<1> HIDE DEF Solves
<1>9. 0 \in N
  <2>1. Enumerates(h[{}], {})
    BY <1>8 DEF Enumerates
  <2>2. \A s \in SUBSET U : Cardinality(s) = 0 => s = {}
    BY <1>7, FS_EmptySet
  <2> QED BY <2>1, <2>2
<1>10. ASSUME NEW n \in Nat, n \in N PROVE n + 1 \in N
  <2> SUFFICES ASSUME NEW s \in SUBSET U, Cardinality(s) = n + 1 PROVE Enumerates(h[s], s)
    OBVIOUS
  <2>1. s # {}
    <3>1. s = {} => Cardinality(s) = 0
      BY FS_EmptySet, Zenon
    <3> QED BY <3>1
  <2> DEFINE x == Some(s)
             t == s \ {x}
  <2>2. x \in s /\ Cardinality(t) = Cardinality(s) - 1
    BY <1>7, <2>1, SomeRemoved
  <2>3. h[s] = Append(h[t], x) /\ t \in SUBSET U
    BY <1>8, <2>1
  <2>4. Enumerates(h[t], s \ {x})
    <3>1. Cardinality(t) = n
      BY <2>2
    <3> QED BY <1>10, <2>3, <3>1
  <2> HIDE DEF t, x
  <2>5. Enumerates(Append(h[t], x), s)
    BY <2>2, <2>4, EnumeratesOneMore
  <2> QED BY <2>3, <2>5
<1>11. Nat \subseteq N
  <2> HIDE DEF N
  <2> QED BY <1>9, <1>10, SetInduction
<1>12. Enumerates(h[U], U)
  BY <1>7, <1>11
<1> QED BY <1>1, <1>12

-----------------------------------------------------------------------------
(* Calibration: reports                                                    *)

Fields == {"count"} \cup Metrics

(* What an observation adds to a field of its group.                       *)
Adds(o, f) ==
  IF f = "count" THEN 1 ELSE IF f = "acc" THEN Outcome(o) * ConfidenceSteps ELSE
  IF f = "conf" THEN o.confidence * ConfidenceSteps ELSE BrierTerm(o)

Weigh(All, f) == [o \in All |-> Adds(o, f)]

(* Observations as their schema has them.                                  *)
Observable(o) == o.confidence \in 0..ConfidenceSteps /\ o.correct \in BOOLEAN /\ LabelsOK(o)

LEMMA SquareGrows ==
  ASSUME NEW n \in Nat, NEW a \in -n..n
  PROVE  a * a \in 0..(n * n)
<1>1. CASE a >= 0
  <2>1. a * a <= a * n /\ a * n <= n * n /\ a * a \in Nat
    BY <1>1
  <2> QED BY <2>1
<1>2. CASE a < 0
  <2> DEFINE b == -a
  <2>1. b \in 0..n /\ a * a = b * b
    BY <1>2
  <2> HIDE DEF b
  <2>2. b * b <= b * n /\ b * n <= n * n /\ b * b \in Nat
    BY <2>1
  <2> QED BY <2>1, <2>2
<1> QED BY <1>1, <1>2

LEMMA AddsRange ==
  ASSUME NEW o, Observable(o)
  PROVE  /\ \A f \in Metrics : Adds(o, f) \in 0..Unit
         /\ Adds(o, "count") = 1
         /\ Adds(o, "acc") % Unit = 0
<1> DEFINE n == ConfidenceSteps
<1>1. n \in Nat \ {0} /\ Unit = n * n /\ Unit \in Nat \ {0}
  <2>1. n \in Nat \ {0}
    BY CalibrationAssumption
  <2>2. n * n \in Nat \ {0}
    BY <2>1
  <2> QED BY <2>1, <2>2 DEF Unit
<1>2. o.confidence \in 0..n /\ Outcome(o) \in {0, n}
  BY DEF Observable, Outcome
<1>3. Adds(o, "acc") = Outcome(o) * n /\ Adds(o, "conf") = o.confidence * n
      /\ Adds(o, "brier") = BrierTerm(o) /\ Adds(o, "count") = 1
  BY DEF Adds
<1> HIDE DEF n
<1>4. Adds(o, "acc") \in {0, Unit}
  BY <1>1, <1>2, <1>3
<1>5. Adds(o, "conf") \in 0..Unit
  <2> DEFINE c == o.confidence
  <2>1. c \in 0..n /\ Adds(o, "conf") = c * n
    BY <1>2, <1>3
  <2> HIDE DEF c
  <2>2. c * n <= n * n /\ c * n \in Nat
    BY <1>1, <2>1
  <2> QED BY <1>1, <2>1, <2>2
<1>6. Adds(o, "brier") \in 0..Unit
  <2> DEFINE d == o.confidence - Outcome(o)
  <2>1. d \in -n..n
    BY <1>1, <1>2
  <2>2. Adds(o, "brier") = d * d
    BY <1>3 DEF BrierTerm
  <2> HIDE DEF d
  <2>3. d * d \in 0..(n * n)
    BY <1>1, <2>1, SquareGrows
  <2> QED BY <1>1, <2>2, <2>3
<1>7. 0 % Unit = 0 /\ Unit % Unit = 0
  BY <1>1
<1> QED BY <1>1, <1>3, <1>4, <1>5, <1>6, <1>7 DEF Metrics

LEMMA AddsAreNat ==
  ASSUME NEW o, Observable(o), NEW f \in Fields
  PROVE  Adds(o, f) \in Nat
<1>1. Unit \in Nat
  BY CalibrationAssumption DEF Unit
<1> QED BY <1>1, AddsRange DEF Fields

(* The sums of a summary, and those of a roll-up, are totals.              *)
LEMMA AccTotal ==
  ASSUME NEW All, NEW P \in SUBSET All, IsFiniteSet(P), NEW weight,
         Weighs(weight, P), \A o \in P : weight[o] = Outcome(o) * ConfidenceSteps
  PROVE  MapThenSumSet(LAMBDA o : Outcome(o) * ConfidenceSteps, P) = TotalOf(weight, P)
<1> DEFINE Solves(g) == g = [s \in SUBSET P |-> IF s = {} THEN 0
                               ELSE Outcome(CHOOSE x \in s : TRUE) * ConfidenceSteps
                                    + g[s \ {CHOOSE x \in s : TRUE}]]
           h == CHOOSE g : Solves(g)
<1>1. PICK g : TotalFrom(g, weight, P, TotalOf(weight, P))
  BY TotalIs
<1>2. \A s \in SUBSET P : s # {} => weight[Some(s)] = Outcome(Some(s)) * ConfidenceSteps
  BY DEF Some
<1>3. Solves(g)
  BY <1>1, <1>2 DEF TotalFrom, Sums, Some
<1>4. Solves(h)
  <2> HIDE DEF Solves
  <2> QED BY <1>3
<1>5. MapThenSumSet(LAMBDA o : Outcome(o) * ConfidenceSteps, P) = h[P]
  BY DEF MapThenSumSet, MapThenFoldSet
<1> HIDE DEF h
<1>6. Sums(h, weight, P)
  BY <1>2, <1>4 DEF Sums, Some
<1> HIDE DEF Solves
<1>7. g[P] = h[P]
  BY <1>1, <1>6, SumsUnique DEF TotalFrom
<1> QED BY <1>1, <1>5, <1>7 DEF TotalFrom

LEMMA ConfTotal ==
  ASSUME NEW All, NEW P \in SUBSET All, IsFiniteSet(P), NEW weight,
         Weighs(weight, P), \A o \in P : weight[o] = o.confidence * ConfidenceSteps
  PROVE  MapThenSumSet(LAMBDA o : o.confidence * ConfidenceSteps, P) = TotalOf(weight, P)
<1> DEFINE Solves(g) == g = [s \in SUBSET P |-> IF s = {} THEN 0
                               ELSE (CHOOSE x \in s : TRUE).confidence * ConfidenceSteps
                                    + g[s \ {CHOOSE x \in s : TRUE}]]
           h == CHOOSE g : Solves(g)
<1>1. PICK g : TotalFrom(g, weight, P, TotalOf(weight, P))
  BY TotalIs
<1>2. \A s \in SUBSET P : s # {} => weight[Some(s)] = Some(s).confidence * ConfidenceSteps
  BY DEF Some
<1>3. Solves(g)
  BY <1>1, <1>2 DEF TotalFrom, Sums, Some
<1>4. Solves(h)
  <2> HIDE DEF Solves
  <2> QED BY <1>3
<1>5. MapThenSumSet(LAMBDA o : o.confidence * ConfidenceSteps, P) = h[P]
  BY DEF MapThenSumSet, MapThenFoldSet
<1> HIDE DEF h
<1>6. Sums(h, weight, P)
  BY <1>2, <1>4 DEF Sums, Some
<1> HIDE DEF Solves
<1>7. g[P] = h[P]
  BY <1>1, <1>6, SumsUnique DEF TotalFrom
<1> QED BY <1>1, <1>5, <1>7 DEF TotalFrom

LEMMA BrierTotal ==
  ASSUME NEW All, NEW P \in SUBSET All, IsFiniteSet(P), NEW weight,
         Weighs(weight, P), \A o \in P : weight[o] = BrierTerm(o)
  PROVE  MapThenSumSet(BrierTerm, P) = TotalOf(weight, P)
<1> DEFINE Solves(g) == g = [s \in SUBSET P |-> IF s = {} THEN 0
                               ELSE BrierTerm(CHOOSE x \in s : TRUE)
                                    + g[s \ {CHOOSE x \in s : TRUE}]]
           h == CHOOSE g : Solves(g)
<1>1. PICK g : TotalFrom(g, weight, P, TotalOf(weight, P))
  BY TotalIs
<1>2. \A s \in SUBSET P : s # {} => weight[Some(s)] = BrierTerm(Some(s))
  BY DEF Some
<1>3. Solves(g)
  BY <1>1, <1>2 DEF TotalFrom, Sums, Some
<1>4. Solves(h)
  <2> HIDE DEF Solves
  <2> QED BY <1>3
<1>5. MapThenSumSet(BrierTerm, P) = h[P]
  BY DEF MapThenSumSet, MapThenFoldSet
<1> HIDE DEF h
<1>6. Sums(h, weight, P)
  BY <1>2, <1>4 DEF Sums, Some
<1> HIDE DEF Solves
<1>7. g[P] = h[P]
  BY <1>1, <1>6, SumsUnique DEF TotalFrom
<1> QED BY <1>1, <1>5, <1>7 DEF TotalFrom

FieldSum(groups, f, K) == MapThenSumSet(LAMBDA i : groups[i][f], K)

LEMMA FieldTotal ==
  ASSUME NEW K, IsFiniteSet(K), NEW groups, NEW f, NEW weight,
         Weighs(weight, K), \A i \in K : weight[i] = groups[i][f]
  PROVE  FieldSum(groups, f, K) = TotalOf(weight, K)
<1> DEFINE Solves(g) == g = [s \in SUBSET K |-> IF s = {} THEN 0
                               ELSE groups[CHOOSE x \in s : TRUE][f]
                                    + g[s \ {CHOOSE x \in s : TRUE}]]
           h == CHOOSE g : Solves(g)
<1>1. PICK g : TotalFrom(g, weight, K, TotalOf(weight, K))
  BY TotalIs
<1>2. \A s \in SUBSET K : s # {} => weight[Some(s)] = groups[Some(s)][f]
  BY DEF Some
<1>3. Solves(g)
  BY <1>1, <1>2 DEF TotalFrom, Sums, Some
<1>4. Solves(h)
  <2> HIDE DEF Solves
  <2> QED BY <1>3
<1>5. FieldSum(groups, f, K) = h[K]
  BY DEF FieldSum, MapThenSumSet, MapThenFoldSet
<1> HIDE DEF h
<1>6. Sums(h, weight, K)
  BY <1>2, <1>4 DEF Sums, Some
<1> HIDE DEF Solves
<1>7. g[K] = h[K]
  BY <1>1, <1>6, SumsUnique DEF TotalFrom
<1> QED BY <1>1, <1>5, <1>7 DEF TotalFrom

LEMMA CountTotal ==
  ASSUME NEW P, IsFiniteSet(P), NEW weight, \A o \in P : weight[o] = 1
  PROVE  Cardinality(P) = TotalOf(weight, P)
<1> DEFINE T == {s \in SUBSET P : Cardinality(s) = TotalOf(weight, s)}
<1>1. \A s \in SUBSET P : IsFiniteSet(s) /\ Weighs(weight, s)
  BY FS_Subset DEF Weighs
<1>2. {} \in T
  <2>1. Cardinality({}) = 0 /\ TotalOf(weight, {}) = 0
    BY TotalOfNone, FS_EmptySet
  <2> QED BY <2>1
<1>3. ASSUME NEW s \in SUBSET P, NEW x \in P \ s, s \in T PROVE s \cup {x} \in T
  <2>1. Cardinality(s \cup {x}) = Cardinality(s) + 1
    BY <1>1, FS_AddElement
  <2>2. weight[x] \in Nat /\ weight[x] = 1
    OBVIOUS
  <2>3. TotalOf(weight, s \cup {x}) = TotalOf(weight, s) + weight[x]
    BY <1>1, <2>2, TotalOfOneMore
  <2> QED BY <1>3, <2>1, <2>2, <2>3
<1>4. P \in T
  <2> HIDE DEF T
  <2> QED BY <1>2, <1>3, OneByOne
<1> QED BY <1>4

(* A summary is the totals of what its observations add.                   *)
Summarises(g, All, P, minimum) ==
  /\ \A f \in Fields : g[f] = TotalOf(Weigh(All, f), P)
  /\ g.count = Cardinality(P)
  /\ g.bias = g.conf - g.acc
  /\ g.status = SampleStatus(g.count, minimum)

LEMMA WeighsAll ==
  ASSUME NEW All, \A o \in All : Observable(o), NEW P \in SUBSET All, NEW f \in Fields
  PROVE  Weighs(Weigh(All, f), P) /\ \A o \in P : Weigh(All, f)[o] = Adds(o, f)
<1>1. \A o \in P : Weigh(All, f)[o] = Adds(o, f)
  BY DEF Weigh
<1>2. \A o \in P : Adds(o, f) \in Nat
  BY AddsAreNat
<1> QED BY <1>1, <1>2 DEF Weighs

LEMMA SummaryIs ==
  ASSUME NEW All, \A o \in All : Observable(o), NEW P \in SUBSET All, IsFiniteSet(P), NEW minimum
  PROVE  Summarises(Summary(P, minimum), All, P, minimum)
<1>1. "count" \in Fields /\ "acc" \in Fields /\ "conf" \in Fields /\ "brier" \in Fields
      /\ \A f \in Fields : f = "count" \/ f = "acc" \/ f = "conf" \/ f = "brier"
  BY DEF Fields, Metrics
<1>2. \A f \in Fields : Weighs(Weigh(All, f), P) /\ \A o \in P : Weigh(All, f)[o] = Adds(o, f)
  BY WeighsAll
<1>3. Cardinality(P) = TotalOf(Weigh(All, "count"), P)
  <2>1. \A o \in P : Weigh(All, "count")[o] = 1
    BY <1>1, <1>2 DEF Adds
  <2> QED BY <2>1, CountTotal
<1>4. MapThenSumSet(LAMBDA o : Outcome(o) * ConfidenceSteps, P) = TotalOf(Weigh(All, "acc"), P)
  <2>1. \A o \in P : Weigh(All, "acc")[o] = Outcome(o) * ConfidenceSteps
    BY <1>1, <1>2 DEF Adds
  <2> QED BY <1>1, <1>2, <2>1, AccTotal
<1>5. MapThenSumSet(LAMBDA o : o.confidence * ConfidenceSteps, P) = TotalOf(Weigh(All, "conf"), P)
  <2>1. \A o \in P : Weigh(All, "conf")[o] = o.confidence * ConfidenceSteps
    BY <1>1, <1>2 DEF Adds
  <2> QED BY <1>1, <1>2, <2>1, ConfTotal
<1>6. MapThenSumSet(BrierTerm, P) = TotalOf(Weigh(All, "brier"), P)
  <2>1. \A o \in P : Weigh(All, "brier")[o] = BrierTerm(o)
    BY <1>1, <1>2 DEF Adds
  <2> QED BY <1>1, <1>2, <2>1, BrierTotal
<1> DEFINE g == Summary(P, minimum)
<1>7. /\ g.count = TotalOf(Weigh(All, "count"), P) /\ g.acc = TotalOf(Weigh(All, "acc"), P)
      /\ g.conf = TotalOf(Weigh(All, "conf"), P) /\ g.brier = TotalOf(Weigh(All, "brier"), P)
      /\ g.count = Cardinality(P) /\ g.bias = g.conf - g.acc
      /\ g.status = SampleStatus(g.count, minimum)
  BY <1>3, <1>4, <1>5, <1>6 DEF Summary
<1> HIDE DEF g
<1>8. Summarises(g, All, P, minimum)
  BY <1>1, <1>7 DEF Summarises
<1> QED BY <1>8 DEF g

LEMMA SummaryFits ==
  ASSUME NEW All, \A o \in All : Observable(o), NEW P \in SUBSET All, IsFiniteSet(P), P # {},
         NEW minimum, NEW g, Summarises(g, All, P, minimum)
  PROVE  SummaryOK(g, minimum) /\ CanonicalAccuracy(g)
<1>1. Unit \in Nat \ {0}
  <2>1. ConfidenceSteps * ConfidenceSteps \in Nat \ {0}
    BY CalibrationAssumption
  <2> QED BY <2>1 DEF Unit
<1>2. g.count = Cardinality(P) /\ g.count \in Nat /\ g.count > 0
  <2>1. Cardinality(P) \in Nat /\ Cardinality(P) # 0
    BY FS_CardinalityType, FS_EmptySet
  <2> QED BY <2>1 DEF Summarises
<1>3. ASSUME NEW m \in Metrics PROVE g[m] \in 0..(g.count * Unit)
  <2>1. m \in Fields
    BY DEF Fields
  <2>2. \A o \in P : Weigh(All, m)[o] \in 0..Unit
    BY <2>1, WeighsAll, AddsRange
  <2>3. TotalOf(Weigh(All, m), P) \in 0..(Cardinality(P) * Unit)
    BY <1>1, <2>2, TotalBound
  <2> QED BY <1>2, <2>1, <2>3 DEF Summarises
<1>4. g.acc % Unit = 0
  <2>1. "acc" \in Fields
    BY DEF Fields, Metrics
  <2>2. \A o \in P : Weigh(All, "acc")[o] \in Nat /\ Weigh(All, "acc")[o] % Unit = 0
    <3> SUFFICES ASSUME NEW o \in P
                 PROVE  Weigh(All, "acc")[o] \in Nat /\ Weigh(All, "acc")[o] % Unit = 0
      OBVIOUS
    <3>1. Weigh(All, "acc")[o] = Adds(o, "acc") /\ Observable(o)
      BY <2>1, WeighsAll
    <3>2. Adds(o, "acc") \in Nat /\ Adds(o, "acc") % Unit = 0
      BY <2>1, <3>1, AddsRange, AddsAreNat
    <3> QED BY <3>1, <3>2
  <2>3. TotalOf(Weigh(All, "acc"), P) % Unit = 0
    BY <1>1, <2>2, TotalDivides
  <2> QED BY <2>1, <2>3 DEF Summarises
<1> QED BY <1>2, <1>3, <1>4 DEF SummaryOK, CanonicalAccuracy, Summarises

(* A group of a report: the summary of some observations, with their key.  *)
LEMMA ImageIsFinite ==
  ASSUME NEW U, IsFiniteSet(U), NEW f, DOMAIN f = U
  PROVE  IsFiniteSet({f[x] : x \in U})
<1> DEFINE T == {f[x] : x \in U}
           g == [x \in U |-> f[x]]
<1>1. g \in [U -> T] /\ \A y \in T : \E x \in U : g[x] = y
  OBVIOUS
<1>2. g \in Surjection(U, T)
  <2> HIDE DEF g, T
  <2> QED BY <1>1 DEF Surjection
<1> HIDE DEF g, T
<1>3. IsFiniteSet(T)
  BY <1>2, FS_Surjection
<1> QED BY <1>3 DEF T

LEMMA SummaryDomain ==
  ASSUME NEW P, NEW minimum
  PROVE  DOMAIN Summary(P, minimum) = {"count", "acc", "conf", "brier", "bias", "status"}
BY DEF Summary

LEMMA WithSummary ==
  ASSUME NEW All, \A o \in All : Observable(o), NEW P \in SUBSET All, IsFiniteSet(P), NEW minimum,
         NEW k, DOMAIN k \subseteq {"scope", "type", "source", "subtype", "pattern"}
  PROVE  /\ \A f \in DOMAIN k : With(k, Summary(P, minimum))[f] = k[f]
         /\ Summarises(With(k, Summary(P, minimum)), All, P, minimum)
<1> DEFINE s == Summary(P, minimum)
           g == With(k, s)
<1>1. Summarises(s, All, P, minimum)
  BY SummaryIs
<1>2. DOMAIN s = {"count", "acc", "conf", "brier", "bias", "status"}
  BY SummaryDomain
<1> HIDE DEF s
<1>3. \A f \in DOMAIN k : g[f] = k[f]
  BY DEF With
<1>4. \A f \in {"count", "acc", "conf", "brier", "bias", "status"} :
        f \notin {"scope", "type", "source", "subtype", "pattern"}
  OBVIOUS
<1>5. \A f \in {"count", "acc", "conf", "brier", "bias", "status"} : g[f] = s[f]
  BY <1>2, <1>4 DEF With
<1>6. \A f \in Fields : f \in {"count", "acc", "conf", "brier", "bias", "status"}
  BY DEF Fields, Metrics
<1> HIDE DEF g
<1>7. Summarises(g, All, P, minimum)
  BY <1>1, <1>5, <1>6 DEF Summarises
<1> QED BY <1>3, <1>7 DEF g, s

(* A flat report has one group for each task type and source.              *)
FlatGroups(All, minimum) ==
  {With(FlatKey(o), Summary({p \in All : FlatKey(p) = FlatKey(o)}, minimum)) : o \in All}

LEMMA FlatGroupIs ==
  ASSUME NEW All, IsFiniteSet(All), \A o \in All : Observable(o), NEW minimum,
         NEW g \in FlatGroups(All, minimum)
  PROVE  /\ SummaryOK(g, minimum)
         /\ g = With(FlatKey(g), Summary({p \in All : FlatKey(p) = FlatKey(g)}, minimum))
<1>1. PICK o \in All : g = With(FlatKey(o), Summary({p \in All : FlatKey(p) = FlatKey(o)}, minimum))
  BY DEF FlatGroups
<1> DEFINE k == FlatKey(o)
           P == {p \in All : FlatKey(p) = k}
<1>2. DOMAIN k = {"type", "source"} /\ P \in SUBSET All /\ P # {}
  BY DEF FlatKey
<1>3. IsFiniteSet(P)
  <2> HIDE DEF P
  <2> QED BY <1>2, FS_Subset
<1> HIDE DEF P, k
<1>4. g = With(k, Summary(P, minimum))
  BY <1>1 DEF P, k
<1>5. (\A f \in DOMAIN k : g[f] = k[f]) /\ Summarises(g, All, P, minimum)
  BY <1>2, <1>3, <1>4, WithSummary
<1>6. g.type = k.type /\ g.source = k.source
  BY <1>2, <1>5
<1>7. FlatKey(g) = k
  BY <1>6 DEF FlatKey, k
<1>8. SummaryOK(g, minimum)
  BY <1>2, <1>3, <1>5, SummaryFits
<1> QED BY <1>4, <1>7, <1>8 DEF P

THEOREM FlatReportsPass ==
  ASSUME NEW obs, IsFiniteSet(Range(obs)), \A o \in Range(obs) : Observable(o), NEW minimum
  PROVE  FlatReportOK(FlatAggregate(obs, minimum))
<1> DEFINE All == Range(obs)
           G   == FlatGroups(All, minimum)
           r   == FlatAggregate(obs, minimum)
<1>1. r.minimum = minimum /\ r.groups = Listed(G)
  BY DEF FlatAggregate, FlatGroups
<1>2. IsFiniteSet(G)
  <2> DEFINE f == [o \in All |-> With(FlatKey(o), Summary({p \in All : FlatKey(p) = FlatKey(o)}, minimum))]
  <2>1. G = {f[o] : o \in All} /\ DOMAIN f = All
    BY DEF FlatGroups
  <2> HIDE DEF f, G, All
  <2>2. IsFiniteSet(All)
    BY DEF All
  <2> QED BY <2>1, <2>2, ImageIsFinite
<1>3. Enumerates(r.groups, G)
  <2> HIDE DEF G, r
  <2> QED BY <1>1, <1>2, ListedEnumerates
<1>4. ASSUME NEW i \in DOMAIN r.groups
      PROVE  /\ r.groups[i] \in G /\ SummaryOK(r.groups[i], minimum)
             /\ r.groups[i] = With(FlatKey(r.groups[i]),
                                   Summary({p \in All : FlatKey(p) = FlatKey(r.groups[i])}, minimum))
  <2>1. r.groups[i] \in G
    <3> HIDE DEF G, r
    <3> QED BY <1>3 DEF Enumerates
  <2> HIDE DEF r
  <2> QED BY <2>1, FlatGroupIs
<1> HIDE DEF r, G, All
<1>5. ASSUME NEW i \in DOMAIN r.groups, NEW j \in DOMAIN r.groups, i # j
      PROVE  FlatKey(r.groups[i]) # FlatKey(r.groups[j])
  <2>1. r.groups[i] # r.groups[j]
    BY <1>3, <1>5 DEF Enumerates
  <2> QED BY <1>4, <2>1, Zenon
<1>6. FlatReportOK(r)
  BY <1>1, <1>4, <1>5 DEF FlatReportOK
<1> QED BY <1>6 DEF r

-----------------------------------------------------------------------------
(* Calibration: hierarchical reports                                       *)

(* The observations of a key, and the keys of observations.                *)
At(All, k)   == {o \in All : k.scope \in ScopesOf(o) /\ Key(o, k.scope) = k}
KeysOf(All)  == UNION {{Key(o, scope) : scope \in ScopesOf(o)} : o \in All}
KeyOf(g)     == Key(g, g.scope)
GroupAt(All, minimum, k)  == With(k, Summary(At(All, k), minimum))
GroupsOf(All, minimum) == {GroupAt(All, minimum, k) : k \in KeysOf(All)}

LEMMA AggregateIs ==
  ASSUME NEW obs, NEW minimum
  PROVE  Aggregate(obs, minimum).groups = Listed(GroupsOf(Range(obs), minimum))
<1> DEFINE All   == Range(obs)
           seeds == Seeds(All)
           keys  == {Key(s[1], s[2]) : s \in seeds}
           of(k) == {s[1] : s \in {t \in seeds : Key(t[1], t[2]) = k}}
<1>1. \A s : s \in seeds <=> \E o \in All : \E scope \in ScopesOf(o) : s = <<o, scope>>
  BY DEF Seeds
<1>2. Aggregate(obs, minimum).groups = Listed({With(k, Summary(of(k), minimum)) : k \in keys})
  BY DEF Aggregate
<1> HIDE DEF seeds
<1>3. \A o, scope : Key(o, scope).scope = scope
  BY DEF Key
<1>4. \A o, scope : <<o, scope>>[1] = o /\ <<o, scope>>[2] = scope
  OBVIOUS
<1>5. keys = KeysOf(All)
  <2>1. ASSUME NEW k \in keys PROVE k \in KeysOf(All)
    <3>1. PICK s \in seeds : k = Key(s[1], s[2])
      OBVIOUS
    <3>2. PICK o \in All : \E scope \in ScopesOf(o) : s = <<o, scope>>
      BY <1>1
    <3>3. PICK scope \in ScopesOf(o) : s = <<o, scope>>
      BY <3>2
    <3>4. k = Key(o, scope)
      BY <3>1, <3>3
    <3> QED BY <3>2, <3>3, <3>4 DEF KeysOf
  <2>2. ASSUME NEW k \in KeysOf(All) PROVE k \in keys
    <3>1. PICK o \in All : \E scope \in ScopesOf(o) : k = Key(o, scope)
      BY DEF KeysOf
    <3>2. PICK scope \in ScopesOf(o) : k = Key(o, scope)
      BY <3>1
    <3> DEFINE s == <<o, scope>>
    <3>3. s \in seeds /\ k = Key(s[1], s[2])
      BY <1>1, <3>2
    <3> HIDE DEF s
    <3> QED BY <3>3
  <2> QED BY <2>1, <2>2
<1>6. ASSUME NEW k PROVE of(k) = At(All, k)
  <2>1. ASSUME NEW o \in of(k) PROVE o \in At(All, k)
    <3>1. PICK s \in seeds : s[1] = o /\ Key(s[1], s[2]) = k
      OBVIOUS
    <3>2. PICK p \in All : \E scope \in ScopesOf(p) : s = <<p, scope>>
      BY <1>1
    <3>3. PICK scope \in ScopesOf(p) : s = <<p, scope>>
      BY <3>2
    <3>4. p = o /\ Key(o, scope) = k /\ k.scope = scope
      BY <1>3, <3>1, <3>3
    <3> QED BY <3>2, <3>3, <3>4 DEF At
  <2>2. ASSUME NEW o \in At(All, k) PROVE o \in of(k)
    <3>1. o \in All /\ k.scope \in ScopesOf(o) /\ Key(o, k.scope) = k
      BY DEF At
    <3>2. <<o, k.scope>> \in seeds
      BY <1>1, <3>1
    <3> DEFINE s == <<o, k.scope>>
    <3>3. s \in seeds /\ s[1] = o /\ Key(s[1], s[2]) = k
      BY <3>1, <3>2
    <3> HIDE DEF s
    <3> QED BY <3>3
  <2> QED BY <2>1, <2>2
<1>7. {With(k, Summary(of(k), minimum)) : k \in keys} = GroupsOf(All, minimum)
  <2> HIDE DEF of, keys
  <2>1. \A k : With(k, Summary(of(k), minimum)) = GroupAt(All, minimum, k)
    BY <1>6, Zenon DEF GroupAt
  <2> QED BY <1>5, <2>1 DEF GroupsOf
<1> QED BY <1>2, <1>7, Zenon

LEMMA KeysAreFinite ==
  ASSUME NEW All, IsFiniteSet(All)
  PROVE  IsFiniteSet(KeysOf(All))
<1> DEFINE T == {{Key(o, scope) : scope \in ScopesOf(o)} : o \in All}
           f == [o \in All |-> {Key(o, scope) : scope \in ScopesOf(o)}]
<1>1. ASSUME NEW o \in All PROVE IsFiniteSet({Key(o, scope) : scope \in ScopesOf(o)})
  <2> DEFINE h == [scope \in ScopesOf(o) |-> Key(o, scope)]
  <2>1. IsFiniteSet(ScopesOf(o))
    <3> DEFINE A == IF o.subtype # None THEN {"task_subtype"} ELSE {}
               B == IF o.pattern # None THEN {"prompt_pattern"} ELSE {}
    <3>1. IsFiniteSet(A) /\ IsFiniteSet(B) /\ IsFiniteSet({"task_type"})
      BY FS_Singleton, FS_EmptySet
    <3> HIDE DEF A, B
    <3>2. IsFiniteSet({"task_type"} \cup A \cup B)
      BY <3>1, FS_Union
    <3> QED BY <3>2 DEF ScopesOf, A, B
  <2>2. DOMAIN h = ScopesOf(o) /\ {h[scope] : scope \in ScopesOf(o)} = {Key(o, scope) : scope \in ScopesOf(o)}
    OBVIOUS
  <2> HIDE DEF h
  <2> QED BY <2>1, <2>2, ImageIsFinite
<1>2. DOMAIN f = All /\ {f[o] : o \in All} = T
  OBVIOUS
<1>3. \A A \in T : IsFiniteSet(A)
  BY <1>1
<1>4. IsFiniteSet(T)
  <2> HIDE DEF f, T
  <2> QED BY <1>2, ImageIsFinite
<1> HIDE DEF T
<1>5. IsFiniteSet(UNION T)
  BY <1>3, <1>4, FS_UNION
<1> QED BY <1>5 DEF T, KeysOf

(* What a group of a report tells of its observations.                     *)
Reports(g, All, minimum) ==
  /\ g = GroupAt(All, minimum, KeyOf(g)) /\ GroupOK(g)
  /\ At(All, KeyOf(g)) \in SUBSET All /\ At(All, KeyOf(g)) # {} /\ IsFiniteSet(At(All, KeyOf(g)))
  /\ KeyOf(g) = [scope |-> g.scope, type |-> g.type, source |-> g.source,
                 subtype |-> g.subtype, pattern |-> g.pattern]
  /\ Summarises(g, All, At(All, KeyOf(g)), minimum)

LEMMA GroupsReport ==
  ASSUME NEW All, IsFiniteSet(All), \A o \in All : Observable(o), NEW minimum,
         NEW g \in GroupsOf(All, minimum)
  PROVE  Reports(g, All, minimum)
<1>1. PICK k \in KeysOf(All) : g = GroupAt(All, minimum, k)
  BY DEF GroupsOf
<1>2. PICK o \in All : \E scope \in ScopesOf(o) : k = Key(o, scope)
  BY DEF KeysOf
<1>3. PICK scope \in ScopesOf(o) : k = Key(o, scope)
  BY <1>2
<1>4. /\ DOMAIN k = {"scope", "type", "source", "subtype", "pattern"}
      /\ k.scope = scope /\ k.type = o.type /\ k.source = o.source
      /\ k.subtype = IF scope = "task_type" THEN None ELSE o.subtype
      /\ k.pattern = IF scope = "prompt_pattern" THEN o.pattern ELSE None
      /\ k = [scope |-> k.scope, type |-> k.type, source |-> k.source,
              subtype |-> k.subtype, pattern |-> k.pattern]
  BY <1>3 DEF Key
<1>5. At(All, k) \in SUBSET All /\ o \in At(All, k)
  BY <1>3, <1>4 DEF At
<1>6. IsFiniteSet(At(All, k))
  BY <1>5, FS_Subset
<1>7. (\A f \in DOMAIN k : g[f] = k[f]) /\ Summarises(g, All, At(All, k), minimum)
  <2> DEFINE P == At(All, k)
  <2>1. DOMAIN k \subseteq {"scope", "type", "source", "subtype", "pattern"}
    BY <1>4
  <2>2. P \in SUBSET All /\ IsFiniteSet(P) /\ g = With(k, Summary(P, minimum))
    BY <1>1, <1>5, <1>6 DEF GroupAt
  <2> HIDE DEF P
  <2>3. (\A f \in DOMAIN k : g[f] = k[f]) /\ Summarises(g, All, P, minimum)
    <3>1. /\ \A f \in DOMAIN k : With(k, Summary(P, minimum))[f] = k[f]
          /\ Summarises(With(k, Summary(P, minimum)), All, P, minimum)
      BY <2>1, <2>2, WithSummary
    <3> QED BY <2>2, <3>1, Zenon
  <2> QED BY <2>3 DEF P
<1>8. /\ g.scope = k.scope /\ g.type = k.type /\ g.source = k.source
      /\ g.subtype = k.subtype /\ g.pattern = k.pattern
  BY <1>4, <1>7
<1>9. KeyOf(g) = k
  BY <1>4, <1>8 DEF KeyOf, Key
<1>10. GroupOK(g)
  <2>1. scope \in Scopes /\ (scope = "task_subtype" => o.subtype # None)
        /\ (scope = "prompt_pattern" => o.pattern # None)
    BY <1>3 DEF ScopesOf, Scopes
  <2>2. o.pattern # None => o.subtype # None
    BY DEF Observable, LabelsOK
  <2> QED BY <1>4, <1>8, <2>1, <2>2 DEF GroupOK, Scopes
<1> QED BY <1>1, <1>4, <1>5, <1>6, <1>7, <1>8, <1>9, <1>10 DEF Reports

(* Each group of a report, and no two with one key.                        *)
WellReported(groups, All, minimum) ==
  /\ \A i \in DOMAIN groups : Reports(groups[i], All, minimum)
  /\ \A i, j \in DOMAIN groups : i # j => KeyOf(groups[i]) # KeyOf(groups[j])

LEMMA ReportIsWell ==
  ASSUME NEW obs, IsFiniteSet(Range(obs)), \A o \in Range(obs) : Observable(o), NEW minimum
  PROVE  LET r == Aggregate(obs, minimum) IN
         /\ r.minimum = minimum
         /\ IsFiniteSet(DOMAIN r.groups) /\ DOMAIN r.groups \subseteq Nat
         /\ WellReported(r.groups, Range(obs), minimum)
<1> DEFINE All == Range(obs)
           G   == GroupsOf(All, minimum)
           r   == Aggregate(obs, minimum)
<1>1. r.minimum = minimum /\ r.groups = Listed(G)
  BY AggregateIs DEF Aggregate
<1>2. IsFiniteSet(G)
  <2> DEFINE K == KeysOf(All)
             f == [k \in K |-> GroupAt(All, minimum, k)]
  <2>1. G = {f[k] : k \in K} /\ DOMAIN f = K
    BY DEF GroupsOf
  <2>2. IsFiniteSet(K)
    BY KeysAreFinite
  <2> HIDE DEF f, G, K
  <2> QED BY <2>1, <2>2, ImageIsFinite
<1>3. Enumerates(r.groups, G)
  <2> HIDE DEF G, r
  <2> QED BY <1>1, <1>2, ListedEnumerates
<1> HIDE DEF r
<1>4. IsFiniteSet(DOMAIN r.groups) /\ DOMAIN r.groups \subseteq Nat
  <2>1. DOMAIN r.groups = 1..Len(r.groups) /\ Len(r.groups) \in Nat
    BY <1>3 DEF Enumerates
  <2>2. IsFiniteSet(1..Len(r.groups))
    BY <2>1, FS_Interval
  <2> QED BY <2>1, <2>2
<1>5. ASSUME NEW i \in DOMAIN r.groups PROVE Reports(r.groups[i], All, minimum)
  <2>1. r.groups[i] \in G
    <3> HIDE DEF G
    <3> QED BY <1>3 DEF Enumerates
  <2> QED BY <2>1, GroupsReport
<1>6. ASSUME NEW i \in DOMAIN r.groups, NEW j \in DOMAIN r.groups, i # j
      PROVE  KeyOf(r.groups[i]) # KeyOf(r.groups[j])
  <2>1. r.groups[i] # r.groups[j]
    BY <1>3, <1>6 DEF Enumerates
  <2>2. r.groups[i] = GroupAt(All, minimum, KeyOf(r.groups[i]))
        /\ r.groups[j] = GroupAt(All, minimum, KeyOf(r.groups[j]))
    BY <1>5 DEF Reports
  <2> QED BY <2>1, <2>2, Zenon
<1>7. WellReported(r.groups, All, minimum)
  BY <1>5, <1>6 DEF WellReported
<1> QED BY <1>1, <1>4, <1>7 DEF r

(* An observation of a child is one of its parent.                         *)
LEMMA ChildrenAreParents ==
  ASSUME NEW All, \A o \in All : Observable(o), NEW minimum,
         NEW child, Reports(child, All, minimum), NEW parent, Reports(parent, All, minimum),
         parent.scope # "prompt_pattern", child.scope = ChildScope(parent.scope),
         child.type = parent.type, child.source = parent.source,
         parent.scope # "task_type" => child.subtype = parent.subtype
  PROVE  At(All, KeyOf(child)) \subseteq At(All, KeyOf(parent))
<1> SUFFICES ASSUME NEW o \in At(All, KeyOf(child)) PROVE o \in At(All, KeyOf(parent))
  OBVIOUS
<1> DEFINE c == KeyOf(child)
           p == KeyOf(parent)
<1>1. /\ c.scope = child.scope /\ c.type = child.type /\ c.source = child.source
      /\ c.subtype = child.subtype
  BY DEF Reports
<1>2. p = [scope |-> parent.scope, type |-> parent.type, source |-> parent.source,
           subtype |-> parent.subtype, pattern |-> parent.pattern]
      /\ p.scope = parent.scope
  BY DEF Reports
<1>3. o \in All /\ child.scope \in ScopesOf(o) /\ Key(o, child.scope) = c /\ Observable(o)
  BY <1>1 DEF At
<1>4. /\ o.type = child.type /\ o.source = child.source
      /\ child.subtype = IF child.scope = "task_type" THEN None ELSE o.subtype
  BY <1>1, <1>3 DEF Key
<1>5. GroupOK(parent) /\ parent.pattern = None
  BY DEF Reports, GroupOK
<1>6. CASE parent.scope = "task_type"
  <2>1. parent.subtype = None
    BY <1>5, <1>6 DEF GroupOK
  <2>2. Key(o, "task_type") = p
    BY <1>2, <1>4, <1>5, <1>6, <2>1 DEF Key
  <2>3. "task_type" \in ScopesOf(o)
    BY DEF ScopesOf
  <2> QED BY <1>2, <1>3, <1>6, <2>2, <2>3 DEF At
<1>7. CASE parent.scope = "task_subtype"
  <2>1. child.scope = "prompt_pattern"
    BY <1>7 DEF ChildScope
  <2>2. o.pattern # None
    BY <1>3, <2>1 DEF ScopesOf
  <2>3. o.subtype # None
    BY <1>3, <2>2 DEF Observable, LabelsOK
  <2>4. "task_subtype" \in ScopesOf(o)
    BY <2>3 DEF ScopesOf
  <2>5. parent.subtype = o.subtype
    BY <1>4, <1>7, <2>1
  <2>6. Key(o, "task_subtype") = p
    BY <1>2, <1>4, <1>5, <1>7, <2>5 DEF Key
  <2> QED BY <1>2, <1>3, <1>7, <2>4, <2>6 DEF At
<1>8. parent.scope = "task_type" \/ parent.scope = "task_subtype"
  BY <1>5 DEF GroupOK, Scopes
<1> QED BY <1>6, <1>7, <1>8

(* What the children of a group leave of its totals is the totals of the   *)
(* observations that no child has.                                         *)
LEMMA GroupsRollUp ==
  ASSUME NEW All, IsFiniteSet(All), \A o \in All : Observable(o), NEW minimum,
         NEW r, IsFiniteSet(DOMAIN r.groups), WellReported(r.groups, All, minimum),
         NEW n \in DOMAIN r.groups
  PROVE  RollsUp(r, r.groups[n])
<1> DEFINE parent == r.groups[n]
           kids   == Children(r, parent)
           part   == [i \in kids |-> At(All, KeyOf(r.groups[i]))]
           shared == UNION {part[i] : i \in kids}
           own    == At(All, KeyOf(parent))
           rest   == own \ shared
           field(f) == [i \in kids |-> r.groups[i][f]]
<1>1. kids \subseteq DOMAIN r.groups /\ IsFiniteSet(kids)
  <2>1. kids \subseteq DOMAIN r.groups
    BY DEF Children
  <2> HIDE DEF kids
  <2> QED BY <2>1, FS_Subset
<1>2. Reports(parent, All, minimum) /\ \A i \in kids : Reports(r.groups[i], All, minimum)
  BY <1>1 DEF WellReported
<1>3. ASSUME NEW i \in kids
      PROVE  /\ parent.scope # "prompt_pattern"
             /\ r.groups[i].scope = ChildScope(parent.scope)
             /\ r.groups[i].type = parent.type /\ r.groups[i].source = parent.source
             /\ parent.scope # "task_type" => r.groups[i].subtype = parent.subtype
  BY DEF Children
<1> HIDE DEF kids
<1>4. ASSUME NEW i \in kids PROVE part[i] \subseteq own
  <2>1. part[i] = At(All, KeyOf(r.groups[i]))
    OBVIOUS
  <2> HIDE DEF part, parent
  <2> QED BY <1>2, <1>3, <2>1, ChildrenAreParents
<1>5. ASSUME NEW i \in kids
      PROVE  /\ part[i] \in SUBSET All /\ IsFiniteSet(part[i])
             /\ \A f \in Fields : r.groups[i][f] = TotalOf(Weigh(All, f), part[i])
  BY <1>2 DEF Reports, Summarises
<1>6. ASSUME NEW i \in kids, NEW j \in kids, i # j PROVE part[i] \cap part[j] = {}
  <2>1. KeyOf(r.groups[i]) # KeyOf(r.groups[j])
    BY <1>1, <1>6 DEF WellReported
  <2>2. KeyOf(r.groups[i]).scope = KeyOf(r.groups[j]).scope
    BY <1>3 DEF KeyOf, Key
  <2> QED BY <2>1, <2>2 DEF At
<1>7. /\ own \in SUBSET All /\ IsFiniteSet(own) /\ shared \subseteq own
      /\ \A f \in Fields : parent[f] = TotalOf(Weigh(All, f), own)
  BY <1>2, <1>4 DEF Reports, Summarises
<1> HIDE DEF part, own, parent
<1>8. /\ shared \in SUBSET All /\ IsFiniteSet(shared) /\ rest \in SUBSET All /\ IsFiniteSet(rest)
      /\ shared \cap rest = {} /\ shared \cup rest = own
  <2>1. shared \in SUBSET own /\ rest \in SUBSET own /\ shared \cap rest = {} /\ shared \cup rest = own
    BY <1>7
  <2> HIDE DEF shared, rest
  <2> QED BY <1>7, <2>1, FS_Subset
<1>9. ASSUME NEW f \in Fields
      PROVE  /\ FieldSum(r.groups, f, kids) = TotalOf(Weigh(All, f), shared)
             /\ parent[f] = TotalOf(Weigh(All, f), shared) + TotalOf(Weigh(All, f), rest)
             /\ TotalOf(Weigh(All, f), shared) \in Nat /\ TotalOf(Weigh(All, f), rest) \in Nat
  <2> DEFINE weight == Weigh(All, f)
             sums   == field(f)
  <2>1. \A P \in SUBSET All : Weighs(weight, P)
    BY WeighsAll
  <2>2. \A i \in kids : /\ IsFiniteSet(part[i]) /\ Weighs(weight, part[i])
                        /\ sums[i] = TotalOf(weight, part[i]) /\ sums[i] = r.groups[i][f]
    BY <1>5, <2>1
  <2> HIDE DEF weight, sums
  <2>3. TotalOf(sums, kids) = TotalOf(weight, shared)
    <3>1. \A i, j \in kids : i # j => part[i] \cap part[j] = {}
      BY <1>6
    <3>2. \A i \in kids : /\ IsFiniteSet(part[i]) /\ Weighs(weight, part[i])
                          /\ sums[i] = TotalOf(weight, part[i])
      BY <2>2
    <3> QED BY <1>1, <3>1, <3>2, TotalOfParts
  <2>4. Weighs(sums, kids)
    <3>1. \A i \in kids : sums[i] \in Nat
      BY <2>2, TotalIsNat
    <3> QED BY <3>1 DEF Weighs
  <2>5. FieldSum(r.groups, f, kids) = TotalOf(sums, kids)
    <3>1. \A i \in kids : sums[i] = r.groups[i][f]
      BY <2>2
    <3> QED BY <1>1, <2>4, <3>1, FieldTotal
  <2>6. /\ Weighs(weight, shared) /\ Weighs(weight, rest)
        /\ TotalOf(weight, shared) \in Nat /\ TotalOf(weight, rest) \in Nat
    <3> HIDE DEF shared, rest
    <3> QED BY <1>8, <2>1, TotalIsNat
  <2>7. TotalOf(weight, own) = TotalOf(weight, shared) + TotalOf(weight, rest)
    <3> HIDE DEF shared, rest
    <3> QED BY <1>8, <2>6, TotalOfBoth
  <2>8. parent[f] = TotalOf(weight, own)
    BY <1>7 DEF weight
  <2> HIDE DEF shared, rest
  <2> QED BY <2>3, <2>5, <2>6, <2>7, <2>8 DEF weight
<1> HIDE DEF shared, rest
<1>10. "count" \in Fields /\ \A m \in Metrics : m \in Fields
  BY DEF Fields
<1>11. TotalOf(Weigh(All, "count"), rest) = Cardinality(rest) /\ Cardinality(rest) \in Nat
  <2>1. \A o \in rest : Weigh(All, "count")[o] = 1
    <3> TAKE o \in rest
    <3>1. Weigh(All, "count")[o] = Adds(o, "count") /\ Observable(o)
      BY <1>8, <1>10, WeighsAll
    <3> QED BY <3>1, AddsRange
  <2> QED BY <1>8, <2>1, CountTotal, FS_CardinalityType
<1>12. parent.count - FieldSum(r.groups, "count", kids) = Cardinality(rest)
  <2> DEFINE a == FieldSum(r.groups, "count", kids)
             b == TotalOf(Weigh(All, "count"), shared)
             d == TotalOf(Weigh(All, "count"), rest)
  <2>1. a = b /\ parent.count = b + d /\ b \in Nat /\ d \in Nat /\ d = Cardinality(rest)
    BY <1>9, <1>10, <1>11
  <2> HIDE DEF a, b, d
  <2>2. parent.count - a = Cardinality(rest)
    BY <2>1
  <2> QED BY <2>2 DEF a
<1>13. ASSUME NEW m \in Metrics
       PROVE  parent[m] - FieldSum(r.groups, m, kids) \in 0..(Cardinality(rest) * Unit)
  <2> DEFINE a == FieldSum(r.groups, m, kids)
             b == TotalOf(Weigh(All, m), shared)
             d == TotalOf(Weigh(All, m), rest)
  <2>1. a = b /\ parent[m] = b + d /\ b \in Nat /\ d \in Nat
    BY <1>9, <1>10
  <2>2. d \in 0..(Cardinality(rest) * Unit)
    <3>1. Unit \in Nat
      BY CalibrationAssumption DEF Unit
    <3>2. \A o \in rest : Weigh(All, m)[o] \in 0..Unit
      <4> TAKE o \in rest
      <4>1. Weigh(All, m)[o] = Adds(o, m) /\ Observable(o)
        BY <1>8, <1>10, WeighsAll
      <4> QED BY <4>1, AddsRange
    <3> QED BY <1>8, <3>1, <3>2, TotalBound
  <2> HIDE DEF a, b, d
  <2>3. parent[m] - a = d
    BY <2>1
  <2>4. parent[m] - a \in 0..(Cardinality(rest) * Unit)
    BY <2>2, <2>3
  <2> QED BY <2>4 DEF a
<1>14. RollsUp(r, parent)
  <2> DEFINE sum(f) == FieldSum(r.groups, f, kids)
             others == parent.count - sum("count")
  <2>1. others = Cardinality(rest) /\ others >= 0
    <3>1. others = Cardinality(rest)
      BY <1>12
    <3> HIDE DEF others
    <3> QED BY <1>11, <3>1
  <2>2. \A m \in Metrics : parent[m] - sum(m) \in 0..(others * Unit)
    BY <1>13, <2>1, Zenon
  <2> QED BY <2>1, <2>2, Zenon DEF RollsUp, FieldSum, kids
<1> QED BY <1>14 DEF parent

(* Whatever valid observations are aggregated, the hierarchical report     *)
(* passes the schema that aggregateHierarchicalTaskCalibration and the     *)
(* drift guard parse it with.                                              *)
THEOREM ReportsPass ==
  ASSUME NEW obs, IsFiniteSet(Range(obs)), \A o \in Range(obs) : Observable(o), NEW minimum
  PROVE  /\ GuardedReportOK(Aggregate(obs, minimum))
         /\ DOMAIN Aggregate(obs, minimum).groups \subseteq Nat
<1> DEFINE All == Range(obs)
           r   == Aggregate(obs, minimum)
<1>1. /\ r.minimum = minimum /\ IsFiniteSet(DOMAIN r.groups) /\ DOMAIN r.groups \subseteq Nat
      /\ WellReported(r.groups, All, minimum)
  BY ReportIsWell
<1>2. IsFiniteSet(All) /\ \A o \in All : Observable(o)
  OBVIOUS
<1> HIDE DEF r, All
<1>3. ASSUME NEW i \in DOMAIN r.groups
      PROVE  /\ GroupOK(r.groups[i]) /\ SummaryOK(r.groups[i], minimum)
             /\ CanonicalAccuracy(r.groups[i]) /\ RollsUp(r, r.groups[i])
  <2>1. Reports(r.groups[i], All, minimum)
    BY <1>1 DEF WellReported
  <2>2. SummaryOK(r.groups[i], minimum) /\ CanonicalAccuracy(r.groups[i])
    BY <1>2, <2>1, SummaryFits DEF Reports
  <2>3. RollsUp(r, r.groups[i])
    BY <1>1, <1>2, GroupsRollUp
  <2> QED BY <2>1, <2>2, <2>3 DEF Reports
<1>4. \A i, j \in DOMAIN r.groups :
        i # j => Key(r.groups[i], r.groups[i].scope) # Key(r.groups[j], r.groups[j].scope)
  BY <1>1 DEF WellReported, KeyOf
<1>5. GuardedReportOK(r)
  BY <1>1, <1>3, <1>4 DEF GuardedReportOK, ReportOK
<1> QED BY <1>1, <1>5 DEF r

-----------------------------------------------------------------------------
(* Calibration: selections                                                 *)

(* A group as a report's schema has it.                                    *)
FitGroup(g, minimum) ==
  /\ GroupOK(g)
  /\ g.status = SampleStatus(g.count, minimum)
  /\ g.bias = g.conf - g.acc
  /\ CanonicalAccuracy(g)

(* What is found at a scope: nothing, or a group of the report.            *)
Found(at, q, scope, minimum) ==
  \/ at = <<>>
  \/ \E g : at = <<g>> /\ Matches(g, q, scope) /\ FitGroup(g, minimum)

(* The groups found for a question, one for each scope at most.            *)
Fitting(found, q, n, minimum) ==
  DOMAIN found = 1..n /\ \A i \in 1..n : Found(found[i], q, Order(q)[i], minimum)

LEMMA GroupsForAre ==
  ASSUME NEW r, DOMAIN r.groups \subseteq Nat, GuardedReportOK(r), NEW q, NEW scope,
         NEW found, found = GroupFor(r, q, scope)
  PROVE  Found(found, q, scope, r.minimum)
<1> DEFINE at == {i \in DOMAIN r.groups : Matches(r.groups[i], q, scope)}
<1>1. found = IF at = {} THEN <<>> ELSE <<r.groups[Min(at)]>>
  BY DEF GroupFor
<1>2. CASE at # {}
  <2>1. at \subseteq Nat
    OBVIOUS
  <2>2. Min(at) \in at
    <3> HIDE DEF at
    <3> QED BY <1>2, <2>1, LeastOf
  <2>3. Min(at) \in DOMAIN r.groups /\ Matches(r.groups[Min(at)], q, scope)
    BY <2>2, Zenon
  <2> HIDE DEF at
  <2>4. FitGroup(r.groups[Min(at)], r.minimum)
    BY <2>3 DEF GuardedReportOK, ReportOK, SummaryOK, FitGroup
  <2> QED BY <1>1, <1>2, <2>3, <2>4 DEF Found
<1> QED BY <1>1, <1>2 DEF Found

(* The scopes that are asked, from the requested one to the task type.     *)
LEMMA OrderIs ==
  ASSUME NEW q
  PROVE  \E n \in 1..3 : /\ DOMAIN Order(q) = 1..n /\ Len(Order(q)) = n
                         /\ \A i \in 1..n : Order(q)[i] = "task_type" <=> i = n
                         /\ FallbackOrder(RequestedScope(q)) = [i \in 1..n |-> Order(q)[i]]
<1>1. CASE RequestedScope(q) = "prompt_pattern"
  <2>1. Order(q) = <<"prompt_pattern", "task_subtype", "task_type">>
    BY <1>1 DEF Order, FallbackOrder
  <2>2. Order(q) = [i \in 1..3 |-> Order(q)[i]]
    BY <2>1
  <2>3. \A i \in 1..3 : i = 1 \/ i = 2 \/ i = 3
    OBVIOUS
  <2>4. DOMAIN Order(q) = 1..3 /\ Len(Order(q)) = 3
        /\ \A i \in 1..3 : Order(q)[i] = "task_type" <=> i = 3
    BY <2>1, <2>3
  <2>5. 3 \in 1..3
    OBVIOUS
  <2> QED BY <2>2, <2>4, <2>5, Zenon DEF Order
<1>2. CASE RequestedScope(q) = "task_subtype"
  <2>1. Order(q) = <<"task_subtype", "task_type">>
    BY <1>2 DEF Order, FallbackOrder
  <2>2. Order(q) = [i \in 1..2 |-> Order(q)[i]]
    BY <2>1
  <2>3. \A i \in 1..2 : i = 1 \/ i = 2
    OBVIOUS
  <2>4. DOMAIN Order(q) = 1..2 /\ Len(Order(q)) = 2
        /\ \A i \in 1..2 : Order(q)[i] = "task_type" <=> i = 2
    BY <2>1, <2>3
  <2>5. 2 \in 1..3
    OBVIOUS
  <2> QED BY <2>2, <2>4, <2>5, Zenon DEF Order
<1>3. CASE RequestedScope(q) = "task_type"
  <2>1. Order(q) = <<"task_type">>
    BY <1>3 DEF Order, FallbackOrder
  <2>2. Order(q) = [i \in 1..1 |-> Order(q)[i]]
    BY <2>1
  <2>3. \A i \in 1..1 : i = 1
    OBVIOUS
  <2>4. DOMAIN Order(q) = 1..1 /\ Len(Order(q)) = 1
        /\ \A i \in 1..1 : Order(q)[i] = "task_type" <=> i = 1
    BY <2>1, <2>3
  <2>5. 1 \in 1..3
    OBVIOUS
  <2> QED BY <2>2, <2>4, <2>5, Zenon DEF Order
<1> QED BY <1>1, <1>2, <1>3 DEF RequestedScope


LEMMA GroupsFit ==
  ASSUME NEW r, DOMAIN r.groups \subseteq Nat, GuardedReportOK(r), NEW q,
         NEW n \in Nat, DOMAIN Order(q) = 1..n
  PROVE  Fitting(GroupsFor(r, q), q, n, r.minimum)
<1>1. GroupsFor(r, q) = [i \in DOMAIN Order(q) |-> GroupFor(r, q, Order(q)[i])]
  BY DEF GroupsFor, Order
<1>2. ASSUME NEW i \in 1..n
      PROVE  Found(GroupsFor(r, q)[i], q, Order(q)[i], r.minimum)
  <2>1. GroupsFor(r, q)[i] = GroupFor(r, q, Order(q)[i])
    BY <1>1
  <2> QED BY <2>1, GroupsForAre
<1> QED BY <1>1, <1>2 DEF Fitting

(* The first of a list of candidates that is sufficient, 0 if there is none. *)
FirstFit(cs) ==
  LET at == {i \in DOMAIN cs : cs[i].status = "sufficient"} IN IF at = {} THEN 0 ELSE Min(at)

LEMMA SelectionOKIs ==
  ASSUME NEW s, NEW first, first = FirstFit(s.candidates),
         LabelsOK(s.query), CandidatesFollowQuery(s),
         \A i \in DOMAIN s.candidates :
           (s.candidates[i].status = "missing") = (s.candidates[i].count = <<>>),
         first = 0 => s.selected = None /\ s.group = <<>>,
         first # 0 => /\ s.selected = s.candidates[first].scope
                      /\ s.group # <<>> /\ GroupOK(s.group[1])
                      /\ Stands(s.group[1], s.candidates[first], s.query)
  PROVE  SelectionOK(s)
<1>1. first = FirstThat(s.candidates, LAMBDA c : c.status = "sufficient")
  BY Zenon DEF FirstFit, FirstThat
<1> QED BY <1>1, Zenon DEF SelectionOK

(* What a candidate shows of the group found for it.                       *)
Shows(c, at, q, scope, minimum) ==
  /\ c.scope = scope
  /\ (c.status = "missing") = (c.count = <<>>) /\ (c.status = "missing") = (at = <<>>)
  /\ c.status = "sufficient" <=> Sufficient(at)
  /\ c.status = IF c.count = <<>> THEN "missing" ELSE SampleStatus(c.count[1], minimum)
  /\ Sufficient(at) => at # <<>> /\ GroupOK(at[1]) /\ Stands(at[1], c, q)

LEMMA CandidateShows ==
  ASSUME NEW at, NEW q, NEW scope, NEW minimum, Found(at, q, scope, minimum)
  PROVE  Shows(Candidate(scope, at), at, q, scope, minimum)
<1>1. CASE at = <<>>
  BY <1>1 DEF Candidate, Sufficient, Shows
<1>2. CASE \E g : at = <<g>> /\ Matches(g, q, scope) /\ FitGroup(g, minimum)
  <2>1. PICK g : at = <<g>> /\ Matches(g, q, scope) /\ FitGroup(g, minimum)
    BY <1>2
  <2>2. at # <<>> /\ at[1] = g
    BY <2>1
  <2>3. g.status \in {"insufficient", "sufficient"} /\ g.status = SampleStatus(g.count, minimum)
    BY <2>1 DEF FitGroup, SampleStatus
  <2>4. /\ Candidate(scope, at).count = <<g.count>> /\ Candidate(scope, at).status = g.status
        /\ Candidate(scope, at).scope = scope
    BY <2>2 DEF Candidate
  <2>5. <<g.count>> # <<>> /\ <<g.count>>[1] = g.count
    OBVIOUS
  <2> QED BY <2>1, <2>2, <2>3, <2>4, <2>5 DEF Sufficient, Stands, FitGroup, Shows
<1> QED BY <1>1, <1>2 DEF Found

LEMMA FirstAgrees ==
  ASSUME NEW found, NEW cs, DOMAIN cs = DOMAIN found,
         \A i \in DOMAIN found : cs[i].status = "sufficient" <=> Sufficient(found[i])
  PROVE  FirstFit(cs) = FirstOf(found)
<1>1. {i \in DOMAIN cs : cs[i].status = "sufficient"} = {i \in DOMAIN found : Sufficient(found[i])}
  OBVIOUS
<1>2. {i \in DOMAIN found : Sufficient(found[i])} = {} <=> ~ \E i \in DOMAIN found : Sufficient(found[i])
  OBVIOUS
<1> QED BY <1>1, <1>2 DEF FirstFit, FirstOf

LEMMA FirstIs ==
  ASSUME NEW found, NEW n \in Nat, DOMAIN found = 1..n, FirstOf(found) # 0
  PROVE  FirstOf(found) \in 1..n /\ Sufficient(found[FirstOf(found)])
<1> DEFINE at == {i \in DOMAIN found : Sufficient(found[i])}
<1>1. at # {} /\ FirstOf(found) = Min(at)
  BY DEF FirstOf
<1>2. at \subseteq Nat
  OBVIOUS
<1>3. Min(at) \in at
  <2> HIDE DEF at
  <2> QED BY <1>1, <1>2, LeastOf
<1> QED BY <1>1, <1>3

(* Whatever is resolved from a valid report, for a valid question, passes  *)
(* the schema of selections and, with its report, that of decisions.       *)
THEOREM SelectionsPass ==
  ASSUME NEW r, DOMAIN r.groups \subseteq Nat, GuardedReportOK(r), NEW q, LabelsOK(q)
  PROVE  SelectionOK(Resolve(r, q)) /\ DecisionOK(r, Resolve(r, q))
<1> DEFINE s     == Resolve(r, q)
           found == GroupsFor(r, q)
           order == Order(q)
           first == FirstOf(found)
<1>1. PICK n \in 1..3 : /\ DOMAIN order = 1..n
                        /\ FallbackOrder(RequestedScope(q)) = [i \in 1..n |-> order[i]]
  BY OrderIs
<1>2. Fitting(found, q, n, r.minimum)
  <2>1. n \in Nat
    OBVIOUS
  <2> QED BY <1>1, <2>1, GroupsFit
<1>3. s = SelectionOf(q, found)
  BY ResolveIs
<1> HIDE DEF s, found, order, first
<1>4. /\ s.query = q /\ s.requested = RequestedScope(q)
      /\ s.selected = IF first = 0 THEN None ELSE order[first]
      /\ s.candidates = [i \in 1..n |-> Candidate(order[i], found[i])]
      /\ s.group = IF first = 0 THEN <<>> ELSE found[first]
  BY <1>1, <1>3 DEF SelectionOf, order, first
<1>5. DOMAIN s.candidates = 1..n /\ DOMAIN found = 1..n
      /\ \A i \in 1..n : s.candidates[i] = Candidate(order[i], found[i])
  BY <1>2, <1>4 DEF Fitting
<1>6. ASSUME NEW i \in 1..n
      PROVE  Shows(s.candidates[i], found[i], q, order[i], r.minimum)
  <2>1. Found(found[i], q, order[i], r.minimum)
    BY <1>2 DEF Fitting, order
  <2> QED BY <1>5, <2>1, CandidateShows
<1>7. first = FirstFit(s.candidates)
  BY <1>5, <1>6, FirstAgrees DEF first, Shows
<1>8. first # 0 => first \in 1..n /\ Sufficient(found[first])
  <2>1. n \in Nat
    OBVIOUS
  <2> QED BY <1>5, <2>1, FirstIs DEF first
<1>9. CandidatesFollowQuery(s)
  <2>1. [i \in DOMAIN s.candidates |-> s.candidates[i].scope] = [i \in 1..n |-> order[i]]
    BY <1>5, <1>6 DEF Shows
  <2> QED BY <1>1, <1>4, <2>1 DEF CandidatesFollowQuery
<1>10. \A i \in DOMAIN s.candidates :
         (s.candidates[i].status = "missing") = (s.candidates[i].count = <<>>)
  BY <1>5, <1>6, Zenon DEF Shows
<1>11. first = 0 => s.selected = None /\ s.group = <<>>
  BY <1>4
<1>12. first # 0 => /\ s.selected = s.candidates[first].scope
                    /\ s.group # <<>> /\ GroupOK(s.group[1])
                    /\ Stands(s.group[1], s.candidates[first], s.query)
  BY <1>4, <1>6, <1>8 DEF Shows
<1>13. SelectionOK(s)
  BY <1>4, <1>7, <1>9, <1>10, <1>11, <1>12, SelectionOKIs
<1>14. DecisionOK(r, s)
  <2>1. [i \in DOMAIN s.candidates |-> GroupFor(r, s.query, s.candidates[i].scope)] = found
    <3>1. found = [i \in 1..n |-> GroupFor(r, q, order[i])]
      BY <1>1 DEF found, GroupsFor, order, Order
    <3> QED BY <1>4, <1>5, <1>6, <3>1 DEF Shows
  <2>2. \A i \in DOMAIN s.candidates : s.candidates[i] = Candidate(s.candidates[i].scope, found[i])
    BY <1>5, <1>6 DEF Shows
  <2>3. s.group = IF FirstThat(found, Sufficient) = 0 THEN <<>>
                  ELSE found[FirstThat(found, Sufficient)]
    BY <1>4, FirstSufficient DEF first
  <2>4. ReportOK(r)
    BY DEF GuardedReportOK
  <2> QED BY <1>13, <2>1, <2>2, <2>3, <2>4, Zenon DEF DecisionOK
<1> QED BY <1>13, <1>14 DEF s

-----------------------------------------------------------------------------
(* Calibration: guarded selections                                         *)

(* The first of a list of candidates that may be selected, 0 if there is none. *)
FirstEligibleOf(cs) ==
  LET at == {i \in DOMAIN cs : Eligible(cs[i])} IN IF at = {} THEN 0 ELSE Min(at)

LEMMA GuardedSelectionOKIs ==
  ASSUME NEW s, NEW first, first = FirstEligibleOf(s.candidates),
         LabelsOK(s.query), CandidatesFollowQuery(s),
         \A i \in DOMAIN s.candidates :
           /\ GuardedCandidateOK(s.candidates[i])
           /\ s.candidates[i].status = IF s.candidates[i].count = <<>> THEN "missing"
                                       ELSE SampleStatus(s.candidates[i].count[1], s.minimum)
           /\ DriftOK(s, i),
         first = 0 => s.selected = None /\ s.group = <<>>,
         first # 0 => /\ s.selected = s.candidates[first].scope
                      /\ s.group # <<>> /\ GroupOK(s.group[1])
                      /\ Stands(s.group[1], s.candidates[first], s.query)
                      /\ \A f \in Metrics \cup {"bias"} :
                           s.group[1][f] = s.candidates[first].group[1][f]
  PROVE  GuardedSelectionOK(s)
<1>1. first = FirstThat(s.candidates, Eligible)
  BY Zenon DEF FirstEligibleOf, FirstThat
<1> QED BY <1>1, Zenon DEF GuardedSelectionOK

(* A guarded candidate shows what a candidate does, and its drift.         *)
GuardedShows(c, order, found, i, most) ==
  LET d == Drift(found, i, most) IN
  /\ c.scope = order[i]
  /\ c.count = Candidate(order[i], found[i]).count
  /\ c.status = Candidate(order[i], found[i]).status
  /\ c.group = found[i] /\ c.drift = d
  /\ c.parent = IF i = Len(order) THEN None ELSE order[i + 1]
  /\ c.delta = IF d \in {"quarantined", "within_threshold"}
               THEN <<Delta(found[i][1], found[i + 1][1])>> ELSE <<>>

LEMMA GuardedCandidateShows ==
  ASSUME NEW order, NEW found, NEW i, NEW most
  PROVE  GuardedShows(GuardedCandidate(order, found, i, most), order, found, i, most)
<1> DEFINE d == Drift(found, i, most)
           a == Candidate(order[i], found[i])
           e == IF i = Len(order) THEN None ELSE order[i + 1]
           x == IF d \in {"quarantined", "within_threshold"}
                THEN <<Delta(found[i][1], found[i + 1][1])>> ELSE <<>>
           b == [group |-> found[i], drift |-> d, parent |-> e, delta |-> x]
           c == GuardedCandidate(order, found, i, most)
<1>1. c = With(a, b)
  BY Zenon DEF GuardedCandidate
<1>2. DOMAIN a = {"scope", "count", "status"} /\ a.scope = order[i]
  BY DEF Candidate
<1>3. DOMAIN b = {"group", "drift", "parent", "delta"}
  OBVIOUS
<1>4. b.group = found[i] /\ b.drift = d /\ b.parent = e /\ b.delta = x
  OBVIOUS
<1> HIDE DEF a, b, c, d, e, x
<1>5. /\ c.scope = a.scope /\ c.count = a.count /\ c.status = a.status
      /\ c.group = b.group /\ c.drift = b.drift /\ c.parent = b.parent /\ c.delta = b.delta
  BY <1>1, <1>2, <1>3 DEF With
<1> QED BY <1>2, <1>4, <1>5 DEF a, c, d, e, x, GuardedShows

LEMMA GuardedCandidateFits ==
  ASSUME NEW order, NEW found, NEW i, NEW most, NEW q, NEW minimum,
         Found(found[i], q, order[i], minimum),
         NEW c, GuardedShows(c, order, found, i, most)
  PROVE  Shows(c, found[i], q, order[i], minimum) /\ GuardedCandidateOK(c)
<1>1. Shows(Candidate(order[i], found[i]), found[i], q, order[i], minimum)
  BY CandidateShows
<1>2. Shows(c, found[i], q, order[i], minimum)
  BY <1>1 DEF Shows, GuardedShows, Stands
<1>3. c.group = found[i]
  BY DEF GuardedShows
<1>4. c.group # <<>> => c.group[1].bias = c.group[1].conf - c.group[1].acc
                        /\ CanonicalAccuracy(c.group[1])
  BY <1>3 DEF Found, FitGroup
<1> QED BY <1>2, <1>3, <1>4 DEF Shows, GuardedCandidateOK

(* The drift of each candidate is what the schema computes from the        *)
(* candidates themselves.                                                  *)
LEMMA DriftAgrees ==
  ASSUME NEW s, NEW found, NEW order, NEW q, NEW n \in 1..3, NEW i \in 1..n,
         Len(s.candidates) = n, Len(found) = n, Len(order) = n,
         \A j \in 1..n : order[j] = "task_type" <=> j = n,
         \A j \in 1..n : Shows(s.candidates[j], found[j], q, order[j], s.minimum),
         \A j \in 1..n : GuardedShows(s.candidates[j], order, found, j, s.most)
  PROVE  DriftOK(s, i)
<1> DEFINE c == s.candidates[i]
           d == Drift(found, i, s.most)
<1>1. GuardedShows(c, order, found, i, s.most) /\ Shows(c, found[i], q, order[i], s.minimum)
  OBVIOUS
<1>2. CASE i = n
  <2>1. d = "not_applicable"
    BY <1>2 DEF Drift
  <2>2. c.scope = "task_type" /\ c.drift = d /\ c.delta = <<>> /\ c.parent = None
    BY <1>1, <1>2, <2>1 DEF GuardedShows
  <2> QED BY <2>1, <2>2 DEF DriftOK
<1>3. CASE i # n
  <2> DEFINE p == s.candidates[i + 1]
  <2>1. i + 1 \in 1..n /\ i < n
    BY <1>3
  <2>2. GuardedShows(p, order, found, i + 1, s.most)
        /\ Shows(p, found[i + 1], q, order[i + 1], s.minimum)
    BY <2>1
  <2>3. c.scope # "task_type" /\ c.parent = p.scope
    BY <1>1, <1>3, <2>2 DEF GuardedShows
  <2>4. /\ c.status = "sufficient" <=> Sufficient(found[i])
        /\ p.status = "sufficient" <=> Sufficient(found[i + 1])
    BY <1>1, <2>2 DEF Shows
  <2>5. /\ c.group = found[i] /\ p.group = found[i + 1] /\ c.drift = d
        /\ c.delta = IF d \in {"quarantined", "within_threshold"}
                     THEN <<Delta(found[i][1], found[i + 1][1])>> ELSE <<>>
    BY <1>1, <2>2 DEF GuardedShows
  <2>6. d = IF ~ Sufficient(found[i]) THEN "not_evaluated" ELSE
            IF ~ Sufficient(found[i + 1]) THEN "parent_unavailable" ELSE
            IF Exceeds(found[i][1], found[i + 1][1], s.most)
            THEN "quarantined" ELSE "within_threshold"
    BY <1>3 DEF Drift
  <2>7. Sufficient(found[i]) => found[i] # <<>>
    BY DEF Sufficient
  <2>8. Sufficient(found[i + 1]) => found[i + 1] # <<>>
    BY DEF Sufficient
  <2> HIDE DEF c, d, p
  <2>9. CASE ~ Sufficient(found[i])
    BY <2>1, <2>3, <2>4, <2>5, <2>6, <2>9 DEF DriftOK, c, p
  <2>10. CASE Sufficient(found[i]) /\ ~ Sufficient(found[i + 1])
    BY <2>1, <2>3, <2>4, <2>5, <2>6, <2>10 DEF DriftOK, c, p
  <2>11. CASE Sufficient(found[i]) /\ Sufficient(found[i + 1])
    BY <2>1, <2>3, <2>4, <2>5, <2>6, <2>7, <2>8, <2>11 DEF DriftOK, c, p
  <2> QED BY <2>9, <2>10, <2>11
<1> QED BY <1>2, <1>3

LEMMA FirstEligibleIs ==
  ASSUME NEW cs, NEW n \in Nat, DOMAIN cs = 1..n, FirstEligibleOf(cs) # 0
  PROVE  FirstEligibleOf(cs) \in 1..n /\ Eligible(cs[FirstEligibleOf(cs)])
<1> DEFINE at == {i \in DOMAIN cs : Eligible(cs[i])}
<1>1. at # {} /\ FirstEligibleOf(cs) = Min(at)
  BY DEF FirstEligibleOf
<1>2. at \subseteq Nat
  OBVIOUS
<1>3. Min(at) \in at
  <2> HIDE DEF at
  <2> QED BY <1>1, <1>2, LeastOf
<1> QED BY <1>1, <1>3

(* The guarded selection that the groups found for a question amount to.   *)
GuardedSelectionOf(r, q, most, found, cs) ==
  [query      |-> q,
   requested  |-> RequestedScope(q),
   minimum    |-> r.minimum,
   most       |-> most,
   selected   |-> IF FirstEligibleOf(cs) = 0 THEN None ELSE Order(q)[FirstEligibleOf(cs)],
   candidates |-> cs,
   group      |-> IF FirstEligibleOf(cs) = 0 THEN <<>> ELSE found[FirstEligibleOf(cs)]]

GuardedCandidates(q, found, most) ==
  [i \in DOMAIN Order(q) |-> GuardedCandidate(Order(q), found, i, most)]

LEMMA FirstEligible == \A cs : FirstThat(cs, Eligible) = FirstEligibleOf(cs)
BY DEF FirstThat, FirstEligibleOf

LEMMA GuardedResolveIs ==
  \A r, q, most :
    GuardedResolve(r, q, most) =
      GuardedSelectionOf(r, q, most, GroupsFor(r, q), GuardedCandidates(q, GroupsFor(r, q), most))
BY FirstEligible DEF GuardedResolve, GuardedSelectionOf, GuardedCandidates, Order

(* Whatever the drift guard selects from a valid report, for a valid       *)
(* question and any threshold, passes the schemas of guarded selections    *)
(* and decisions.                                                          *)
THEOREM GuardedSelectionsPass ==
  ASSUME NEW r, DOMAIN r.groups \subseteq Nat, GuardedReportOK(r), NEW q, LabelsOK(q), NEW most
  PROVE  /\ GuardedSelectionOK(GuardedResolve(r, q, most))
         /\ GuardedDecisionOK(r, GuardedResolve(r, q, most))
<1> DEFINE s     == GuardedResolve(r, q, most)
           found == GroupsFor(r, q)
           order == Order(q)
           cs    == GuardedCandidates(q, found, most)
           first == FirstEligibleOf(cs)
<1>1. PICK n \in 1..3 : /\ DOMAIN order = 1..n /\ Len(order) = n
                        /\ \A i \in 1..n : order[i] = "task_type" <=> i = n
                        /\ FallbackOrder(RequestedScope(q)) = [i \in 1..n |-> order[i]]
  BY OrderIs
<1>2. Fitting(found, q, n, r.minimum)
  <2>1. n \in Nat
    OBVIOUS
  <2> QED BY <1>1, <2>1, GroupsFit
<1>3. Len(found) = n /\ Len(cs) = n /\ DOMAIN cs = 1..n
  <2>1. found = [i \in 1..n |-> GroupFor(r, q, order[i])]
    BY <1>1 DEF GroupsFor, Order
  <2>2. cs = [i \in 1..n |-> GuardedCandidate(order, found, i, most)]
    BY <1>1 DEF GuardedCandidates
  <2> HIDE DEF cs, found, order
  <2> QED BY <2>1, <2>2
<1>4. s = GuardedSelectionOf(r, q, most, found, cs)
  BY GuardedResolveIs
<1>5. ASSUME NEW i \in 1..n
      PROVE  cs[i] = GuardedCandidate(order, found, i, most)
  BY <1>1 DEF GuardedCandidates
<1> HIDE DEF s, found, order, cs, first
<1>6. /\ s.query = q /\ s.requested = RequestedScope(q) /\ s.minimum = r.minimum
      /\ s.most = most /\ s.candidates = cs
      /\ s.selected = IF first = 0 THEN None ELSE order[first]
      /\ s.group = IF first = 0 THEN <<>> ELSE found[first]
  BY <1>4 DEF GuardedSelectionOf, order, first
<1>7. ASSUME NEW i \in 1..n
      PROVE  /\ GuardedShows(cs[i], order, found, i, most)
             /\ Shows(cs[i], found[i], q, order[i], r.minimum)
             /\ GuardedCandidateOK(cs[i])
  <2>1. Found(found[i], q, order[i], r.minimum)
    BY <1>2 DEF Fitting, order
  <2>2. GuardedShows(cs[i], order, found, i, most)
    BY <1>5, GuardedCandidateShows
  <2> QED BY <2>1, <2>2, GuardedCandidateFits
<1>8. first # 0 => first \in 1..n /\ Eligible(cs[first])
  <2>1. n \in Nat
    OBVIOUS
  <2> QED BY <1>3, <2>1, FirstEligibleIs DEF first
<1>9. CandidatesFollowQuery(s)
  <2>1. [i \in DOMAIN s.candidates |-> s.candidates[i].scope] = [i \in 1..n |-> order[i]]
    BY <1>3, <1>6, <1>7 DEF Shows
  <2> QED BY <1>1, <1>6, <2>1 DEF CandidatesFollowQuery
<1>10. ASSUME NEW i \in 1..n PROVE DriftOK(s, i)
  BY <1>1, <1>3, <1>6, <1>7, DriftAgrees
<1>11. \A i \in DOMAIN s.candidates :
         /\ GuardedCandidateOK(s.candidates[i])
         /\ s.candidates[i].status = IF s.candidates[i].count = <<>> THEN "missing"
                                     ELSE SampleStatus(s.candidates[i].count[1], s.minimum)
         /\ DriftOK(s, i)
  BY <1>3, <1>6, <1>7, <1>10 DEF Shows
<1>12. first # 0 => /\ s.selected = s.candidates[first].scope
                    /\ s.group # <<>> /\ GroupOK(s.group[1])
                    /\ Stands(s.group[1], s.candidates[first], s.query)
                    /\ s.group = s.candidates[first].group
  BY <1>6, <1>7, <1>8 DEF Shows, GuardedShows, Eligible
<1>13. GuardedSelectionOK(s)
  <2>1. first = FirstEligibleOf(s.candidates)
    BY <1>6 DEF first
  <2>2. first = 0 => s.selected = None /\ s.group = <<>>
    BY <1>6
  <2> QED BY <1>6, <1>9, <1>11, <1>12, <2>1, <2>2, GuardedSelectionOKIs
<1>14. GuardedDecisionOK(r, s)
  BY <1>6, <1>13, Zenon DEF GuardedDecisionOK, s
<1> QED BY <1>13, <1>14 DEF s

(* The observations of a run, and its questions, are valid.                *)
LEMMA KindsAre ==
  \A j \in DOMAIN Kinds : Kinds[j] \in LabelKinds \X Outcomes
<1> DEFINE U == LabelKinds \X Outcomes
<1>1. IsFiniteSet(LabelKinds)
  <2> DEFINE a == Labels("t", None, None, "a")
             b == Labels("t", "s", None, "a")
             c == Labels("t", "s", "p", "a")
             d == Labels("t", "u", "p", "a")
             e == Labels("t", None, None, "b")
  <2>1. LabelKinds = {a, b, c, d, e}
    BY DEF LabelKinds
  <2> HIDE DEF a, b, c, d, e
  <2>2. IsFiniteSet({a})
    BY FS_Singleton
  <2>3. IsFiniteSet({a} \cup {b})
    BY <2>2, FS_AddElement
  <2>4. IsFiniteSet(({a} \cup {b}) \cup {c})
    BY <2>3, FS_AddElement
  <2>5. IsFiniteSet((({a} \cup {b}) \cup {c}) \cup {d})
    BY <2>4, FS_AddElement
  <2>6. IsFiniteSet(((({a} \cup {b}) \cup {c}) \cup {d}) \cup {e})
    BY <2>5, FS_AddElement
  <2>7. LabelKinds = ((({a} \cup {b}) \cup {c}) \cup {d}) \cup {e}
    BY <2>1
  <2> QED BY <2>6, <2>7
<1>2. IsFiniteSet(Outcomes)
  <2> DEFINE a == <<0, FALSE>>
             b == <<1, TRUE>>
             c == <<ConfidenceSteps, TRUE>>
             d == <<ConfidenceSteps, FALSE>>
  <2>1. Outcomes = {a, b, c, d}
    BY DEF Outcomes
  <2> HIDE DEF a, b, c, d
  <2>2. IsFiniteSet({a})
    BY FS_Singleton
  <2>3. IsFiniteSet({a} \cup {b})
    BY <2>2, FS_AddElement
  <2>4. IsFiniteSet(({a} \cup {b}) \cup {c})
    BY <2>3, FS_AddElement
  <2>5. IsFiniteSet((({a} \cup {b}) \cup {c}) \cup {d})
    BY <2>4, FS_AddElement
  <2>6. Outcomes = (({a} \cup {b}) \cup {c}) \cup {d}
    BY <2>1
  <2> QED BY <2>5, <2>6
<1>3. IsFiniteSet(U)
  BY <1>1, <1>2, FS_Product
<1>4. Enumerates(Kinds, U)
  <2> HIDE DEF U
  <2>1. Enumerates(Listed(U), U)
    BY <1>3, ListedEnumerates
  <2> QED BY <2>1 DEF Kinds, U
<1> HIDE DEF U
<1>5. \A j \in DOMAIN Kinds : Kinds[j] \in U
  BY <1>4 DEF Enumerates
<1> QED BY <1>5 DEF U

LEMMA RunObservations ==
  ASSUME NEW i \in CalibrationInputs
  PROVE  IsFiniteSet(Range(i.obs)) /\ \A o \in Range(i.obs) : Observable(o)
<1>1. PICK n \in 0..MostObservations : \E s \in Ordered(n) : i.obs = Observations(s)
  BY DEF CalibrationInputs
<1>0. PICK s \in Ordered(n) : i.obs = Observations(s)
  BY <1>1
<1>2. n \in Nat /\ DOMAIN s = 1..n /\ DOMAIN i.obs = 1..n /\ \A j \in 1..n : s[j] \in DOMAIN Kinds
  BY <1>0 DEF Ordered, Observations, MostObservations
<1>3. IsFiniteSet(Range(i.obs))
  <2>0. 1 \in Int /\ n \in Int
    BY <1>2
  <2>1. IsFiniteSet(1..n)
    BY <2>0, FS_Interval, Zenon
  <2>2. Range(i.obs) = {i.obs[j] : j \in 1..n}
    BY <1>2 DEF Range
  <2> QED BY <1>2, <2>1, <2>2, ImageIsFinite
<1>4. ASSUME NEW j \in 1..n PROVE Observable(i.obs[j])
  <2> DEFINE k == Kinds[s[j]][1]
             e == [id |-> j, confidence |-> Kinds[s[j]][2][1], correct |-> Kinds[s[j]][2][2]]
             o == i.obs[j]
  <2>1. Kinds[s[j]] \in LabelKinds \X Outcomes
    BY <1>2, KindsAre
  <2>2. k \in LabelKinds /\ e.confidence \in {0, 1, ConfidenceSteps} /\ e.correct \in BOOLEAN
        /\ DOMAIN e = {"id", "confidence", "correct"}
    <3> DEFINE x == Kinds[s[j]]
    <3>1. x[1] \in LabelKinds /\ x[2] \in Outcomes
      BY <2>1
    <3> HIDE DEF x
    <3>2. x[2][1] \in {0, 1, ConfidenceSteps} /\ x[2][2] \in BOOLEAN
      <4> DEFINE y == x[2]
      <4>1. \/ y = <<0, FALSE>> \/ y = <<1, TRUE>>
            \/ y = <<ConfidenceSteps, TRUE>> \/ y = <<ConfidenceSteps, FALSE>>
        BY <3>1 DEF Outcomes
      <4> HIDE DEF y
      <4>2. y = <<0, FALSE>> => y[1] = 0 /\ y[2] \in BOOLEAN
        OBVIOUS
      <4>3. y = <<1, TRUE>> => y[1] = 1 /\ y[2] \in BOOLEAN
        OBVIOUS
      <4>4. y = <<ConfidenceSteps, TRUE>> => y[1] = ConfidenceSteps /\ y[2] \in BOOLEAN
        OBVIOUS
      <4>5. y = <<ConfidenceSteps, FALSE>> => y[1] = ConfidenceSteps /\ y[2] \in BOOLEAN
        OBVIOUS
      <4>6. y[1] \in {0, 1, ConfidenceSteps} /\ y[2] \in BOOLEAN
        BY <4>1, <4>2, <4>3, <4>4, <4>5, Zenon
      <4> QED BY <4>6 DEF y
    <3>3. e.confidence = x[2][1] /\ e.correct = x[2][2] /\ DOMAIN e = {"id", "confidence", "correct"}
      BY DEF x
    <3> QED BY <3>1, <3>2, <3>3 DEF x
  <2>3. o = With(k, e)
    BY <1>0, <1>2 DEF Observations
  <2> HIDE DEF k, e, o
  <2>4. DOMAIN k = {"type", "subtype", "pattern", "source"} /\ LabelsOK(k)
    BY <2>2, LabelsAssumption DEF LabelKinds, Labels, LabelsOK
  <2>5. /\ o.confidence = e.confidence /\ o.correct = e.correct
        /\ o.subtype = k.subtype /\ o.pattern = k.pattern
    BY <2>2, <2>3, <2>4 DEF With
  <2>6. e.confidence \in 0..ConfidenceSteps
    BY <2>2, CalibrationAssumption
  <2>7. Observable(o)
    BY <2>2, <2>4, <2>5, <2>6 DEF Observable, LabelsOK
  <2> QED BY <2>7 DEF o
<1> QED BY <1>2, <1>3, <1>4 DEF Range

LEMMA RunQuestions == \A q \in Queries : LabelsOK(q)
BY LabelsAssumption DEF Queries, LabelKinds, Labels, LabelsOK

(* Valid observations never make a producer of a run throw.                *)
THEOREM ProducersPassTheirSchemasCorrect == Spec => []ProducersPassTheirSchemas
<1>1. DecisionInv => ProducersPassTheirSchemas
  <2> SUFFICES ASSUME DecisionInv, Calibrated PROVE ProducersPassTheirSchemas
    BY DEF ProducersPassTheirSchemas
  <2>1. /\ input \in CalibrationInputs
        /\ result = [flat   |-> FlatAggregate(input.obs, input.minimum),
                     report |-> Aggregate(input.obs, input.minimum)]
    BY DEF DecisionInv, CalibrationInv, Calibrated
  <2> DEFINE obs == input.obs
             least == input.minimum
             r     == result.report
  <2>2. IsFiniteSet(Range(obs)) /\ \A o \in Range(obs) : Observable(o)
    BY <2>1, RunObservations
  <2>3. result.flat = FlatAggregate(obs, least) /\ r = Aggregate(obs, least)
    BY <2>1
  <2> HIDE DEF obs, least, r
  <2>4. FlatReportOK(result.flat)
    BY <2>2, <2>3, FlatReportsPass
  <2>5. GuardedReportOK(r) /\ DOMAIN r.groups \subseteq Nat
    BY <2>2, <2>3, ReportsPass
  <2>6. ASSUME NEW q \in Queries
        PROVE  SelectionOK(Resolve(r, q)) /\ DecisionOK(r, Resolve(r, q))
    BY <2>5, RunQuestions, SelectionsPass
  <2>7. ASSUME NEW q \in Queries, NEW most \in Thresholds
        PROVE  /\ GuardedSelectionOK(GuardedResolve(r, q, most))
               /\ GuardedDecisionOK(r, GuardedResolve(r, q, most))
    BY <2>5, RunQuestions, GuardedSelectionsPass
  <2> QED BY <2>4, <2>5, <2>6, <2>7, Zenon DEF ProducersPassTheirSchemas, r
<1> QED BY <1>1, DecisionInvariant, PTL

-----------------------------------------------------------------------------
(* Ensemble quality: order                                                 *)

(* How many of a finite set have a key up to that of x.                    *)
Rank(U, key, x) == Cardinality({y \in U : key[y] <= key[x]})

Keyed(U, key) ==
  IsFiniteSet(U) /\ (\A x \in U : key[x] \in Nat) /\ \A x, y \in U : x # y => key[x] # key[y]

LEMMA RanksAre ==
  ASSUME NEW U, NEW key, Keyed(U, key)
  PROVE  /\ Cardinality(U) \in Nat
         /\ \A x \in U : Rank(U, key, x) \in 1..Cardinality(U)
         /\ \A x, y \in U : x # y => Rank(U, key, x) # Rank(U, key, y)
         /\ \A i \in 1..Cardinality(U) : \E x \in U : Rank(U, key, x) = i
<1> DEFINE n == Cardinality(U)
           upto(x) == {y \in U : key[y] <= key[x]}
<1>1. n \in Nat
  BY FS_CardinalityType DEF Keyed
<1>2. \A x \in U : upto(x) \in SUBSET U /\ x \in upto(x)
  BY DEF Keyed
<1>3. \A x \in U : Rank(U, key, x) = Cardinality(upto(x))
  BY DEF Rank
<1>4. ASSUME NEW x \in U, NEW y \in U, key[x] < key[y]
      PROVE  upto(x) \subseteq upto(y) /\ y \notin upto(x) /\ y \in upto(y)
  BY <1>4 DEF Keyed
<1> HIDE DEF upto
<1>5. ASSUME NEW x \in U
      PROVE  IsFiniteSet(upto(x)) /\ Cardinality(upto(x)) \in 1..n
  <2>1. IsFiniteSet(upto(x)) /\ Cardinality(upto(x)) <= n
    BY <1>2, FS_Subset DEF Keyed
  <2>2. Cardinality(upto(x)) \in Nat /\ Cardinality(upto(x)) # 0
    BY <1>2, <2>1, FS_CardinalityType, FS_EmptySet
  <2> QED BY <1>1, <2>1, <2>2
<1>6. ASSUME NEW x \in U, NEW y \in U, key[x] < key[y] PROVE Rank(U, key, x) # Rank(U, key, y)
  <2>1. upto(x) \in SUBSET upto(y) /\ upto(x) # upto(y) /\ IsFiniteSet(upto(y))
    BY <1>4, <1>5, <1>6
  <2>2. Cardinality(upto(x)) # Cardinality(upto(y))
    BY <2>1, FS_Subset
  <2> QED BY <1>3, <2>2
<1>7. \A x, y \in U : x # y => Rank(U, key, x) # Rank(U, key, y)
  <2> SUFFICES ASSUME NEW x \in U, NEW y \in U, x # y PROVE Rank(U, key, x) # Rank(U, key, y)
    OBVIOUS
  <2>1. key[x] < key[y] \/ key[y] < key[x]
    BY DEF Keyed
  <2> QED BY <1>6, <2>1
<1>8. \A x \in U : Rank(U, key, x) \in 1..n
  BY <1>3, <1>5
<1> DEFINE f == [x \in U |-> Rank(U, key, x)]
           I == 1..n
<1>9. f \in [U -> I] /\ \A x, y \in U : f[x] = f[y] => x = y
  BY <1>7, <1>8
<1>10. IsFiniteSet(I) /\ Cardinality(I) = n
  BY <1>1, FS_Interval
<1>11. \A i \in I : \E x \in U : f[x] = i
  <2> HIDE DEF f, I
  <2>1. f \in Injection(U, I)
    BY <1>9, Zenon DEF Injection, IsInjective
  <2>2. f \in Surjection(U, I)
    BY <1>10, <2>1, FS_Injection
  <2> QED BY <2>2, Zenon DEF Surjection
<1> QED BY <1>1, <1>7, <1>8, <1>11

LEMMA QualityCardinality == \A T : Q!Cardinality(T) = Cardinality(T)
BY DEF Q!Cardinality, Cardinality, Q!IsFiniteSet, IsFiniteSet

(* The observations by identifier are the observations.                    *)
LEMMA OrderedAre ==
  ASSUME NEW obs, NEW n \in Nat, DOMAIN obs = 1..n,
         \A i \in 1..n : obs[i].id \in Nat,
         \A i, j \in 1..n : i # j => obs[i].id # obs[j].id
  PROVE  /\ DOMAIN Q!ById(obs) = 1..n
         /\ \A i \in 1..n : \E j \in 1..n : Q!ById(obs)[i] = obs[j]
<1> DEFINE U == {obs[i] : i \in 1..n}
           key == [o \in U |-> o.id]
           by(i) == CHOOSE o \in U : Q!Cardinality({p \in U : p.id <= o.id}) = i
<1>1. IsFiniteSet(1..n) /\ Cardinality(1..n) = n
  BY FS_Interval
<1>2. IsFiniteSet(U) /\ Cardinality(U) = n
  <2> DEFINE I == 1..n
  <2>1. IsFiniteSet(I) /\ Cardinality(I) = n
    BY <1>1
  <2> DEFINE g == [i \in I |-> obs[i]]
  <2>3. g \in [I -> U] /\ (\A x \in U : \E i \in I : g[i] = x)
    OBVIOUS
  <2>4. \A i, j \in I : g[i] = g[j] => i = j
    OBVIOUS
  <2> HIDE DEF g, I, U
  <2>5. g \in Surjection(I, U) /\ g \in Injection(I, U)
    BY <2>3, <2>4, Zenon DEF Surjection, Injection, IsInjective
  <2> QED BY <2>1, <2>5, FS_Surjection
<1>3. Keyed(U, key)
  <2>1. \A x \in U : key[x] \in Nat
    OBVIOUS
  <2>2. \A x, y \in U : x # y => key[x] # key[y]
    OBVIOUS
  <2> HIDE DEF U, key
  <2> QED BY <1>2, <2>1, <2>2 DEF Keyed
<1>4. Range(obs) = U /\ Q!Range(obs) = U
  BY DEF Range, Q!Range
<1>5. Q!ById(obs) = [i \in 1..n |-> by(i)]
  <2>1. Q!ById(obs) = [i \in DOMAIN obs |->
          CHOOSE o \in Q!Range(obs) : Q!Cardinality({p \in Q!Range(obs) : p.id <= o.id}) = i]
    BY Zenon DEF Q!ById
  <2>2. Q!Range(obs) = U
    BY <1>4
  <2> HIDE DEF U
  <2> QED BY <2>1, <2>2, Zenon
<1>6. ASSUME NEW x \in U PROVE {p \in U : p.id <= x.id} = {p \in U : key[p] <= key[x]}
  OBVIOUS
<1>7. ASSUME NEW i \in 1..n PROVE by(i) \in U
  <2> HIDE DEF U, key
  <2>1. \E x \in U : Rank(U, key, x) = i
    BY <1>2, <1>3, RanksAre
  <2>2. PICK x \in U : Rank(U, key, x) = i
    BY <2>1
  <2>3. Q!Cardinality({p \in U : p.id <= x.id}) = i
    BY <1>6, <2>2, QualityCardinality DEF Rank
  <2> QED BY <2>3
<1>8. \A i \in 1..n : Q!ById(obs)[i] \in U
  BY <1>5, <1>7
<1> QED BY <1>5, <1>8

(* The sorted panel lists the panel, each source once.                     *)
LEMMA PanelIsSorted ==
  ASSUME NEW o, NEW P, Q!Panel(o) = P, IsFiniteSet(P), P \subseteq Nat
  PROVE  /\ DOMAIN Q!SortedPanel(o) = 1..Cardinality(P)
         /\ Q!SortedPanel(o) \in Seq(P) /\ Len(Q!SortedPanel(o)) = Cardinality(P)
         /\ Range(Q!SortedPanel(o)) = P
<1> DEFINE key == [s \in P |-> s]
           n   == Cardinality(P)
           at(i) == CHOOSE s \in P : Q!Cardinality({t \in P : t <= s}) = i
           list == Q!SortedPanel(o)
<1>1. Keyed(P, key) /\ n \in Nat
  BY FS_CardinalityType DEF Keyed
<1>2. list = [i \in 1..n |-> at(i)]
  <2>1. list = [i \in 1..Q!Cardinality(Q!Panel(o)) |->
          CHOOSE s \in Q!Panel(o) : Q!Cardinality({t \in Q!Panel(o) : t <= s}) = i]
    BY Zenon DEF Q!SortedPanel
  <2>2. Q!Cardinality(P) = n
    BY QualityCardinality
  <2> QED BY <2>1, <2>2, Zenon
<1>3. ASSUME NEW s \in P PROVE Rank(P, key, s) = Q!Cardinality({t \in P : t <= s})
  <2>1. {t \in P : t <= s} = {t \in P : key[t] <= key[s]}
    OBVIOUS
  <2> HIDE DEF key
  <2> QED BY <2>1, QualityCardinality DEF Rank
<1> HIDE DEF key
<1>4. ASSUME NEW i \in 1..n PROVE at(i) \in P /\ Rank(P, key, at(i)) = i
  <2>1. PICK s \in P : Rank(P, key, s) = i
    BY <1>1, RanksAre
  <2>2. at(i) \in P /\ Q!Cardinality({t \in P : t <= at(i)}) = i
    BY <1>3, <2>1
  <2> HIDE DEF at
  <2> QED BY <1>3, <2>2
<1> HIDE DEF at, list
<1>5. DOMAIN list = 1..n /\ \A i \in 1..n : list[i] \in P /\ Rank(P, key, list[i]) = i
  BY <1>2, <1>4
<1>6. list \in Seq(P) /\ Len(list) = n
  <2>1. \A i \in 1..n : at(i) \in P
    BY <1>4
  <2>2. list \in [1..n -> P]
    BY <1>2, <2>1
  <2>3. list = [i \in 1..n |-> list[i]]
    BY <2>2
  <2>4. [i \in 1..n |-> list[i]] \in Seq(P) /\ Len([i \in 1..n |-> list[i]]) = n
    BY <1>1, <1>5
  <2> QED BY <2>3, <2>4
<1>7. ASSUME NEW s \in P PROVE \E i \in 1..n : list[i] = s
  <2>1. Rank(P, key, s) \in 1..n
    BY <1>1, RanksAre
  <2>2. Rank(P, key, list[Rank(P, key, s)]) = Rank(P, key, s) /\ list[Rank(P, key, s)] \in P
    BY <1>5, <2>1
  <2>3. list[Rank(P, key, s)] = s
    BY <1>1, <2>2, RanksAre
  <2> QED BY <2>1, <2>3
<1>8. Range(list) = P
  BY <1>5, <1>7 DEF Range
<1> QED BY <1>5, <1>6, <1>8 DEF list

-----------------------------------------------------------------------------
(* Ensemble quality: counts                                                *)

(* An observation of the panel P, as the input schema has it.              *)
Measurable(o, P) ==
  /\ Q!Panel(o) = P
  /\ o.selected \in P \cup {None}
  /\ o.at \in Nat
  /\ \A s \in P : /\ o.candidates[s].correct \in BOOLEAN
                  /\ IsFiniteSet(o.candidates[s].evidence)
                  /\ o.candidates[s].conclusion # None

Measurables(q, n, P) ==
  DOMAIN q = 1..n /\ Len(q) = n /\ \A i \in 1..n : Measurable(q[i], P)

(* The observations that a source got right, and those it got wrong.       *)
Right(q, s) == {i \in DOMAIN q : q[i].candidates[s].correct}
Wrong(q, s) == DOMAIN q \ Right(q, s)

LEMMA CountsAre ==
  ASSUME NEW n \in Nat
  PROVE  \A A \in SUBSET (1..n) : /\ IsFiniteSet(A) /\ Cardinality(A) \in 0..n
                                  /\ Cardinality((1..n) \ A) = n - Cardinality(A)
                                  /\ \A B \in SUBSET A : Cardinality(B) <= Cardinality(A)
<1>1. IsFiniteSet(1..n) /\ Cardinality(1..n) = n
  BY FS_Interval
<1> SUFFICES ASSUME NEW A \in SUBSET (1..n)
             PROVE  /\ IsFiniteSet(A) /\ Cardinality(A) \in 0..n
                    /\ Cardinality((1..n) \ A) = n - Cardinality(A)
                    /\ \A B \in SUBSET A : Cardinality(B) <= Cardinality(A)
  OBVIOUS
<1>2. IsFiniteSet(A) /\ Cardinality(A) <= n
  BY <1>1, FS_Subset
<1>3. Cardinality(A) \in Nat
  BY <1>2, FS_CardinalityType
<1>4. Cardinality((1..n) \ A) = n - Cardinality((1..n) \cap A) /\ (1..n) \cap A = A
  BY <1>1, FS_Difference
<1>5. \A B \in SUBSET A : Cardinality(B) <= Cardinality(A)
  BY <1>2, FS_Subset
<1> QED BY <1>2, <1>3, <1>4, <1>5

(* A finite set is split by another.                                       *)
LEMMA SplitBy ==
  ASSUME NEW A, IsFiniteSet(A), NEW B
  PROVE  Cardinality(A \cap B) + Cardinality(A \ B) = Cardinality(A)
<1>1. Cardinality(A \ B) = Cardinality(A) - Cardinality(A \cap B)
  BY FS_Difference
<1>2. Cardinality(A) \in Nat /\ IsFiniteSet(A \cap B)
  BY FS_CardinalityType, FS_Intersection
<1>3. Cardinality(A \cap B) \in Nat
  BY <1>2, FS_CardinalityType
<1> QED BY <1>1, <1>2, <1>3

PairOf(q, n, a, b) ==
  LET both == Wrong(q, a) \cap Wrong(q, b)
      byA  == Right(q, a) \cap Wrong(q, b)
      byB  == Right(q, b) \cap Wrong(q, a)
  IN  [samples   |-> n,
       cofailed  |-> Cardinality(both),
       disagreed |-> Cardinality(byA \cup byB),
       aGivenB   |-> Q!ShareOf(Cardinality(byA), Cardinality(Wrong(q, b))),
       bGivenA   |-> Q!ShareOf(Cardinality(byB), Cardinality(Wrong(q, a)))]

LEMMA PairIs ==
  ASSUME NEW q, NEW n \in Nat, NEW P, Measurables(q, n, P), NEW a \in P, NEW b \in P
  PROVE  Q!Pair(q, a, b) = PairOf(q, n, a, b)
<1> DEFINE both == Wrong(q, a) \cap Wrong(q, b)
           byA  == Right(q, a) \cap Wrong(q, b)
           byB  == Right(q, b) \cap Wrong(q, a)
           C(o, s) == o.candidates[s].correct
<1>1. Q!Pair(q, a, b) =
        [samples   |-> Len(q),
         cofailed  |-> Q!Cardinality({i \in DOMAIN q : ~ C(q[i], a) /\ ~ C(q[i], b)}),
         disagreed |-> Q!Cardinality({i \in DOMAIN q : C(q[i], a) # C(q[i], b)}),
         aGivenB   |-> Q!ShareOf(Q!Cardinality({i \in DOMAIN q : C(q[i], a) /\ ~ C(q[i], b)}),
                                 Q!Cardinality({i \in DOMAIN q : ~ C(q[i], b)})),
         bGivenA   |-> Q!ShareOf(Q!Cardinality({i \in DOMAIN q : C(q[i], b) /\ ~ C(q[i], a)}),
                                 Q!Cardinality({i \in DOMAIN q : ~ C(q[i], a)}))]
  BY Zenon DEF Q!Pair, Q!Count, Q!Correct
<1>2. \A i \in DOMAIN q : C(q[i], a) \in BOOLEAN /\ C(q[i], b) \in BOOLEAN
  BY DEF Measurables, Measurable
<1>3. {i \in DOMAIN q : ~ C(q[i], a) /\ ~ C(q[i], b)} = both
  BY DEF Wrong, Right
<1>4. {i \in DOMAIN q : C(q[i], a) # C(q[i], b)} = byA \cup byB
  BY <1>2 DEF Wrong, Right
<1>5. {i \in DOMAIN q : C(q[i], a) /\ ~ C(q[i], b)} = byA
  BY DEF Wrong, Right
<1>6. {i \in DOMAIN q : C(q[i], b) /\ ~ C(q[i], a)} = byB
  BY DEF Wrong, Right
<1>7. {i \in DOMAIN q : ~ C(q[i], a)} = Wrong(q, a) /\ {i \in DOMAIN q : ~ C(q[i], b)} = Wrong(q, b)
  BY DEF Wrong, Right
<1>8. Len(q) = n
  BY DEF Measurables
<1> HIDE DEF both, byA, byB
<1>9. Q!Pair(q, a, b) =
        [samples   |-> n,
         cofailed  |-> Q!Cardinality(both),
         disagreed |-> Q!Cardinality(byA \cup byB),
         aGivenB   |-> Q!ShareOf(Q!Cardinality(byA), Q!Cardinality(Wrong(q, b))),
         bGivenA   |-> Q!ShareOf(Q!Cardinality(byB), Q!Cardinality(Wrong(q, a)))]
  BY <1>1, <1>3, <1>4, <1>5, <1>6, <1>7, <1>8, Zenon
<1> QED BY <1>9, QualityCardinality, Zenon DEF both, byA, byB, PairOf

(* A share, and what it counts.                                            *)
Rescues(s) == IF s = <<>> THEN 0 ELSE s[1]

LEMMA SharesAre ==
  ASSUME NEW d \in Nat, NEW k \in 0..d
  PROVE  Q!IsShare(Q!ShareOf(k, d)) /\ Rescues(Q!ShareOf(k, d)) = k
<1>1. CASE d = 0
  BY <1>1 DEF Q!IsShare, Q!ShareOf, Rescues
<1>2. CASE d # 0
  <2>1. Q!ShareOf(k, d) = <<k, d>> /\ <<k, d>> # <<>>
    BY <1>2 DEF Q!ShareOf
  <2>2. <<k, d>>[1] = k /\ <<k, d>>[2] = d
    OBVIOUS
  <2> QED BY <2>1, <2>2 DEF Q!IsShare, Q!IsRate, Rescues
<1> QED BY <1>1, <1>2

(* A failure of one source of a pair is a co-failure or a rescue.          *)
PairAgrees(p, n, all, wrongA, wrongB) ==
  /\ Q!PairOK(p)
  /\ p.cofailed >= all
  /\ p.cofailed + Rescues(p.aGivenB) = wrongB
  /\ p.cofailed + Rescues(p.bGivenA) = wrongA
  /\ p.disagreed = Rescues(p.aGivenB) + Rescues(p.bGivenA)

LEMMA PairsAgree ==
  ASSUME NEW q, NEW n \in Nat, NEW P, Measurables(q, n, P), NEW a \in P, NEW b \in P,
         NEW all, all \subseteq Wrong(q, a) \cap Wrong(q, b)
  PROVE  PairAgrees(Q!Pair(q, a, b), n, Cardinality(all),
                    n - Cardinality(Right(q, a)), n - Cardinality(Right(q, b)))
<1> DEFINE both == Wrong(q, a) \cap Wrong(q, b)
           byA  == Right(q, a) \cap Wrong(q, b)
           byB  == Right(q, b) \cap Wrong(q, a)
           k    == Cardinality(both)
           x    == Cardinality(byA)
           y    == Cardinality(byB)
           wA   == Cardinality(Wrong(q, a))
           wB   == Cardinality(Wrong(q, b))
           p    == Q!Pair(q, a, b)
<1>1. DOMAIN q = 1..n
  BY DEF Measurables
<1>2. /\ Right(q, a) \in SUBSET (1..n) /\ Right(q, b) \in SUBSET (1..n)
      /\ Wrong(q, a) = (1..n) \ Right(q, a) /\ Wrong(q, b) = (1..n) \ Right(q, b)
  BY <1>1 DEF Right, Wrong
<1>3. wA = n - Cardinality(Right(q, a)) /\ wB = n - Cardinality(Right(q, b))
  BY <1>2, CountsAre
<1>4. /\ Wrong(q, a) \in SUBSET (1..n) /\ Wrong(q, b) \in SUBSET (1..n)
      /\ both \in SUBSET (1..n) /\ byA \in SUBSET (1..n) /\ byB \in SUBSET (1..n)
      /\ byA \cup byB \in SUBSET (1..n) /\ byA \cap byB = {}
      /\ byA \in SUBSET Wrong(q, b) /\ byB \in SUBSET Wrong(q, a)
      /\ Wrong(q, b) \cap Wrong(q, a) = both /\ Wrong(q, b) \ Wrong(q, a) = byA
      /\ Wrong(q, a) \cap Wrong(q, b) = both /\ Wrong(q, a) \ Wrong(q, b) = byB
  BY <1>2
<1>5. /\ IsFiniteSet(byA) /\ IsFiniteSet(byB) /\ IsFiniteSet(Wrong(q, a)) /\ IsFiniteSet(Wrong(q, b))
      /\ wA \in 0..n /\ wB \in 0..n /\ k \in 0..n /\ x \in 0..n /\ y \in 0..n
      /\ Cardinality(byA \cup byB) \in 0..n
  BY <1>4, CountsAre
<1>6. x <= wB /\ y <= wA /\ Cardinality(all) <= k
  BY <1>4, CountsAre
<1>7. k + x = wB
  BY <1>4, <1>5, SplitBy
<1>8. k + y = wA
  BY <1>4, <1>5, SplitBy
<1>9. Cardinality(byA \cup byB) = x + y
  <2>1. Cardinality(byA \cup byB) = x + y - Cardinality(byA \cap byB)
    BY <1>5, FS_Union
  <2> QED BY <1>4, <1>5, <2>1, FS_EmptySet
<1>10. p = [samples |-> n, cofailed |-> k, disagreed |-> Cardinality(byA \cup byB),
            aGivenB |-> Q!ShareOf(x, wB), bGivenA |-> Q!ShareOf(y, wA)]
  <2>1. Q!Pair(q, a, b) = PairOf(q, n, a, b)
    BY PairIs
  <2> QED BY <2>1, Zenon DEF PairOf
<1> HIDE DEF both, byA, byB, k, x, y, wA, wB, p
<1>11. /\ Q!IsShare(Q!ShareOf(x, wB)) /\ Rescues(Q!ShareOf(x, wB)) = x
       /\ Q!IsShare(Q!ShareOf(y, wA)) /\ Rescues(Q!ShareOf(y, wA)) = y
  <2>1. x \in 0..wB /\ y \in 0..wA /\ wA \in Nat /\ wB \in Nat
    BY <1>5, <1>6
  <2> QED BY <2>1, SharesAre
<1>12. /\ p.samples = n /\ p.cofailed = k /\ p.disagreed = x + y
       /\ p.aGivenB = Q!ShareOf(x, wB) /\ p.bGivenA = Q!ShareOf(y, wA)
  BY <1>9, <1>10
<1>13. Q!PairOK(p)
  BY <1>5, <1>9, <1>11, <1>12 DEF Q!PairOK
<1>14. PairAgrees(p, n, Cardinality(all), wA, wB)
  BY <1>6, <1>7, <1>8, <1>11, <1>12, <1>13 DEF PairAgrees
<1> QED BY <1>3, <1>14 DEF p

(* The observations that no source got right.                              *)
Lost(q, P) == {i \in DOMAIN q : \A s \in P : i \in Wrong(q, s)}

Lists(panel, P) == panel \in Seq(P) /\ Len(panel) = Cardinality(P) /\ Range(panel) = P

LEMMA ListedAre ==
  ASSUME NEW P, NEW panel, Lists(panel, P)
  PROVE  /\ \A i \in DOMAIN panel : panel[i] \in P
         /\ \A s \in P : \E i \in DOMAIN panel : panel[i] = s
BY DEF Lists, Range

(* How often each source of the panel was right.                           *)
RightCounts(q, panel) == [i \in DOMAIN panel |-> Cardinality(Right(q, panel[i]))]

(* The co-failure section: its pairs add up to what it says of the sources.*)
CofailureAgrees(c, n, panel, lost) ==
  /\ c.panel = panel /\ c.samples = n /\ c.allFailed = lost /\ lost \in 0..n
  /\ \A p \in DOMAIN c.pairs :
       PairAgrees(c.pairs[p], n, lost, n - c.sources[p[1]], n - c.sources[p[2]])

LEMMA LostAre ==
  ASSUME NEW q, NEW n \in Nat, NEW P, Measurables(q, n, P)
  PROVE  /\ Lost(q, P) \in SUBSET (1..n)
         /\ {i \in DOMAIN q : \A s \in Q!Panel(q[i]) : ~ q[i].candidates[s].correct} = Lost(q, P)
         /\ {i \in DOMAIN q : \E s \in Q!Panel(q[i]) : q[i].candidates[s].correct}
              = (1..n) \ Lost(q, P)
<1>1. DOMAIN q = 1..n /\ \A i \in DOMAIN q : Q!Panel(q[i]) = P
  BY DEF Measurables, Measurable
<1> QED BY <1>1 DEF Lost, Wrong, Right

LEMMA CofailuresAgree ==
  ASSUME NEW q, NEW n \in Nat, NEW P, Measurables(q, n, P), NEW panel, Lists(panel, P)
  PROVE  /\ CofailureAgrees(Q!Cofailure(q, panel), n, panel, Cardinality(Lost(q, P)))
         /\ Q!Cofailure(q, panel).sources = RightCounts(q, panel)
<1> DEFINE c    == Q!Cofailure(q, panel)
           D    == {p \in (DOMAIN panel) \X (DOMAIN panel) : p[1] < p[2]}
           lost == Lost(q, P)
<1>1. c = [panel     |-> panel,
           sources   |-> [i \in DOMAIN panel |->
                           Q!Cardinality({j \in DOMAIN q : q[j].candidates[panel[i]].correct})],
           pairs     |-> [p \in D |-> Q!Pair(q, panel[p[1]], panel[p[2]])],
           samples   |-> Len(q),
           allFailed |-> Q!Cardinality({j \in DOMAIN q :
                           \A s \in Q!Panel(q[j]) : ~ q[j].candidates[s].correct})]
  BY Zenon DEF Q!Cofailure, Q!Count, Q!Correct
<1> HIDE DEF c, D
<1>2. c.panel = panel /\ c.samples = n
  BY <1>1 DEF Measurables
<1>3. c.allFailed = Cardinality(lost)
  <2>1. c.allFailed = Q!Cardinality({j \in DOMAIN q :
                        \A s \in Q!Panel(q[j]) : ~ q[j].candidates[s].correct})
    BY <1>1
  <2>2. {i \in DOMAIN q : \A s \in Q!Panel(q[i]) : ~ q[i].candidates[s].correct} = lost
    BY LostAre
  <2> QED BY <2>1, <2>2, QualityCardinality, Zenon
<1>4. \A i \in DOMAIN panel : c.sources[i] = Cardinality(Right(q, panel[i]))
  <2> SUFFICES ASSUME NEW i \in DOMAIN panel
               PROVE  c.sources[i] = Cardinality(Right(q, panel[i]))
    OBVIOUS
  <2>1. c.sources[i] = Q!Cardinality({j \in DOMAIN q : q[j].candidates[panel[i]].correct})
    BY <1>1
  <2> QED BY <2>1, QualityCardinality DEF Right
<1>5. c.pairs = [p \in D |-> Q!Pair(q, panel[p[1]], panel[p[2]])]
  BY <1>1
<1>6. lost \in SUBSET (1..n) /\ Cardinality(lost) \in 0..n
  BY LostAre, CountsAre
<1>7. ASSUME NEW p \in D
      PROVE  PairAgrees(c.pairs[p], n, Cardinality(lost), n - c.sources[p[1]], n - c.sources[p[2]])
  <2>1. p[1] \in DOMAIN panel /\ p[2] \in DOMAIN panel
    BY DEF D
  <2> DEFINE a == panel[p[1]]
             b == panel[p[2]]
  <2>2. a \in P /\ b \in P
    BY <2>1, ListedAre
  <2>3. lost \subseteq Wrong(q, a) \cap Wrong(q, b)
    BY <2>2 DEF Lost
  <2>4. c.pairs[p] = Q!Pair(q, a, b)
    BY <1>5
  <2>5. c.sources[p[1]] = Cardinality(Right(q, a)) /\ c.sources[p[2]] = Cardinality(Right(q, b))
    BY <1>4, <2>1
  <2> HIDE DEF a, b, lost
  <2>6. PairAgrees(Q!Pair(q, a, b), n, Cardinality(lost),
                   n - Cardinality(Right(q, a)), n - Cardinality(Right(q, b)))
    BY <2>2, <2>3, PairsAgree
  <2> QED BY <2>4, <2>5, <2>6
<1>8. DOMAIN c.pairs = D
  BY <1>5
<1>9. c.sources = RightCounts(q, panel)
  <2>1. c.sources = [i \in DOMAIN panel |->
                       Q!Cardinality({j \in DOMAIN q : q[j].candidates[panel[i]].correct})]
    BY <1>1
  <2> QED BY <2>1, QualityCardinality, Zenon DEF RightCounts, Right
<1> QED BY <1>2, <1>3, <1>6, <1>7, <1>8, <1>9 DEF CofailureAgrees, c

(* The best of the sources, by how often each was right.                   *)
BestOf(panel, counts) ==
  {panel[i] : i \in {j \in DOMAIN panel : \A k \in DOMAIN panel : counts[k] <= counts[j]}}

(* The regret section, and what it has in common with the other.           *)
RegretAgrees(r, n, lost, panel, counts) ==
  /\ Q!CountsOK(r) /\ r.observations = n
  /\ r.oracle + lost = n
  /\ r.bestSources = BestOf(panel, counts)

LEMMA GreatestWin ==
  ASSUME NEW b \in Nat, NEW T, T \subseteq 0..b, T # {}
  PROVE  Q!Max(T) \in T /\ \A n \in T : Q!Max(T) >= n
<1>1. Q!Max(T) = S!Max(T)
  BY DEF Q!Max, S!Max
<1> QED BY <1>1, GreatestOf

LEMMA RegretsAgree ==
  ASSUME NEW q, NEW n \in Nat, NEW P, Measurables(q, n, P), P # {}, NEW panel, Lists(panel, P)
  PROVE  RegretAgrees(Q!SelectionRegret(q, panel), n, Cardinality(Lost(q, P)),
                      panel, RightCounts(q, panel))
<1> DEFINE r        == Q!SelectionRegret(q, panel)
           lost     == Lost(q, P)
           chosen   == {i \in DOMAIN q : q[i].selected # None}
           won      == {i \in DOMAIN q : q[i].selected # None
                                           /\ q[i].candidates[q[i].selected].correct}
           oracle   == Cardinality((1..n) \ lost)
           selected == Cardinality(chosen)
           success  == Cardinality(won)
           wins     == [i \in DOMAIN panel |-> Q!Cardinality({j \in DOMAIN q :
                                                 q[j].candidates[panel[i]].correct})]
           best     == Q!Max(Q!Range(wins))
           first    == {panel[i] : i \in {j \in DOMAIN panel : wins[j] = best}}
<1>1. /\ r.observations = Len(q)
      /\ r.oracle = Q!Cardinality({i \in DOMAIN q :
                      \E s \in Q!Panel(q[i]) : q[i].candidates[s].correct})
      /\ r.selected = Q!Cardinality(chosen)
      /\ r.success = Q!Cardinality(won)
      /\ r.bestSources = first
  <2> DEFINE orac     == Q!Cardinality({i \in DOMAIN q :
                            \E s \in Q!Panel(q[i]) : q[i].candidates[s].correct})
             picked   == Q!Cardinality(chosen)
             hits     == Q!Cardinality(won)
             rate(k)  == Q!Stable(<<k, Len(q)>>)
             uplift   == rate(orac - best)
             captured == rate(hits - best)
             share    == IF uplift[1] = 0 THEN <<>> ELSE Q!Stable(Q!Quotient(captured, uplift))
             given    == IF orac = 0 THEN <<>> ELSE Q!Stable(<<hits, orac>>)
             left     == Q!Stable(Q!Minus(rate(orac), rate(hits)))
             rate1    == rate(orac)
             rate2    == rate(hits)
             rate3    == rate(best)
  <2>1. r = [observations |-> Len(q), oracle |-> orac, selected |-> picked, success |-> hits,
             oracleRate |-> rate1, selectedRate |-> rate2, bestRate |-> rate3,
             bestSources |-> first, uplift |-> uplift, captured |-> captured,
             captureRate |-> share, givenOracle |-> given, regret |-> left]
    BY Zenon DEF Q!SelectionRegret, Q!Count, Q!Correct
  <2> HIDE DEF r, picked, hits, orac, first, uplift, captured, share, given, left,
               rate1, rate2, rate3
  <2>2. /\ r.observations = Len(q) /\ r.oracle = orac /\ r.selected = picked
        /\ r.success = hits /\ r.bestSources = first
    BY <2>1
  <2> QED BY <2>2 DEF orac, picked, hits
<1>2. {i \in DOMAIN q : \E s \in Q!Panel(q[i]) : q[i].candidates[s].correct} = (1..n) \ lost
  BY LostAre
<1>3. Len(q) = n /\ DOMAIN q = 1..n
  BY DEF Measurables
<1>4. lost \in SUBSET (1..n)
  BY LostAre
<1>5. chosen \in SUBSET (1..n) /\ won \in SUBSET chosen /\ won \in SUBSET ((1..n) \ lost)
  <2>1. ASSUME NEW i \in won PROVE i \notin lost
    <3>1. q[i].selected \in P
      BY <1>3 DEF Measurables, Measurable
    <3>2. i \notin Wrong(q, q[i].selected)
      BY DEF Wrong, Right
    <3> QED BY <3>1, <3>2 DEF Lost
  <2> QED BY <1>3, <2>1
<1>6. \A i \in DOMAIN panel : wins[i] = Cardinality(Right(q, panel[i]))
                                /\ wins[i] \in 0..oracle
  <2> SUFFICES ASSUME NEW i \in DOMAIN panel
               PROVE  wins[i] = Cardinality(Right(q, panel[i])) /\ wins[i] \in 0..oracle
    OBVIOUS
  <2>1. wins[i] = Cardinality(Right(q, panel[i]))
    BY QualityCardinality DEF Right
  <2>2. panel[i] \in P
    BY ListedAre
  <2>3. Right(q, panel[i]) \in SUBSET ((1..n) \ lost)
    BY <1>3, <2>2 DEF Right, Wrong, Lost
  <2>4. (1..n) \ lost \in SUBSET (1..n)
    OBVIOUS
  <2>5. Right(q, panel[i]) \in SUBSET (1..n)
    BY <2>3
  <2> HIDE DEF wins, lost
  <2>6. Cardinality(Right(q, panel[i])) \in 0..n
    BY <2>5, CountsAre
  <2>7. Cardinality(Right(q, panel[i])) <= oracle
    BY <2>3, <2>4, CountsAre
  <2> QED BY <2>1, <2>4, <2>6, <2>7, CountsAre
<1>7. /\ oracle \in 0..n /\ selected \in 0..n /\ success \in 0..n
      /\ success <= selected /\ success <= oracle
      /\ oracle + Cardinality(lost) = n
  <2>1. oracle = n - Cardinality(lost) /\ Cardinality(lost) \in 0..n
    BY <1>4, CountsAre
  <2>2. (1..n) \ lost \in SUBSET (1..n) /\ won \in SUBSET (1..n)
    BY <1>5
  <2> HIDE DEF lost, chosen, won
  <2>3. selected \in 0..n /\ success \in 0..n /\ success <= selected /\ success <= oracle
    BY <1>5, <2>2, CountsAre
  <2> QED BY <2>1, <2>3
<1>8. /\ best \in 0..oracle /\ first # {} /\ \A i \in DOMAIN panel : wins[i] <= best
      /\ \E i \in DOMAIN panel : wins[i] = best
  <2>1. Q!Range(wins) = {wins[i] : i \in DOMAIN panel}
    BY DEF Q!Range
  <2>2. DOMAIN panel # {}
    BY ListedAre
  <2> HIDE DEF wins
  <2>3. Q!Range(wins) # {} /\ Q!Range(wins) \subseteq 0..oracle
    BY <1>6, <2>1, <2>2
  <2>4. best \in Q!Range(wins) /\ \A k \in Q!Range(wins) : best >= k
    <3>1. oracle \in Nat
      BY <1>7
    <3> HIDE DEF oracle
    <3> QED BY <2>3, <3>1, GreatestWin
  <2>5. PICK i \in DOMAIN panel : wins[i] = best
    BY <2>1, <2>4
  <2>6. \A k \in DOMAIN panel : wins[k] <= best
    BY <2>1, <2>3, <2>4
  <2> QED BY <2>3, <2>4, <2>5, <2>6
<1>9. first = BestOf(panel, RightCounts(q, panel))
  <2> DEFINE counts == RightCounts(q, panel)
  <2>1. \A i \in DOMAIN panel : counts[i] = wins[i] /\ wins[i] \in Int
    <3> HIDE DEF wins
    <3> QED BY <1>6 DEF RightCounts
  <2>2. oracle \in Int /\ best \in Int
    <3> HIDE DEF best, wins, oracle
    <3> QED BY <1>7, <1>8
  <2> HIDE DEF counts, wins, best
  <2>3. \A j \in DOMAIN panel :
          wins[j] = best <=> \A k \in DOMAIN panel : counts[k] <= counts[j]
    BY <1>8, <2>1, <2>2
  <2>4. {j \in DOMAIN panel : wins[j] = best}
          = {j \in DOMAIN panel : \A k \in DOMAIN panel : counts[k] <= counts[j]}
    BY <2>3, Zenon
  <2>5. BestOf(panel, counts)
          = {panel[i] : i \in {j \in DOMAIN panel : \A k \in DOMAIN panel : counts[k] <= counts[j]}}
    BY Zenon DEF BestOf
  <2>6. first = {panel[i] : i \in {j \in DOMAIN panel : wins[j] = best}}
    BY Zenon
  <2> HIDE DEF first
  <2>7. first = BestOf(panel, counts)
    BY <2>4, <2>5, <2>6, Zenon
  <2> QED BY <2>7 DEF counts
<1> HIDE DEF r, lost, chosen, won, wins, best, first
<1>10. /\ r.observations = n /\ r.oracle = oracle /\ r.selected = selected
       /\ r.success = success /\ r.bestSources = first
  BY <1>1, <1>2, <1>3, QualityCardinality, Zenon DEF oracle, selected, success
<1> HIDE DEF oracle, selected, success
<1>11. Q!CountsOK(r)
  BY <1>7, <1>8, <1>10 DEF Q!CountsOK
<1> QED BY <1>7, <1>9, <1>10, <1>11 DEF RegretAgrees, r, lost

(* The minority section: a majority outnumbers its minority, and where     *)
(* there is none the panel disagrees.                                      *)
MinorityAgrees(m, P) ==
  /\ Q!MinorityOK(m)
  /\ m.majority = None => m.minority = P /\ m.unresolved # {}
  /\ Cardinality(m.backers) <= Cardinality(m.minority) => m.majority = None

LEMMA ConclusionsAre ==
  ASSUME NEW P, IsFiniteSet(P), NEW o, Measurable(o, P)
  PROVE  /\ Q!Conclusions(o) = {o.candidates[s].conclusion : s \in P}
         /\ IsFiniteSet(Q!Conclusions(o)) /\ Cardinality(Q!Conclusions(o)) \in Nat
         /\ \A c : Q!Backers(o, c) = {s \in P : o.candidates[s].conclusion = c}
         /\ \A c : /\ Q!Backers(o, c) \in SUBSET P /\ IsFiniteSet(Q!Backers(o, c))
                   /\ Cardinality(Q!Backers(o, c)) \in Nat
                   /\ Cardinality(Q!Backers(o, c)) <= Cardinality(P)
<1> DEFINE f == [s \in P |-> o.candidates[s].conclusion]
<1>1. Q!Panel(o) = P
  BY DEF Measurable
<1>2. Q!Conclusions(o) = {o.candidates[s].conclusion : s \in P}
  BY <1>1 DEF Q!Conclusions
<1>3. Q!Conclusions(o) = {f[s] : s \in P} /\ DOMAIN f = P
  BY <1>2
<1>4. IsFiniteSet(Q!Conclusions(o))
  <2> HIDE DEF f
  <2> QED BY <1>3, ImageIsFinite
<1>5. \A c : Q!Backers(o, c) = {s \in P : o.candidates[s].conclusion = c}
  BY <1>1 DEF Q!Backers
<1>6. \A c : Q!Backers(o, c) \in SUBSET P
  BY <1>5
<1>7. \A c : IsFiniteSet(Q!Backers(o, c)) /\ Cardinality(Q!Backers(o, c)) <= Cardinality(P)
  BY <1>6, FS_Subset
<1> QED BY <1>2, <1>4, <1>5, <1>6, <1>7, FS_CardinalityType

LEMMA MinoritiesAgree ==
  ASSUME NEW P, IsFiniteSet(P), P # {}, NEW o, Measurable(o, P)
  PROVE  MinorityAgrees(Q!MinorityReport(o), P)
<1> DEFINE m        == Q!MinorityReport(o)
           B(c)     == Q!Backers(o, c)
           C        == Q!Conclusions(o)
           p        == Cardinality(P)
           most     == {c \in C : 2 * Q!Cardinality(B(c)) > Q!Cardinality(Q!Panel(o))}
           majority == Q!Majority(o)
<1>1. Q!Panel(o) = P /\ \A s \in P : o.candidates[s].conclusion # None
  BY DEF Measurable
<1>2. p \in Nat /\ p # 0
  BY FS_CardinalityType, FS_EmptySet
<1> DEFINE said(s) == o.candidates[s].conclusion
<1>3. C = {said(s) : s \in P} /\ IsFiniteSet(C) /\ Cardinality(C) \in Nat
  BY ConclusionsAre
<1>4. ASSUME NEW c PROVE B(c) = {s \in P : said(s) = c}
  BY ConclusionsAre
<1>5. /\ m.majority = majority /\ m.backers = B(majority) /\ m.minority = P \ B(majority)
      /\ m.unresolved = IF Q!Cardinality(C) > 1 THEN C ELSE {}
  BY <1>1 DEF Q!MinorityReport
<1>6. most = {c \in C : 2 * Cardinality(B(c)) > p}
  BY <1>1, QualityCardinality
<1>7. majority = IF most = {} THEN None ELSE CHOOSE c \in most : TRUE
  BY Zenon DEF Q!Majority
<1> HIDE DEF m, most, majority, B, C, said
<1>8. CASE most = {}
  <2>1. majority = None
    BY <1>7, <1>8
  <2>2. B(None) = {}
    BY <1>1, <1>4 DEF said
  <2>3. m.minority = P
    BY <1>5, <2>1, <2>2
  <2>4. Cardinality(C) # 1
    <3> SUFFICES ASSUME Cardinality(C) = 1 PROVE FALSE
      OBVIOUS
    <3>1. PICK c : C = {c}
      BY <1>3, FS_Singleton
    <3>2. \A s \in P : said(s) = c
      BY <3>1, <1>3
    <3>3. B(c) = P
      BY <3>2, <1>4
    <3>4. c \in most
      BY <1>2, <1>6, <3>1, <3>3
    <3> QED BY <1>8, <3>4
  <2>5. C # {} /\ Cardinality(C) # 0
    <3>1. C # {}
      BY <1>3
    <3> QED BY <3>1, <1>3, FS_EmptySet
  <2>6. Q!Cardinality(C) > 1
    BY <2>4, <2>5, <1>3, QualityCardinality
  <2>7. m.unresolved # {}
    BY <1>5, <2>5, <2>6
  <2> QED BY <1>5, <2>1, <2>3, <2>7 DEF MinorityAgrees, Q!MinorityOK, m
<1>9. CASE most # {}
  <2>1. majority \in most
    BY <1>7, <1>9
  <2>2. majority \in C /\ 2 * Cardinality(B(majority)) > p
    BY <1>6, <2>1
  <2>3. majority # None
    BY <1>1, <1>3, <2>2 DEF said
  <2>4. B(majority) \in SUBSET P /\ Cardinality(B(majority)) \in Nat
    BY ConclusionsAre DEF B
  <2>5. Cardinality(P \cap B(majority)) + Cardinality(P \ B(majority)) = p
    BY SplitBy
  <2>6. P \cap B(majority) = B(majority) /\ Cardinality(P \ B(majority)) \in Nat
    <3>1. IsFiniteSet(P \ B(majority))
      BY FS_Difference
    <3> QED BY <2>4, <3>1, FS_CardinalityType
  <2>7. Cardinality(B(majority)) > Cardinality(P \ B(majority))
    <3>1. Cardinality(B(majority)) + Cardinality(P \ B(majority)) = p
      BY <2>5, <2>6
    <3> HIDE DEF p
    <3> QED BY <1>2, <2>2, <2>4, <2>6, <3>1
  <2>8. B(majority) # {}
    <3>1. Cardinality(B(majority)) # 0
      BY <1>2, <2>2, <2>4
    <3> QED BY <3>1, FS_EmptySet
  <2>9. ~ (Cardinality(m.backers) <= Cardinality(m.minority))
    BY <1>5, <2>4, <2>6, <2>7
  <2> QED BY <1>5, <2>3, <2>8, <2>9 DEF MinorityAgrees, Q!MinorityOK, m
<1> QED BY <1>8, <1>9

(* The unordered pairs of a finite set.                                    *)
LEMMA PairsAdded ==
  ASSUME NEW s, NEW x, x \notin s
  PROVE  /\ Q!Pairs(s \cup {x}) = Q!Pairs(s) \cup {{y, x} : y \in s}
         /\ Q!Pairs(s) \cap {{y, x} : y \in s} = {}
<1>1. \A U, p : p \in Q!Pairs(U) <=> \E a, b \in U : a # b /\ p = {a, b}
  <2> SUFFICES ASSUME NEW U, NEW p
               PROVE  p \in Q!Pairs(U) <=> \E a, b \in U : a # b /\ p = {a, b}
    OBVIOUS
  <2>1. p \in Q!Pairs(U) <=> (\E a, b \in U : p = {a, b}) /\ ~ \E c \in U : p = {c}
    BY DEF Q!Pairs
  <2>2. \A a, b, c : {a, b} = {c} => a = b
    OBVIOUS
  <2>3. \A a : {a, a} = {a}
    OBVIOUS
  <2> QED BY <2>1, <2>2, <2>3
<1> DEFINE N == {{y, x} : y \in s}
<1>2. ASSUME NEW p \in Q!Pairs(s \cup {x}) PROVE p \in Q!Pairs(s) \cup N
  <2>1. PICK a \in s \cup {x}, b \in s \cup {x} : a # b /\ p = {a, b}
    BY <1>1
  <2>2. CASE a \in s /\ b \in s
    BY <1>1, <2>1, <2>2
  <2>3. CASE a = x
    BY <2>1, <2>3
  <2>4. CASE b = x
    BY <2>1, <2>4
  <2> QED BY <2>2, <2>3, <2>4
<1>3. ASSUME NEW p \in Q!Pairs(s) PROVE p \in Q!Pairs(s \cup {x}) /\ x \notin p
  <2>1. PICK a \in s, b \in s : a # b /\ p = {a, b}
    BY <1>1
  <2> QED BY <1>1, <2>1
<1>4. ASSUME NEW p \in N PROVE p \in Q!Pairs(s \cup {x}) /\ x \in p
  <2>1. PICK y \in s : p = {y, x}
    OBVIOUS
  <2>2. y # x /\ y \in s \cup {x} /\ x \in s \cup {x}
    OBVIOUS
  <2> QED BY <1>1, <2>1, <2>2
<1> HIDE DEF N
<1>5. Q!Pairs(s \cup {x}) = Q!Pairs(s) \cup N /\ Q!Pairs(s) \cap N = {}
  BY <1>2, <1>3, <1>4
<1> QED BY <1>5 DEF N

LEMMA PairsCount ==
  ASSUME NEW U, IsFiniteSet(U)
  PROVE  /\ IsFiniteSet(Q!Pairs(U)) /\ Cardinality(Q!Pairs(U)) \in Nat
         /\ 2 * Cardinality(Q!Pairs(U)) = Cardinality(U) * Cardinality(U) - Cardinality(U)
<1> DEFINE n(s) == Cardinality(s)
           T == {s \in SUBSET U : /\ IsFiniteSet(Q!Pairs(s))
                                  /\ 2 * n(Q!Pairs(s)) = n(s) * n(s) - n(s)}
<1>1. {} \in T
  <2>1. Q!Pairs({}) = {}
    BY DEF Q!Pairs
  <2>2. IsFiniteSet({}) /\ n({}) = 0
    BY FS_EmptySet
  <2>3. 2 * n(Q!Pairs({})) = n({}) * n({}) - n({})
    BY <2>1, <2>2
  <2> QED BY <2>1, <2>2, <2>3
<1>2. ASSUME NEW s \in SUBSET U, NEW x \in U \ s, s \in T PROVE s \cup {x} \in T
  <2> DEFINE N == {{y, x} : y \in s}
             f == [y \in s |-> {y, x}]
  <2>1. IsFiniteSet(s) /\ n(s) \in Nat
    BY FS_Subset, FS_CardinalityType
  <2>2. n(s \cup {x}) = n(s) + 1
    BY <2>1, FS_AddElement
  <2>3. IsFiniteSet(N) /\ n(N) = n(s)
    <3>1. f \in [s -> N] /\ (\A p \in N : \E y \in s : f[y] = p)
      OBVIOUS
    <3>2. \A y, z \in s : f[y] = f[z] => y = z
      <4> SUFFICES ASSUME NEW y \in s, NEW z \in s, {y, x} = {z, x} PROVE y = z
        OBVIOUS
      <4>1. y \in {z, x} /\ y # x
        OBVIOUS
      <4> QED BY <4>1
    <3> HIDE DEF f, N
    <3>3. f \in Surjection(s, N) /\ f \in Injection(s, N)
      BY <3>1, <3>2, Zenon DEF Surjection, Injection, IsInjective
    <3> QED BY <2>1, <3>3, FS_Surjection
  <2>4. Q!Pairs(s \cup {x}) = Q!Pairs(s) \cup N /\ Q!Pairs(s) \cap N = {}
    BY PairsAdded
  <2> HIDE DEF N
  <2>5. IsFiniteSet(Q!Pairs(s)) /\ n(Q!Pairs(s)) \in Nat
    BY <1>2, FS_CardinalityType
  <2>6. /\ IsFiniteSet(Q!Pairs(s) \cup N)
        /\ n(Q!Pairs(s) \cup N) = n(Q!Pairs(s)) + n(N) - n(Q!Pairs(s) \cap N)
    BY <2>3, <2>5, FS_Union
  <2>7. n({}) = 0
    BY FS_EmptySet
  <2>8. n(Q!Pairs(s \cup {x})) = n(Q!Pairs(s)) + n(s)
    <3>1. n(Q!Pairs(s \cup {x})) = n(Q!Pairs(s)) + n(N) - 0
      BY <2>4, <2>6, <2>7
    <3> QED BY <2>1, <2>3, <2>5, <3>1
  <2>9. 2 * n(Q!Pairs(s)) = n(s) * n(s) - n(s)
    BY <1>2
  <2>10. (n(s) + 1) * (n(s) + 1) - (n(s) + 1) = n(s) * n(s) + n(s)
    BY <2>1
  <2>11. 2 * (n(Q!Pairs(s)) + n(s)) = n(s) * n(s) + n(s)
    <3>1. \A k, m, sq \in Nat : 2 * k = sq - m => 2 * (k + m) = sq + m
      OBVIOUS
    <3>2. n(s) * n(s) \in Nat
      BY <2>1
    <3> QED BY <2>1, <2>5, <2>9, <3>1, <3>2
  <2> QED BY <2>2, <2>4, <2>6, <2>8, <2>10, <2>11
<1>3. U \in T
  <2> HIDE DEF T
  <2> QED BY <1>1, <1>2, OneByOne
<1> QED BY <1>3, FS_CardinalityType

(* The diversity section: what a panel of n can have of pairs, signatures  *)
(* and of agreement.                                                       *)
LEMMA SquaresTotal ==
  ASSUME NEW o, NEW C, IsFiniteSet(C), NEW weight, Weighs(weight, C),
         \A c \in C : weight[c] = Q!Cardinality(Q!Backers(o, c)) * Q!Cardinality(Q!Backers(o, c))
  PROVE  Q!MapThenSumSet(LAMBDA c : Q!Cardinality(Q!Backers(o, c)) * Q!Cardinality(Q!Backers(o, c)), C)
           = TotalOf(weight, C)
<1> DEFINE size(c) == Q!Cardinality(Q!Backers(o, c)) * Q!Cardinality(Q!Backers(o, c))
           Solves(g) == g = [s \in SUBSET C |-> IF s = {} THEN 0
                               ELSE size(CHOOSE x \in s : TRUE)
                                    + g[s \ {CHOOSE x \in s : TRUE}]]
           h == CHOOSE g : Solves(g)
<1>1. PICK g : TotalFrom(g, weight, C, TotalOf(weight, C))
  BY TotalIs
<1>2. \A s \in SUBSET C : s # {} => weight[Some(s)] = size(Some(s))
  BY DEF Some
<1>3. Q!MapThenSumSet(LAMBDA c : Q!Cardinality(Q!Backers(o, c)) * Q!Cardinality(Q!Backers(o, c)), C)
        = h[C]
  BY DEF Q!MapThenSumSet, Q!MapThenFoldSet
<1> HIDE DEF size
<1>4. Solves(g)
  BY <1>1, <1>2 DEF TotalFrom, Sums, Some
<1>5. Solves(h)
  <2> HIDE DEF Solves
  <2> QED BY <1>4
<1> HIDE DEF h
<1>6. Sums(h, weight, C)
  BY <1>2, <1>5 DEF Sums, Some
<1> HIDE DEF Solves
<1>7. g[C] = h[C]
  BY <1>1, <1>6, SumsUnique DEF TotalFrom
<1> QED BY <1>1, <1>3, <1>7 DEF TotalFrom

LEMMA SquaresFit ==
  ASSUME NEW P, IsFiniteSet(P), NEW o, Measurable(o, P)
  PROVE  Q!MapThenSumSet(LAMBDA c : Q!Cardinality(Q!Backers(o, c)) * Q!Cardinality(Q!Backers(o, c)),
                         Q!Conclusions(o))
           \in Cardinality(P)..(Cardinality(P) * Cardinality(P))
<1> DEFINE C    == Q!Conclusions(o)
           n    == Cardinality(P)
           b(c) == Cardinality(Q!Backers(o, c))
           w    == [c \in C |-> b(c) * b(c)]
           V(s) == {x \in P : o.candidates[x].conclusion \in s}
           v(s) == Cardinality(V(s))
           T    == {s \in SUBSET C : TotalOf(w, s) \in v(s)..(v(s) * n)}
<1>1. n \in Nat /\ IsFiniteSet(C)
  BY FS_CardinalityType, ConclusionsAre
<1>2. \A c : b(c) \in Nat /\ b(c) <= n
  BY ConclusionsAre
<1>3. \A c \in C : w[c] \in Nat /\ w[c] = b(c) * b(c)
  BY <1>2
<1>4. Q!MapThenSumSet(LAMBDA c : Q!Cardinality(Q!Backers(o, c)) * Q!Cardinality(Q!Backers(o, c)), C)
        = TotalOf(w, C)
  <2>1. Weighs(w, C)
    BY <1>3 DEF Weighs
  <2>2. \A c \in C : w[c] = Q!Cardinality(Q!Backers(o, c)) * Q!Cardinality(Q!Backers(o, c))
    BY <1>3, QualityCardinality
  <2> HIDE DEF w
  <2> QED BY <1>1, <2>1, <2>2, SquaresTotal
<1>5. \A s : IsFiniteSet(V(s)) /\ v(s) \in Nat
  BY FS_Subset, FS_CardinalityType
<1>6. {} \in T
  <2>1. V({}) = {}
    OBVIOUS
  <2>2. v({}) = 0 /\ v({}) * n = 0 /\ TotalOf(w, {}) = 0
    BY <1>1, <2>1, FS_EmptySet, TotalOfNone
  <2> HIDE DEF v, w, n
  <2> QED BY <2>2
<1>7. ASSUME NEW s \in SUBSET C, NEW c \in C \ s, s \in T PROVE s \cup {c} \in T
  <2>1. V(s \cup {c}) = V(s) \cup Q!Backers(o, c) /\ V(s) \cap Q!Backers(o, c) = {}
    <3>1. Q!Backers(o, c) = {x \in P : o.candidates[x].conclusion = c}
      BY ConclusionsAre
    <3> QED BY <3>1
  <2>2. IsFiniteSet(Q!Backers(o, c)) /\ IsFiniteSet(s)
    BY <1>1, ConclusionsAre, FS_Subset
  <2> HIDE DEF V
  <2>3. v(s \cup {c}) = v(s) + b(c)
    <3>1. v(s \cup {c}) = v(s) + b(c) - Cardinality({})
      BY <1>5, <2>1, <2>2, FS_Union
    <3> QED BY <1>2, <1>5, <3>1, FS_EmptySet
  <2>4. TotalOf(w, s \cup {c}) = TotalOf(w, s) + w[c]
    <3>1. Weighs(w, s) /\ w[c] \in Nat
      BY <1>3 DEF Weighs
    <3> HIDE DEF w
    <3> QED BY <2>2, <3>1, TotalOfOneMore
  <2>5. w[c] = b(c) * b(c) /\ TotalOf(w, s) \in v(s)..(v(s) * n)
    BY <1>7
  <2>6. \A x, y, m, t \in Nat : y <= m /\ t \in x..(x * m) => t + y * y \in (x + y)..((x + y) * m)
    <3> SUFFICES ASSUME NEW x \in Nat, NEW y \in Nat, NEW m \in Nat, NEW t \in Nat,
                        y <= m, t \in x..(x * m)
                 PROVE  t + y * y \in (x + y)..((x + y) * m)
      OBVIOUS
    <3>1. (x + y) * m = x * m + y * m
      OBVIOUS
    <3>2. y * y \in Nat /\ y <= y * y
      OBVIOUS
    <3>3. y * y <= y * m /\ y * m \in Nat /\ x * m \in Nat
      OBVIOUS
    <3> QED BY <3>1, <3>2, <3>3
  <2>7. TotalOf(w, s) \in Nat /\ v(s) \in Nat
    BY <1>5, <1>1, <2>5
  <2> HIDE DEF b, v, w, n
  <2>8. TotalOf(w, s) + b(c) * b(c) \in (v(s) + b(c))..((v(s) + b(c)) * n)
    BY <1>1, <1>2, <2>5, <2>6, <2>7
  <2>9. s \cup {c} \in SUBSET C
    OBVIOUS
  <2> QED BY <2>3, <2>4, <2>5, <2>8, <2>9
<1>8. C \in T
  <2> HIDE DEF T
  <2> QED BY <1>1, <1>6, <1>7, OneByOne
<1>9. V(C) = P
  BY ConclusionsAre
<1> QED BY <1>4, <1>8, <1>9

LEMMA JaccardIs ==
  ASSUME NEW A, IsFiniteSet(A), NEW B, IsFiniteSet(B)
  PROVE  Q!IsShare(Q!Jaccard(A, B))
<1> DEFINE n == Cardinality(A \cup B)
           k == Cardinality(A \cap B)
<1>1. CASE A \cup B = {}
  <2>1. Q!Jaccard(A, B) = <<0, 1>>
    BY <1>1 DEF Q!Jaccard
  <2> QED BY <2>1 DEF Q!IsShare, Q!IsRate
<1>2. CASE A \cup B # {}
  <2>1. Q!Jaccard(A, B) = <<n - k, n>>
    BY <1>2, QualityCardinality DEF Q!Jaccard
  <2>2. IsFiniteSet(A \cup B) /\ n \in Nat
    BY FS_Union, FS_CardinalityType
  <2>3. A \cap B \in SUBSET (A \cup B)
    OBVIOUS
  <2>4. k \in Nat /\ k <= n
    BY <2>2, <2>3, FS_Subset, FS_CardinalityType
  <2>5. n - k \in 0..n
    BY <2>2, <2>4
  <2> QED BY <2>1, <2>5 DEF Q!IsShare, Q!IsRate
<1> QED BY <1>1, <1>2

LEMMA DiversitiesAgree ==
  ASSUME NEW P, IsFiniteSet(P), Cardinality(P) \in 2..16, NEW o, Measurable(o, P)
  PROVE  Q!DiversityOK(Q!Diversity(o))
<1> DEFINE d        == Q!Diversity(o)
           n        == Cardinality(P)
           squares  == Q!MapThenSumSet(
                         LAMBDA c : Q!Cardinality(Q!Backers(o, c)) * Q!Cardinality(Q!Backers(o, c)),
                         Q!Conclusions(o))
           embedded == {s \in P : o.candidates[s].embedded}
           sign     == [s \in P |-> <<o.candidates[s].conclusion, o.candidates[s].evidence>>]
           first(p) == CHOOSE s \in p : TRUE
           second(p) == CHOOSE s \in p : s # first(p)
<1>1. Q!Panel(o) = P
  BY DEF Measurable
<1>2. /\ d.normalized = <<n * n - squares, n * n - n>>
      /\ d.jaccard = [p \in Q!Pairs(P) |-> Q!Jaccard(o.candidates[first(p)].evidence,
                                                     o.candidates[second(p)].evidence)]
      /\ d.embedded = Cardinality(embedded)
      /\ d.cosines = Cardinality(Q!Pairs(embedded))
      /\ d.signatures = Cardinality({sign[s] : s \in P})
  <2>1. {sign[s] : s \in P} = {<<o.candidates[s].conclusion, o.candidates[s].evidence>> : s \in P}
    OBVIOUS
  <2>2. d = [id         |-> o.id,
             normalized |-> <<Q!Cardinality(Q!Panel(o)) * Q!Cardinality(Q!Panel(o)) - squares,
                              Q!Cardinality(Q!Panel(o)) * Q!Cardinality(Q!Panel(o))
                                - Q!Cardinality(Q!Panel(o))>>,
             jaccard    |-> [p \in Q!Pairs(Q!Panel(o)) |->
                               Q!Jaccard(o.candidates[first(p)].evidence,
                                         o.candidates[second(p)].evidence)],
             embedded   |-> Q!Cardinality({s \in Q!Panel(o) : o.candidates[s].embedded}),
             cosines    |-> Q!Cardinality(Q!Pairs({s \in Q!Panel(o) : o.candidates[s].embedded})),
             signatures |-> Q!Cardinality({<<o.candidates[s].conclusion, o.candidates[s].evidence>>
                                             : s \in Q!Panel(o)}),
             basis      |-> IF Q!Cardinality({s \in Q!Panel(o) : o.candidates[s].embedded}) < 2
                              THEN "signatures" ELSE "rank"]
    BY Zenon DEF Q!Diversity
  <2> HIDE DEF d, squares, first, second, sign
  <2> QED BY <1>1, <2>1, <2>2, QualityCardinality
<1> HIDE DEF d, squares, sign
<1>3. squares \in n..(n * n)
  BY SquaresFit DEF squares
<1>4. Q!IsShare(d.normalized)
  <2>1. n * n \in Nat
    OBVIOUS
  <2>2. n * n - squares \in 0..(n * n - n)
    BY <1>3, <2>1
  <2> HIDE DEF n
  <2>3. <<n * n - squares, n * n - n>>[1] = n * n - squares
        /\ <<n * n - squares, n * n - n>>[2] = n * n - n
    OBVIOUS
  <2> QED BY <1>2, <2>2, <2>3 DEF Q!IsShare, Q!IsRate
<1>5. ASSUME NEW p \in Q!Pairs(P) PROVE Q!IsShare(d.jaccard[p])
  <2>1. PICK a \in P, b \in P : p = {a, b} /\ a # b
    <3>1. PICK a \in P, b \in P : p = {a, b}
      BY DEF Q!Pairs
    <3>2. \A s \in P : p # {s}
      BY DEF Q!Pairs
    <3>3. a # b
      BY <3>1, <3>2
    <3> QED BY <3>1, <3>3
  <2>2. first(p) \in p
    BY <2>1
  <2> HIDE DEF first
  <2>3. \E s \in p : s # first(p)
    BY <2>1
  <2>4. second(p) \in p
    BY <2>3
  <2> HIDE DEF second
  <2>5. /\ IsFiniteSet(o.candidates[first(p)].evidence)
        /\ IsFiniteSet(o.candidates[second(p)].evidence)
    BY <2>1, <2>2, <2>4 DEF Measurable
  <2>6. d.jaccard[p] = Q!Jaccard(o.candidates[first(p)].evidence, o.candidates[second(p)].evidence)
    BY <1>2
  <2> QED BY <2>5, <2>6, JaccardIs
<1>6. DOMAIN d.jaccard = Q!Pairs(P)
  BY <1>2
<1>7. IsFiniteSet(embedded) /\ Cardinality(embedded) \in 0..16
  <2>1. IsFiniteSet(embedded) /\ Cardinality(embedded) <= n
    BY FS_Subset
  <2>2. Cardinality(embedded) \in Nat
    BY <2>1, FS_CardinalityType
  <2> QED BY <2>1, <2>2
<1>8. d.cosines \in 0..120
  <2> HIDE DEF embedded
  <2>1. /\ Cardinality(Q!Pairs(embedded)) \in Nat
        /\ 2 * Cardinality(Q!Pairs(embedded))
             = Cardinality(embedded) * Cardinality(embedded) - Cardinality(embedded)
    BY <1>7, PairsCount
  <2>2. \A k \in 0..16 : \A m \in Nat : 2 * m = k * k - k => m <= 120
    <3> SUFFICES ASSUME NEW k \in 0..16, NEW m \in Nat, 2 * m = k * k - k PROVE m <= 120
      OBVIOUS
    <3>1. k * k <= 16 * k
      OBVIOUS
    <3> QED BY <3>1
  <2> QED BY <1>2, <1>7, <2>1, <2>2
<1>9. d.signatures \in 1..16
  <2> DEFINE signs == {sign[s] : s \in P}
  <2>1. DOMAIN sign = P
    BY DEF sign
  <2>2. signs # {}
    <3>1. P # {}
      BY FS_EmptySet
    <3> QED BY <3>1
  <2>3. sign \in Surjection(P, signs)
    <3>1. sign \in [P -> signs] /\ \A y \in signs : \E x \in P : sign[x] = y
      BY DEF sign
    <3> HIDE DEF signs
    <3> QED BY <3>1, Zenon DEF Surjection
  <2> HIDE DEF signs
  <2>4. IsFiniteSet(signs) /\ Cardinality(signs) <= n
    BY <2>3, FS_Surjection
  <2>5. Cardinality(signs) \in Nat /\ Cardinality(signs) # 0
    BY <2>2, <2>4, FS_CardinalityType, FS_EmptySet
  <2> QED BY <1>2, <2>4, <2>5 DEF signs
<1> QED BY <1>2, <1>4, <1>5, <1>6, <1>7, <1>8, <1>9 DEF Q!DiversityOK, d

LEMMA FiniteHasBound ==
  ASSUME NEW U, IsFiniteSet(U), U \subseteq Nat
  PROVE  \E b \in Nat : U \subseteq 0..b
<1> DEFINE T == {s \in SUBSET U : \E b \in Nat : s \subseteq 0..b}
<1>1. {} \in T
  OBVIOUS
<1>2. ASSUME NEW s \in SUBSET U, NEW x \in U \ s, s \in T PROVE s \cup {x} \in T
  <2>1. PICK b \in Nat : s \subseteq 0..b
    BY <1>2
  <2>2. b + x \in Nat /\ s \cup {x} \subseteq 0..(b + x)
    BY <2>1
  <2> QED BY <2>2
<1>3. U \in T
  <2> HIDE DEF T
  <2> QED BY <1>1, <1>2, OneByOne
<1> QED BY <1>3

(* What the types of the input schema ask of an observation.               *)
Labelled(o) ==
  /\ o.id \in Nat /\ o.at \in Nat
  /\ Q!Panel(o) \in SUBSET Nat /\ IsFiniteSet(Q!Panel(o)) /\ Cardinality(Q!Panel(o)) <= 16
  /\ \A s \in Q!Panel(o) : /\ o.candidates[s].correct \in BOOLEAN
                           /\ IsFiniteSet(o.candidates[s].evidence)
                           /\ o.candidates[s].conclusion # None

(* For valid observations of any number, of any panel, the sections of a   *)
(* report, computed apart from each other, tell one story and pass all of  *)
(* the schema that the report is parsed with but the rounded rates of the  *)
(* selection regret (aggregateEnsembleQuality).                            *)
THEOREM QualitySectionsAgree ==
  ASSUME NEW obs, NEW n \in Nat, DOMAIN obs = 1..n,
         \A i \in 1..n : Labelled(obs[i]), Q!ObservationsOK(obs)
  PROVE  OneStory(Q!Aggregate(obs))
<1> DEFINE P     == Q!Panel(obs[1])
           q     == Q!ById(obs)
           panel == Q!SortedPanel(q[1])
           times == {q[i].at : i \in DOMAIN q}
           r     == Q!Aggregate(obs)
           lost  == Cardinality(Lost(q, P))
<1>1. n # 0 /\ 1 \in 1..n
  BY DEF Q!ObservationsOK
<1>2. \A i \in 1..n : Q!Panel(obs[i]) = P
  BY <1>1 DEF Q!ObservationsOK
<1>3. \A i \in 1..n : Measurable(obs[i], P)
  BY <1>2 DEF Q!ObservationsOK, Q!ObservationOK, Labelled, Measurable
<1>4. P \in SUBSET Nat /\ IsFiniteSet(P) /\ Cardinality(P) \in 2..16
  <2>1. P \in SUBSET Nat /\ IsFiniteSet(P) /\ Cardinality(P) <= 16
    BY <1>1 DEF Labelled
  <2>2. Cardinality(P) >= 2
    BY <1>1, QualityCardinality DEF Q!ObservationsOK, Q!ObservationOK
  <2> QED BY <2>1, <2>2, FS_CardinalityType
<1>5. DOMAIN q = 1..n /\ \A i \in 1..n : \E j \in 1..n : q[i] = obs[j]
  <2>1. \A i \in 1..n : obs[i].id \in Nat
    BY DEF Labelled
  <2>2. \A i, j \in 1..n : i # j => obs[i].id # obs[j].id
    BY DEF Q!ObservationsOK
  <2> HIDE DEF q
  <2> QED BY <2>1, <2>2, OrderedAre DEF q
<1> HIDE DEF P, q
<1>6. Measurables(q, n, P)
  <2>1. \A i \in 1..n : Measurable(q[i], P)
    BY <1>3, <1>5
  <2>2. Len(q) = n
    BY <1>5
  <2> QED BY <1>5, <2>1, <2>2 DEF Measurables
<1>7. Lists(panel, P)
  <2>1. Q!Panel(q[1]) = P
    BY <1>1, <1>6 DEF Measurables, Measurable
  <2> QED BY <1>4, <2>1, PanelIsSorted DEF Lists
<1>8. Q!Min(times) <= Q!Max(times)
  <2> DEFINE at == [i \in DOMAIN q |-> q[i].at]
  <2>1. times \subseteq Nat /\ times # {}
    BY <1>1, <1>6 DEF Measurables, Measurable
  <2>2. DOMAIN q = 1..n /\ IsFiniteSet(1..n)
    <3>1. n \in Int /\ 1 \in Int
      OBVIOUS
    <3> QED BY <1>5, <3>1, FS_Interval
  <2>3. times = {at[i] : i \in 1..n} /\ DOMAIN at = 1..n
    BY <2>2
  <2> HIDE DEF times, at
  <2>4. IsFiniteSet(times)
    BY <2>2, <2>3, ImageIsFinite
  <2>5. PICK b \in Nat : times \subseteq 0..b
    BY <2>1, <2>4, FiniteHasBound
  <2>6. Q!Max(times) \in times /\ \A t \in times : Q!Max(times) >= t
    BY <2>1, <2>5, GreatestWin
  <2>7. Min(times) \in times /\ Q!Min(times) = Min(times)
    BY <2>1, LeastOf DEF Q!Min, Min
  <2> QED BY <2>6, <2>7
<1> HIDE DEF panel, times
<1>9. r = [type       |-> q[1].type,
           started    |-> Q!Min(times),
           ended      |-> Q!Max(times),
           count      |-> Len(q),
           panel      |-> panel,
           cofailure  |-> Q!Cofailure(q, panel),
           regret     |-> Q!SelectionRegret(q, panel),
           minorities |-> [i \in DOMAIN q |-> Q!MinorityReport(q[i])],
           diversity  |-> [i \in DOMAIN q |-> Q!Diversity(q[i])]]
  BY Zenon DEF Q!Aggregate, q, panel, times
<1> HIDE DEF r
<1>10. /\ r.started = Q!Min(times) /\ r.ended = Q!Max(times) /\ r.count = n /\ r.panel = panel
       /\ r.cofailure = Q!Cofailure(q, panel) /\ r.regret = Q!SelectionRegret(q, panel)
       /\ r.minorities = [i \in 1..n |-> Q!MinorityReport(q[i])]
       /\ r.diversity = [i \in 1..n |-> Q!Diversity(q[i])]
  BY <1>6, <1>9 DEF Measurables
<1>11. P # {}
  BY <1>4, FS_EmptySet
<1>12. CofailureAgrees(r.cofailure, n, panel, lost) /\ r.cofailure.sources = RightCounts(q, panel)
  BY <1>6, <1>7, <1>10, CofailuresAgree
<1>13. RegretAgrees(r.regret, n, lost, panel, r.cofailure.sources)
  BY <1>6, <1>7, <1>10, <1>11, <1>12, RegretsAgree
<1>14. /\ DOMAIN r.minorities = 1..n /\ Len(r.minorities) = n
       /\ \A i \in 1..n : MinorityAgrees(r.minorities[i], P)
  <2>1. DOMAIN r.minorities = 1..n /\ Len(r.minorities) = n
    BY <1>10
  <2> SUFFICES ASSUME NEW i \in 1..n PROVE MinorityAgrees(r.minorities[i], P)
    BY <2>1
  <2>2. r.minorities[i] = Q!MinorityReport(q[i]) /\ Measurable(q[i], P)
    BY <1>6, <1>10 DEF Measurables
  <2> QED BY <1>4, <1>11, <2>2, MinoritiesAgree
<1>15. /\ DOMAIN r.diversity = 1..n /\ Len(r.diversity) = n
       /\ \A i \in 1..n : Q!DiversityOK(r.diversity[i])
  <2>1. DOMAIN r.diversity = 1..n /\ Len(r.diversity) = n
    BY <1>10
  <2> SUFFICES ASSUME NEW i \in 1..n PROVE Q!DiversityOK(r.diversity[i])
    BY <2>1
  <2>2. r.diversity[i] = Q!Diversity(q[i]) /\ Measurable(q[i], P)
    BY <1>6, <1>10 DEF Measurables
  <2> QED BY <1>4, <2>2, DiversitiesAgree
<1>16. Len(r.panel) \in 2..16 /\ Range(r.panel) = P
  BY <1>4, <1>7, <1>10 DEF Lists
<1> HIDE DEF lost
<1>17. Q!ShapeOK(r)
  BY <1>8, <1>10, <1>12, <1>13, <1>14, <1>15, <1>16
     DEF Q!ShapeOK, CofailureAgrees, PairAgrees, RegretAgrees, MinorityAgrees
<1>18. r.regret.oracle + r.cofailure.allFailed = r.count
         /\ r.regret.bestSources = BestOf(r.panel, r.cofailure.sources)
  BY <1>10, <1>12, <1>13 DEF CofailureAgrees, RegretAgrees
<1>19. \A p \in DOMAIN r.cofailure.pairs :
         PairAgrees(r.cofailure.pairs[p], n, r.cofailure.allFailed,
                    r.count - r.cofailure.sources[p[1]], r.count - r.cofailure.sources[p[2]])
  BY <1>10, <1>12 DEF CofailureAgrees
<1>20. OneStory(r)
  BY <1>14, <1>16, <1>17, <1>18, <1>19 DEF OneStory, PairAgrees, Rescues, MinorityAgrees, BestOf
<1> QED BY <1>20 DEF r

-----------------------------------------------------------------------------
(* Setup: the generator and the doctor                                     *)

LEMMA PlaceholdersAreHarmless ==
  ASSUME NEW c
  PROVE  /\ S!Placeholders(c) \cap S!ForbiddenVariables = {}
         /\ "SUPABASE_URL" \in S!Placeholders(c) <=> c.persistence = "supabaseAuditRpc"
         /\ "SUPABASE_ANON_KEY" \in S!Placeholders(c) <=> c.persistence = "supabaseAuditRpc"
BY DEF S!Placeholders, S!ForbiddenVariables

LEMMA ConfigDecidesMode ==
  ASSUME NEW mode \in S!Modes
  PROVE  S!ResolveMode("absent", mode, "absent").mode = mode
<1> DEFINE asked == <<<<"absent", "request">>, <<mode, "config">>, <<"absent", "env">>>>
           given == {i \in DOMAIN asked : asked[i][1] # "absent"}
<1>1. DOMAIN asked = 1..3 /\ asked[1][1] = "absent" /\ asked[2] = <<mode, "config">>
        /\ asked[3][1] = "absent" /\ mode # "absent"
  BY DEF S!Modes
<1> HIDE DEF asked
<1>2. given = {2}
  BY <1>1
<1>3. S!Min(given) = 2
  BY <1>2 DEF S!Min
<1> HIDE DEF given
<1>4. S!ResolveMode("absent", mode, "absent").mode = mode
  BY <1>1, <1>2, <1>3 DEF S!ResolveMode, asked, given
<1> QED BY <1>4

(* What the generator accepts, the doctor finds sound: it parses, its mode *)
(* and audit are those of the config, and it has no error but for an       *)
(* enabled adaptive section with its fallback disabled and for an endpoint *)
(* with an at sign in its path and no user information                     *)
(* (generateQuorumRouterConfig and runDoctorChecks).                       *)
THEOREM DoctorTakesGenerated ==
  ASSUME NEW in, S!Generated(in) # <<>>, NEW endpoint \in SUBSET {"url", "user", "at"}
  PROVE  LET config == S!Generated(in)[1]
             env    == S!Placeholders(config)
             asked  == "OTLP_ENDPOINT" \in env
             doctor == S!Doctor(<<config>>, env, IF asked THEN endpoint ELSE {}, "absent")
         IN  /\ doctor.errors =
                  (IF config.adaptive.enabled /\ config.adaptive.fallbackPolicy = "disabled"
                   THEN {"setup_adaptive_direct"} ELSE {})
                  \cup (IF asked /\ endpoint = {"url", "at"} THEN {"otlp_endpoint_masking"} ELSE {})
             /\ doctor.mode = config.mode
             /\ (doctor.audit = "configured") = (config.persistence = "supabaseAuditRpc")
             /\ doctor.audit # "incomplete"
<1> DEFINE config == S!Merged(in)
           env    == S!Placeholders(config)
           asked  == "OTLP_ENDPOINT" \in env
           given  == IF asked THEN endpoint ELSE {}
           doctor == S!Doctor(<<config>>, env, given, "absent")
<1>1. /\ S!Generated(in) = <<config>> /\ S!SectionsOK(config)
      /\ \A i \in DOMAIN config.providers : S!ProviderOK(config.providers[i])
  BY DEF S!Generated
<1>2. S!UnregisteredProviders(config) = {}
  BY <1>1 DEF S!UnregisteredProviders, S!ProviderOK
<1>3. config.mode \in S!Modes /\ S!AdaptiveShape(config.adaptive)
  <2> HIDE DEF config
  <2> QED BY <1>1 DEF S!SectionsOK
<1>4. S!ResolveMode("absent", config.mode, "absent").mode = config.mode
  BY <1>3, ConfigDecidesMode
<1>5. S!AdaptiveOK(config) <=> ~ (config.adaptive.enabled /\ config.adaptive.fallbackPolicy = "disabled")
  <2> HIDE DEF config
  <2> QED BY <1>3 DEF S!AdaptiveOK, S!AdaptiveShape
<1> HIDE DEF config
<1>6. <<config>> # <<>> /\ <<config>>[1] = config
  OBVIOUS
<1>7. doctor.mode = config.mode
  BY <1>1, <1>4, <1>6 DEF S!Doctor
<1>8. ("at" \in S!Masked(given) /\ "redacted" \notin S!Masked(given))
        <=> (asked /\ endpoint = {"url", "at"})
  <2>1. /\ "at" \in S!Masked(given) <=> "url" \in given /\ ("user" \in given \/ "at" \in given)
        /\ "redacted" \in S!Masked(given) <=> "url" \in given /\ "user" \in given
    <3> HIDE DEF given
    <3> QED BY DEF S!Masked
  <2>2. "url" \in given /\ "user" \notin given /\ "at" \in given <=> given = {"url", "at"}
    OBVIOUS
  <2>3. given = {"url", "at"} <=> asked /\ endpoint = {"url", "at"}
    OBVIOUS
  <2> HIDE DEF given, asked
  <2> QED BY <2>1, <2>2, <2>3
<1>9. doctor.errors = (IF config.adaptive.enabled /\ config.adaptive.fallbackPolicy = "disabled"
                       THEN {"setup_adaptive_direct"} ELSE {})
                      \cup (IF asked /\ endpoint = {"url", "at"} THEN {"otlp_endpoint_masking"}
                            ELSE {})
  <2>1. config.mode # "invalid" /\ "absent" \in S!Modes \cup {"absent"}
    BY <1>3 DEF S!Modes
  <2>2. env \cap S!ForbiddenVariables = {}
    BY PlaceholdersAreHarmless
  <2> HIDE DEF env, given, asked
  <2> QED BY <1>1, <1>2, <1>4, <1>5, <1>6, <1>8, <2>1, <2>2 DEF S!Doctor
<1>10. doctor.audit = IF config.persistence = "supabaseAuditRpc" THEN "configured" ELSE "not configured"
  <2> HIDE DEF given
  <2> QED BY PlaceholdersAreHarmless DEF S!Doctor
<1> HIDE DEF doctor
<1>11. S!Generated(in)[1] = config
  BY <1>1, <1>6
<1> QED BY <1>7, <1>9, <1>10, <1>11, Zenon DEF doctor, given, asked, env

(* Whatever the generator accepts in the run passes the doctor, as above.  *)
THEOREM GeneratedConfigPassesDoctorCorrect == Spec => []GeneratedConfigPassesDoctor
<1>1. DecisionInv => GeneratedConfigPassesDoctor
  <2> SUFFICES ASSUME DecisionInv, Accepted PROVE GeneratedConfigPassesDoctor
    BY DEF GeneratedConfigPassesDoctor
  <2>1. input \in SetupInputs /\ result = <<S!Generated(input)>> /\ S!Generated(input) # <<>>
    BY DEF DecisionInv, SetupInv, Accepted
  <2>2. Config = S!Generated(input)[1]
    BY <2>1 DEF Config
  <2> QED BY <2>1, <2>2, DoctorTakesGenerated DEF GeneratedConfigPassesDoctor
<1> QED BY <1>1, DecisionInvariant, PTL

-----------------------------------------------------------------------------
(* The registry                                                            *)

(* A key is registered with one of the capabilities that have it.          *)
LEMMA RegistryIs ==
  ASSUME NEW caps, NEW n \in Nat, DOMAIN caps = 1..n, NEW d, S!Registered(S!Registry(caps), d)
  PROVE  \E i \in 1..n : /\ S!DescriptorKey(caps[i].descriptor) = S!DescriptorKey(d)
                         /\ S!Get(S!Registry(caps), d) = caps[i]
<1> DEFINE key(i)   == S!DescriptorKey(caps[i].descriptor)
           given(k) == {i \in DOMAIN caps : key(i) = k}
           k        == S!DescriptorKey(d)
           m        == S!Max(given(k))
<1>1. S!Registry(caps) = [x \in {key(i) : i \in DOMAIN caps} |-> caps[S!Max(given(x))]]
  BY Zenon DEF S!Registry
<1>2. k \in {key(i) : i \in DOMAIN caps}
  <2> HIDE DEF key, k
  <2>1. k \in DOMAIN S!Registry(caps)
    BY Zenon DEF S!Registered, k
  <2> QED BY <1>1, <2>1
<1>3. given(k) # {} /\ given(k) \subseteq 0..n
  <2> HIDE DEF key, k
  <2> QED BY <1>2
<1>4. m \in given(k)
  <2> HIDE DEF given
  <2> QED BY <1>3, GreatestOf
<1>5. S!Registry(caps)[k] = caps[m]
  <2> HIDE DEF key, k, given
  <2> QED BY <1>1, <1>2
<1>6. m \in 1..n /\ key(m) = k
  <2> HIDE DEF m, key, k
  <2> QED BY <1>4
<1> HIDE DEF m
<1> QED BY <1>5, <1>6 DEF S!Get

LEMMA DefaultsAre ==
  LET caps == S!DefaultCapabilities IN
  /\ DOMAIN caps = 1..10
  /\ caps[1] = S!Capability(S!CodexCli, FALSE, TRUE, 3, TRUE)
  /\ caps[2] = S!Capability(S!CodexSynthesis, TRUE, TRUE, 4, TRUE)
  /\ caps[3] = S!Capability(S!ClaudeCode, FALSE, FALSE, 4, TRUE)
  /\ caps[4] = S!Capability(S!GeminiCli, FALSE, FALSE, 2, TRUE)
  /\ caps[5] = S!Capability(S!GrokCli, FALSE, FALSE, 3, TRUE)
  /\ caps[6] = S!Capability(S!DevinCli, FALSE, FALSE, 5, TRUE)
  /\ caps[7] = S!Capability(S!ClineCli, FALSE, FALSE, 3, TRUE)
  /\ caps[8] = S!Capability(S!ZcodeGlm, FALSE, FALSE, 2, TRUE)
  /\ caps[9] = S!Capability(S!OpenAI, TRUE, TRUE, 2, TRUE)
  /\ caps[10] = S!Capability(S!Anthropic, FALSE, FALSE, 3, TRUE)
BY DEF S!DefaultCapabilities

(* The ten capabilities: the two of synthesis, and the others.             *)
ForSynthesis == {S!Capability(S!CodexSynthesis, TRUE, TRUE, 4, TRUE),
                 S!Capability(S!OpenAI, TRUE, TRUE, 2, TRUE)}

ForAnswers == {S!Capability(S!CodexCli, FALSE, TRUE, 3, TRUE),
               S!Capability(S!ClaudeCode, FALSE, FALSE, 4, TRUE),
               S!Capability(S!GeminiCli, FALSE, FALSE, 2, TRUE),
               S!Capability(S!GrokCli, FALSE, FALSE, 3, TRUE),
               S!Capability(S!DevinCli, FALSE, FALSE, 5, TRUE),
               S!Capability(S!ClineCli, FALSE, FALSE, 3, TRUE),
               S!Capability(S!ZcodeGlm, FALSE, FALSE, 2, TRUE),
               S!Capability(S!Anthropic, FALSE, FALSE, 3, TRUE)}

(* Every provider that the registry knows is one of the ten, by its key.   *)
LEMMA DefaultRegistryIs ==
  ASSUME NEW d, S!Registered(S!DefaultRegistry, d)
  PROVE  \E c \in ForSynthesis \cup ForAnswers :
           /\ S!DescriptorKey(c.descriptor) = S!DescriptorKey(d)
           /\ S!Get(S!DefaultRegistry, d) = c
<1> DEFINE caps == S!DefaultCapabilities
<1>1. DOMAIN caps = 1..10
  BY DefaultsAre
<1>2. S!DefaultRegistry = S!Registry(caps)
  BY DEF S!DefaultRegistry
<1> HIDE DEF caps
<1>3. PICK i \in 1..10 : /\ S!DescriptorKey(caps[i].descriptor) = S!DescriptorKey(d)
                         /\ S!Get(S!DefaultRegistry, d) = caps[i]
  BY <1>1, <1>2, RegistryIs
<1>4. i = 1 \/ i = 2 \/ i = 3 \/ i = 4 \/ i = 5 \/ i = 6 \/ i = 7 \/ i = 8 \/ i = 9 \/ i = 10
  OBVIOUS
<1>5. caps[i] \in ForSynthesis \cup ForAnswers
  BY <1>4, DefaultsAre DEF caps, ForSynthesis, ForAnswers
<1> QED BY <1>3, <1>5

(* The names of the code are told apart by their keys.                     *)
LEMMA OneSpelling ==
  ASSUME NEW f \in S!Fields, NEW n \in FieldNames(f), NEW m \in FieldNames(f),
         S!Lower(n) = S!Lower(m)
  PROVE  n = m
BY SpellingsAssumption

LEMMA NamesAre ==
  /\ \A a \in S!Adapters \cup {S!CodexSynthesis}, f \in S!Fields : a[f] \in FieldNames(f)
  /\ "Local" \in FieldNames("provider")
  /\ S!SetupAuthModes \subseteq FieldNames("authMode")
  /\ S!SetupTransports \subseteq FieldNames("transport")
<1>1. \A a \in S!Adapters \cup {S!CodexSynthesis}, f \in S!Fields : a[f] \in FieldNames(f)
  BY DEF FieldNames
<1>2. "Local" \in FieldNames("provider")
  BY DEF FieldNames
<1>3. S!SetupAuthModes \subseteq FieldNames("authMode")
  BY DEF FieldNames
<1>4. S!SetupTransports \subseteq FieldNames("transport")
  BY DEF FieldNames
<1> QED BY <1>1, <1>2, <1>3, <1>4

LEMMA KeyFields ==
  ASSUME NEW d, NEW e, S!DescriptorKey(d) = S!DescriptorKey(e), NEW f \in S!Fields
  PROVE  S!Lower(d[f]) = S!Lower(e[f])
<1>1. S!DescriptorKey(d)[f] = S!DescriptorKey(e)[f]
  BY Zenon
<1> QED BY <1>1, Zenon DEF S!DescriptorKey

(* A provider that may synthesize is one of two, but for its spelling.     *)
LEMMA SynthesizersAre ==
  ASSUME NEW d, S!SynthesisCapable(S!DefaultRegistry, d)
  PROVE  /\ S!Get(S!DefaultRegistry, d) \in ForSynthesis
         /\ S!Get(S!DefaultRegistry, d).enabled
         /\ S!Get(S!DefaultRegistry, d).supportsSynthesis
         /\ S!Get(S!DefaultRegistry, d).descriptor \in {S!CodexSynthesis, S!OpenAI}
         /\ \A f \in S!Fields :
              S!Lower(S!Get(S!DefaultRegistry, d).descriptor[f]) = S!Lower(d[f])
<1> DEFINE c == S!Get(S!DefaultRegistry, d)
           e == c.descriptor
<1>1. S!Registered(S!DefaultRegistry, d) /\ c.enabled /\ c.supportsSynthesis
  BY DEF S!SynthesisCapable
<1>2. S!DescriptorKey(e) = S!DescriptorKey(d)
  BY <1>1, DefaultRegistryIs
<1>3. c \in ForSynthesis
  <2>1. c \in ForSynthesis \cup ForAnswers
    BY <1>1, DefaultRegistryIs
  <2>2. \A x \in ForAnswers : ~ x.supportsSynthesis
    BY DEF ForAnswers, S!Capability
  <2> QED BY <1>1, <2>1, <2>2
<1>4. e \in {S!CodexSynthesis, S!OpenAI}
  <2>1. \A x \in ForSynthesis : x.descriptor \in {S!CodexSynthesis, S!OpenAI}
    BY DEF ForSynthesis, S!Capability
  <2> QED BY <1>3, <2>1
<1> HIDE DEF e
<1>5. \A f \in S!Fields : S!Lower(e[f]) = S!Lower(d[f])
  BY <1>2, KeyFields
<1> QED BY <1>1, <1>3, <1>4, <1>5 DEF e

(* Are the modes of a descriptor among those of the setup's schema?        *)
Posed(d) == d["authMode"] \in S!SetupAuthModes /\ d["transport"] \in S!SetupTransports

(* A provider that may synthesize is a synthesis candidate of the policy   *)
(* if its client is spelled as in the registry, and is refused if not.     *)
LEMMA SynthesizersAreChosen ==
  ASSUME NEW d, S!SynthesisCapable(S!DefaultRegistry, d), Posed(d)
  PROVE  S!SynthesisChoice(S!DefaultRegistry, NoHints, <<d>>)
           = IF d.client = S!Get(S!DefaultRegistry, d).descriptor.client THEN d ELSE None
<1> DEFINE one == <<d>>
           c   == S!Get(S!DefaultRegistry, d)
           e   == c.descriptor
           fit == {i \in DOMAIN one :
                     /\ S!Capable(S!DefaultRegistry, one[i])
                     /\ S!Get(S!DefaultRegistry, one[i]).supportsSynthesis
                     /\ S!Ready(NoHints, one[i])}
<1>1. DOMAIN one = {1} /\ one[1] = d
  OBVIOUS
<1>2. S!Capable(S!DefaultRegistry, d) <=> d.client = e.client
  <2>1. /\ e \in S!Adapters \cup {S!CodexSynthesis} /\ S!Registered(S!DefaultRegistry, d)
        /\ c.enabled /\ \A f \in S!Fields : S!Lower(e[f]) = S!Lower(d[f])
    <3>1. S!OpenAI \in S!Adapters
      BY DEF S!Adapters
    <3>2. S!Registered(S!DefaultRegistry, d)
      BY DEF S!SynthesisCapable
    <3> QED BY <3>1, <3>2, SynthesizersAre
  <2> HIDE DEF e, c
  <2>2. e["authMode"] = d["authMode"]
    <3>1. "authMode" \in S!Fields
      BY DEF S!Fields
    <3>2. e["authMode"] \in FieldNames("authMode") /\ d["authMode"] \in FieldNames("authMode")
      BY <2>1, <3>1, NamesAre DEF Posed
    <3> QED BY <2>1, <3>1, <3>2, OneSpelling
  <2>3. e["transport"] = d["transport"]
    <3>1. "transport" \in S!Fields
      BY DEF S!Fields
    <3>2. e["transport"] \in FieldNames("transport") /\ d["transport"] \in FieldNames("transport")
      BY <2>1, <3>1, NamesAre DEF Posed
    <3> QED BY <2>1, <3>1, <3>2, OneSpelling
  <2>4. S!Capable(S!DefaultRegistry, d)
          <=> \A f \in {"authMode", "transport", "client"} : e[f] = d[f]
    BY <2>1 DEF S!Capable, e, c
  <2> QED BY <2>2, <2>3, <2>4
<1>3. S!Ready(NoHints, d) /\ c.supportsSynthesis
  <2>1. S!Hint(NoHints, d) = <<>>
    BY DEF S!Hint, NoHints
  <2> QED BY <2>1, SynthesizersAre DEF S!Ready
<1>4. fit = IF d.client = e.client THEN {1} ELSE {}
  <2>1. \A i \in DOMAIN one : i \in fit <=> d.client = e.client
    <3> HIDE DEF one, e
    <3> QED BY <1>1, <1>2, <1>3
  <2> HIDE DEF one, e
  <2> QED BY <1>1, <2>1
<1>5. S!Min({1}) = 1
  BY DEF S!Min
<1>6. S!SynthesisChoice(S!DefaultRegistry, NoHints, one) = IF fit = {} THEN None ELSE one[S!Min(fit)]
  BY Zenon DEF S!SynthesisChoice
<1> HIDE DEF fit
<1> QED BY <1>1, <1>4, <1>5, <1>6 DEF one

(* Whatever is selected among candidates is one that may synthesize.       *)
LEMMA SelectionsFit ==
  ASSUME NEW candidates, NEW fit \in SUBSET (DOMAIN candidates), DOMAIN candidates \subseteq Nat,
         \A i \in fit : S!SynthesisCapable(S!DefaultRegistry, candidates[i]),
         NEW chosen, chosen = S!Selection(candidates, fit)
  PROVE  /\ chosen # <<"error">>
         /\ chosen[1] = "selected" => /\ S!SynthesisCapable(S!DefaultRegistry, chosen[2])
                                      /\ \E i \in DOMAIN candidates : chosen[2] = candidates[i]
<1>1. CASE fit = {}
  <2>1. chosen = <<"none">>
    BY <1>1 DEF S!Selection
  <2> QED BY <2>1
<1>2. CASE fit # {}
  <2>1. Min(fit) \in fit
    BY <1>2, LeastOf
  <2>2. S!Min(fit) = Min(fit)
    BY DEF S!Min, Min
  <2>3. chosen = <<"selected", candidates[S!Min(fit)]>>
    BY <1>2 DEF S!Selection
  <2> QED BY <2>1, <2>2, <2>3
<1> QED BY <1>1, <1>2

(* A commander section that the generator accepts never makes the          *)
(* selection throw, but for a provider named Local outside the explicit    *)
(* strategy; what is selected is a synthesis that the policy accepts,      *)
(* unless its client is spelled in another case than in the registry: for  *)
(* all sections, spellings and candidates of the schemas' modes            *)
(* (assertCommanderCombination, selectCommander, selectSynthesisCandidate, *)
(* capabilityRejectionReason).                                             *)
THEOREM CommandersSelect ==
  ASSUME NEW c, S!CommanderShape(c), S!CommanderOK(c),
         NEW candidates, DOMAIN candidates \subseteq Nat,
         \A i \in DOMAIN candidates : Posed(candidates[i])
  PROVE  LET chosen == S!SelectCommander(c, candidates, S!DefaultRegistry)
             named  == c.enabled /\ c.strategy # "explicit" /\ c.mode = "direct_synthesis"
                         /\ c.descriptor.provider = "Local" /\ ~ S!IsLocal(c.descriptor)
         IN  /\ chosen = <<"error">> => named
             /\ chosen[1] = "selected" =>
                  LET d == chosen[2] IN
                  S!SynthesisChoice(S!DefaultRegistry, NoHints, <<d>>)
                    = IF d.client = S!Get(S!DefaultRegistry, d).descriptor.client THEN d ELSE None
<1> DEFINE chosen == S!SelectCommander(c, candidates, S!DefaultRegistry)
           named  == c.enabled /\ c.strategy # "explicit" /\ c.mode = "direct_synthesis"
                       /\ c.descriptor.provider = "Local" /\ ~ S!IsLocal(c.descriptor)
           d      == c.descriptor
<1> HIDE DEF chosen
<1>1. /\ chosen = <<"error">> => named
      /\ chosen[1] = "selected" => /\ S!SynthesisCapable(S!DefaultRegistry, chosen[2])
                                   /\ Posed(chosen[2])
  <2>0. c.mode \in {"direct_synthesis", "agent_chat_future"}
    BY DEF S!CommanderShape
  <2>1. CASE ~ c.enabled \/ c.mode = "agent_chat_future"
    <3>1. chosen = <<"none">>
      BY <2>1 DEF chosen, S!SelectCommander
    <3> QED BY <3>1
  <2>2. CASE c.enabled /\ c.mode = "direct_synthesis" /\ c.strategy = "explicit"
    <3>1. CASE S!LocalPlaceholder(c)
      <4>1. chosen = <<"placeholder">>
        BY <2>2, <3>1 DEF chosen, S!SelectCommander
      <4> QED BY <4>1
    <3>2. CASE ~ S!LocalPlaceholder(c)
      <4>1. /\ ~ c.local /\ ~ S!IsLocal(d) /\ S!Complete(d)
            /\ S!SynthesisCapable(S!DefaultRegistry, d)
        BY <2>2, <3>2 DEF S!CommanderOK, S!ExplicitOK
      <4>2. d["provider"] # "Local"
        <5> SUFFICES ASSUME d["provider"] = "Local" PROVE FALSE
          OBVIOUS
        <5> DEFINE e == S!Get(S!DefaultRegistry, d).descriptor
        <5>1. "provider" \in S!Fields
          BY DEF S!Fields
        <5>2. e \in {S!CodexSynthesis, S!OpenAI} /\ S!Lower(e["provider"]) = S!Lower("Local")
          BY <4>1, <5>1, SynthesizersAre
        <5> HIDE DEF e
        <5>3. e["provider"] = "OpenAI" /\ e \in S!Adapters \cup {S!CodexSynthesis}
          BY <5>2 DEF S!CodexSynthesis, S!OpenAI, S!Descriptor, S!Adapters
        <5>4. e["provider"] \in FieldNames("provider") /\ "Local" \in FieldNames("provider")
          BY <5>1, <5>3, NamesAre
        <5>5. e["provider"] = "Local"
          BY <5>1, <5>2, <5>4, OneSpelling
        <5> QED BY <5>3, <5>5
      <4>3. ~ S!AnyLocalShape(c)
        BY <4>1, <4>2 DEF S!AnyLocalShape, S!IsLocal
      <4>4. chosen = <<"selected", d>>
        BY <2>2, <3>2, <4>1, <4>3 DEF chosen, S!SelectCommander, S!ExplicitCommander
      <4>5. Posed(d)
        <5>1. d["authMode"] # None /\ d["transport"] # None
          BY <4>1 DEF S!Complete, S!Fields
        <5> QED BY <5>1 DEF S!CommanderShape, Posed
      <4> QED BY <4>1, <4>4, <4>5
    <3> QED BY <3>1, <3>2
  <2>3. CASE c.enabled /\ c.mode = "direct_synthesis" /\ c.strategy # "explicit"
    <3>1. ~ c.local /\ ~ S!IsLocal(d)
      BY <2>3 DEF S!CommanderOK
    <3>2. CASE S!AnyLocalShape(c)
      <4>1. chosen = <<"error">>
        BY <2>3, <3>2 DEF chosen, S!SelectCommander
      <4>2. named
        BY <2>3, <3>1, <3>2 DEF S!AnyLocalShape, S!IsLocal
      <4> QED BY <4>1, <4>2
    <3>3. CASE ~ S!AnyLocalShape(c) /\ c.strategy = "first_eligible_synthesis"
      <4>1. chosen = S!FirstEligible(S!DefaultRegistry, candidates)
        BY <2>3, <3>3 DEF chosen, S!SelectCommander
      <4> QED BY <4>1, SelectionsFit DEF S!FirstEligible
    <3>4. CASE ~ S!AnyLocalShape(c) /\ c.strategy # "first_eligible_synthesis"
      <4>1. chosen = S!HighestCapability(S!DefaultRegistry, candidates)
        BY <2>3, <3>4 DEF chosen, S!SelectCommander
      <4> DEFINE fit   == {i \in DOMAIN candidates :
                             S!SynthesisCapable(S!DefaultRegistry, candidates[i])}
                 of(i) == S!Get(S!DefaultRegistry, candidates[i])
                 best  == {i \in fit : \A j \in fit :
                             \/ S!Score(of(i)) > S!Score(of(j))
                             \/ S!Score(of(i)) = S!Score(of(j)) /\ of(i).cost <= of(j).cost}
      <4>2. chosen = S!Selection(candidates, best)
        BY <4>1, Zenon DEF S!HighestCapability
      <4>3. best \in SUBSET (DOMAIN candidates)
            /\ \A i \in best : S!SynthesisCapable(S!DefaultRegistry, candidates[i])
        OBVIOUS
      <4> HIDE DEF best
      <4> QED BY <4>2, <4>3, SelectionsFit
    <3> QED BY <3>2, <3>3, <3>4
  <2> QED BY <2>0, <2>1, <2>2, <2>3
<1>2. chosen[1] = "selected" =>
        S!SynthesisChoice(S!DefaultRegistry, NoHints, <<chosen[2]>>)
          = IF chosen[2].client = S!Get(S!DefaultRegistry, chosen[2]).descriptor.client
            THEN chosen[2] ELSE None
  BY <1>1, SynthesizersAreChosen
<1> QED BY <1>1, <1>2 DEF chosen

(* The candidates of the run have the schemas' modes.                      *)
LEMMA RunCandidates ==
  ASSUME NEW candidates \in CandidateLists
  PROVE  DOMAIN candidates \subseteq Nat /\ \A i \in DOMAIN candidates : Posed(candidates[i])
<1> DEFINE known == {S!CodexCli, S!OpenAI, S!CodexSynthesis, S!GeminiCli, Unknown, Respelled, OpenAILow}
<1>1. \A d \in known : Posed(d)
  BY DEF Posed, Unknown, Respelled, OpenAILow, S!CodexCli, S!OpenAI, S!CodexSynthesis, S!GeminiCli,
         S!Descriptor, S!SetupAuthModes, S!SetupTransports, S!AuthModes, S!Transports
<1>2. DOMAIN candidates \subseteq Nat /\ \A i \in DOMAIN candidates : candidates[i] \in known
  <2>1. CASE candidates = <<>>
    BY <2>1
  <2>2. CASE candidates = <<S!CodexCli, S!OpenAI, S!CodexSynthesis>>
    BY <2>2
  <2>3. CASE candidates = <<S!GeminiCli, Unknown>>
    BY <2>3
  <2>4. CASE candidates = <<Respelled, OpenAILow>>
    BY <2>4
  <2> HIDE DEF known
  <2> QED BY <2>1, <2>2, <2>3, <2>4 DEF CandidateLists
<1> QED BY <1>1, <1>2

(* The same of the commander sections that the generator accepts in the    *)
(* run, and of each list of candidates there.                              *)
THEOREM AcceptedCommanderSelectsCorrect == Spec => []AcceptedCommanderSelects
<1>1. DecisionInv => AcceptedCommanderSelects
  <2> SUFFICES ASSUME DecisionInv, Accepted, NEW candidates \in CandidateLists
               PROVE  LET c      == Config.commander
                          chosen == S!SelectCommander(c, candidates, S!DefaultRegistry)
                          named  == c.enabled /\ c.strategy # "explicit"
                                      /\ c.mode = "direct_synthesis"
                                      /\ c.descriptor.provider = "Local" /\ ~ S!IsLocal(c.descriptor)
                      IN  /\ chosen = <<"error">> => named
                          /\ chosen[1] = "selected" =>
                               LET d == chosen[2] IN
                               S!SynthesisChoice(S!DefaultRegistry, NoHints, <<d>>)
                                 = IF d.client = S!Get(S!DefaultRegistry, d).descriptor.client
                                   THEN d ELSE None
    BY Zenon DEF AcceptedCommanderSelects
  <2>1. result = <<S!Generated(input)>> /\ S!Generated(input) # <<>>
    BY DEF DecisionInv, SetupInv, Accepted
  <2>2. /\ Config = S!Merged(input) /\ S!SectionsOK(S!Merged(input))
        /\ S!CommanderOK(S!Merged(input).commander)
    BY <2>1 DEF Config, S!Generated
  <2>3. S!CommanderShape(Config.commander) /\ S!CommanderOK(Config.commander)
    <3> DEFINE merged == S!Merged(input)
    <3> HIDE DEF merged
    <3>1. S!SectionsOK(merged) => S!CommanderShape(merged.commander)
      BY DEF S!SectionsOK
    <3> QED BY <2>2, <3>1 DEF merged
  <2> HIDE DEF Config
  <2> QED BY <2>3, RunCandidates, CommandersSelect
<1> QED BY <1>1, DecisionInvariant, PTL

-----------------------------------------------------------------------------
(* What a decision costs                                                   *)

(* A fold over n elements: next makes a run of a run and an element's      *)
(* index, iter gives the run over each set of indices.                     *)
FoldStep(n, Runs) == [Runs \X (1..n) -> Runs]

TypedFold(n, Runs, base, next) ==
  \E iter \in [SUBSET (1..n) -> Runs] : \A s \in SUBSET (1..n) :
    iter[s] = IF s = {} THEN base ELSE next[<<iter[s \ {S!Max(s)}], S!Max(s)>>]

IsFold(n, Runs, base, next, iter) ==
  /\ iter[{}] = base
  /\ \A s \in SUBSET (1..n) : s # {} /\ iter[s \ {S!Max(s)}] \in Runs =>
       iter[s] = next[<<iter[s \ {S!Max(s)}], S!Max(s)>>]

StepByStep(n, Runs, base, next, last) ==
  \E p \in [0..n -> Runs] :
    p[0] = base /\ p[n] = last /\ \A k \in 1..n : p[k] = next[<<p[k - 1], k>>]

(* The recursion that FoldLeft is defined by has a solution.               *)
LEMMA FoldExists ==
  ASSUME NEW n \in Nat, NEW Runs, NEW base \in Runs, NEW next \in FoldStep(n, Runs)
  PROVE  TypedFold(n, Runs, base, next)
<1> USE DEF FoldStep
<1> DEFINE Solved(g, s) == g[s] = IF s = {} THEN base ELSE next[<<g[s \ {S!Max(s)}], S!Max(s)>>]
           Upto(k)    == \E g \in [SUBSET (1..k) -> Runs] : \A s \in SUBSET (1..k) : Solved(g, s)
           T          == {k \in Nat : k <= n => Upto(k)}
<1>1. 0 \in T
  <2> DEFINE g == [s \in SUBSET (1..0) |-> base]
  <2>1. 1..0 = {}
    OBVIOUS
  <2>2. \A s \in SUBSET (1..0) : Solved(g, s)
    BY <2>1
  <2>3. g \in [SUBSET (1..0) -> Runs]
    OBVIOUS
  <2> HIDE DEF g
  <2> QED BY <2>2, <2>3
<1>2. ASSUME NEW k \in Nat, k \in T PROVE k + 1 \in T
  <2> SUFFICES ASSUME k + 1 <= n PROVE Upto(k + 1)
    <3> HIDE DEF Upto
    <3> QED OBVIOUS
  <2>0. Upto(k)
    <3> HIDE DEF Upto
    <3>1. k <= n
      OBVIOUS
    <3> QED BY <1>2, <3>1
  <2>1. PICK g \in [SUBSET (1..k) -> Runs] : \A s \in SUBSET (1..k) : Solved(g, s)
    <3> HIDE DEF Solved
    <3> QED BY <2>0, Zenon
  <2> DEFINE h == [s \in SUBSET (1..(k + 1)) |->
                     IF k + 1 \in s THEN next[<<g[s \ {k + 1}], k + 1>>] ELSE g[s]]
  <2>2. ASSUME NEW s \in SUBSET (1..(k + 1)), k + 1 \in s
        PROVE  /\ S!Max(s) = k + 1 /\ s \ {k + 1} \in SUBSET (1..k)
               /\ g[s \ {k + 1}] \in Runs
               /\ h[s] = next[<<h[s \ {k + 1}], k + 1>>] /\ h[s] \in Runs
    <3>1. S!Max(s) = k + 1
      <4>a. s # {} /\ k + 1 \in Nat /\ s \subseteq 0..(k + 1)
        BY <2>2
      <4>1. S!Max(s) \in s /\ \A i \in s : S!Max(s) >= i
        BY <4>a, GreatestOf
      <4>2. S!Max(s) >= k + 1 /\ S!Max(s) \in 1..(k + 1)
        BY <2>2, <4>1
      <4> QED BY <4>2
    <3>2. s \ {k + 1} \in SUBSET (1..k)
      OBVIOUS
    <3>3. g[s \ {k + 1}] \in Runs
      BY <3>2
    <3>4. h[s] = next[<<g[s \ {k + 1}], k + 1>>]
      BY <2>2
    <3>5. h[s \ {k + 1}] = g[s \ {k + 1}]
      BY <3>2
    <3>6. next[<<g[s \ {k + 1}], k + 1>>] \in Runs
      BY <3>3
    <3> HIDE DEF h
    <3> QED BY <3>1, <3>2, <3>3, <3>4, <3>5, <3>6
  <2>3. ASSUME NEW s \in SUBSET (1..(k + 1)), k + 1 \notin s
        PROVE  s \in SUBSET (1..k) /\ h[s] = g[s] /\ h[s] \in Runs
    <3>1. s \in SUBSET (1..k)
      BY <2>3
    <3> QED BY <2>3, <3>1
  <2>4. h \in [SUBSET (1..(k + 1)) -> Runs]
    <3>1. \A s \in SUBSET (1..(k + 1)) : h[s] \in Runs
      BY <2>2, <2>3
    <3> QED BY <3>1
  <2>5. ASSUME NEW s \in SUBSET (1..(k + 1)) PROVE Solved(h, s)
    <3>1. CASE k + 1 \in s
      <4>1. S!Max(s) = k + 1 /\ h[s] = next[<<h[s \ {k + 1}], k + 1>>]
        BY <2>2, <3>1
      <4>2. s # {}
        BY <3>1
      <4> HIDE DEF h
      <4> QED BY <4>1, <4>2
    <3>2. CASE k + 1 \notin s
      <4>1. s \in SUBSET (1..k) /\ h[s] = g[s] /\ Solved(g, s)
        BY <2>1, <2>3, <3>2
      <4>2. /\ s \ {S!Max(s)} \in SUBSET (1..(k + 1)) /\ k + 1 \notin s \ {S!Max(s)}
        BY <3>2
      <4>3. h[s \ {S!Max(s)}] = g[s \ {S!Max(s)}]
        BY <2>3, <4>2
      <4> HIDE DEF h
      <4> QED BY <4>1, <4>3
    <3> QED BY <3>1, <3>2
  <2> HIDE DEF h, Solved
  <2> QED BY <2>4, <2>5
<1>3. Nat \subseteq T
  <2> HIDE DEF T
  <2> QED BY <1>1, <1>2, SetInduction
<1>4. Upto(n)
  <2> HIDE DEF Upto
  <2> QED BY <1>3
<1> QED BY <1>4 DEF TypedFold

(* And a solution takes one step per element.                              *)
LEMMA FoldSteps ==
  ASSUME NEW n \in Nat, NEW Runs, NEW base \in Runs, NEW next \in FoldStep(n, Runs),
         NEW h, IsFold(n, Runs, base, next, h)
  PROVE  StepByStep(n, Runs, base, next, h[1..n])
<1> USE DEF FoldStep, IsFold
<1> DEFINE p == [k \in 0..n |-> h[1..k]]
           T == {k \in Nat : k <= n => p[k] \in Runs}
<1>1. p[0] = base
  <2>1. 1..0 = {} /\ {} \in SUBSET (1..n) /\ 0 \in 0..n
    OBVIOUS
  <2>2. p[0] = h[1..0]
    BY <2>1
  <2>3. h[{}] = base
    BY <2>1
  <2> QED BY <2>1, <2>2, <2>3
<1>2. ASSUME NEW k \in 1..n, p[k - 1] \in Runs PROVE p[k] = next[<<p[k - 1], k>>]
  <2>1. 1..k \in SUBSET (1..n) /\ k \in 1..k /\ (1..k) \ {k} = 1..(k - 1)
    OBVIOUS
  <2>2. S!Max(1..k) = k
    <3>1. S!Max(1..k) \in 1..k /\ \A i \in 1..k : S!Max(1..k) >= i
      BY <2>1, GreatestOf, 1..k \subseteq 0..k, 1..k # {}, k \in Nat
    <3>2. S!Max(1..k) >= k
      BY <2>1, <3>1
    <3> QED BY <3>1, <3>2
  <2>4. p[k] = h[1..k] /\ p[k - 1] = h[1..(k - 1)]
    OBVIOUS
  <2> HIDE DEF p
  <2>3. h[1..k] = next[<<h[1..(k - 1)], k>>]
    <3>1. h[(1..k) \ {k}] \in Runs
      BY <1>2, <2>1, <2>4
    <3> DEFINE s == 1..k
    <3>2. s # {} /\ s \in SUBSET (1..n) /\ S!Max(s) = k
      BY <2>1, <2>2
    <3>3. h[s \ {S!Max(s)}] \in Runs
      BY <3>1, <3>2
    <3>4. s \ {k} = 1..(k - 1)
      BY <2>1
    <3> HIDE DEF s
    <3>5. h[s] = next[<<h[s \ {S!Max(s)}], S!Max(s)>>]
      BY <3>2, <3>3
    <3>6. h[s] = next[<<h[1..(k - 1)], k>>]
      BY <3>2, <3>4, <3>5
    <3> QED BY <3>6 DEF s
  <2> QED BY <2>3, <2>4
<1>3. p[n] = h[1..n]
  OBVIOUS
<1> HIDE DEF p
<1>4. 0 \in T
  BY <1>1
<1>5. ASSUME NEW k \in Nat, k \in T PROVE k + 1 \in T
  <2> SUFFICES ASSUME k + 1 <= n PROVE p[k + 1] \in Runs
    OBVIOUS
  <2>1. k + 1 \in 1..n /\ (k + 1) - 1 = k /\ p[k] \in Runs
    BY <1>5
  <2>2. p[k + 1] = next[<<p[k], k + 1>>]
    BY <1>2, <2>1
  <2> QED BY <2>1, <2>2
<1>6. Nat \subseteq T
  <2> HIDE DEF T
  <2> QED BY <1>4, <1>5, SetInduction
<1>7. p \in [0..n -> Runs]
  <2>1. \A k \in 0..n : p[k] \in Runs
    BY <1>6
  <2>2. p = [k \in 0..n |-> p[k]]
    BY DEF p
  <2> QED BY <2>1, <2>2
<1>8. ASSUME NEW k \in 1..n PROVE p[k] = next[<<p[k - 1], k>>]
  <2>1. k - 1 \in 0..n
    OBVIOUS
  <2> QED BY <1>2, <1>7, <2>1
<1> QED BY <1>1, <1>3, <1>7, <1>8 DEF StepByStep

(* All candidates considered, one after the other.                         *)
Considered(base, candidates, registry, hints, remaining) ==
  S!FoldLeft(LAMBDA run, d : S!Consider(run, d, registry, hints, remaining), base, candidates)

(* A fold of considerations stays in every set that each of them stays in. *)
LEMMA ConsiderationsStay ==
  ASSUME NEW n \in Nat, NEW D, NEW candidates \in [1..n -> D],
         NEW registry, NEW hints, NEW remaining, NEW Runs, NEW base \in Runs,
         \A run \in Runs, d \in D : S!Consider(run, d, registry, hints, remaining) \in Runs
  PROVE  Considered(base, candidates, registry, hints, remaining) \in Runs
<1> DEFINE U == SUBSET (1..n)
           Solves(g) == g = [s \in U |-> IF s = {} THEN base
                                         ELSE S!Consider(g[s \ {S!Max(s)}], candidates[S!Max(s)],
                                                         registry, hints, remaining)]
           h == CHOOSE g : Solves(g)
           next == [x \in Runs \X (1..n) |->
                      S!Consider(x[1], candidates[x[2]], registry, hints, remaining)]
<1>0. DOMAIN candidates = 1..n
  OBVIOUS
<1>1. Considered(base, candidates, registry, hints, remaining) = h[1..n]
  BY <1>0, Zenon DEF Considered, S!FoldLeft, S!MapThenFoldSet
<1>2. next \in FoldStep(n, Runs)
  <2> USE DEF FoldStep
  <2>1. ASSUME NEW x \in Runs \X (1..n)
        PROVE  S!Consider(x[1], candidates[x[2]], registry, hints, remaining) \in Runs
    <3>1. x[1] \in Runs /\ candidates[x[2]] \in D
      OBVIOUS
    <3> QED BY <3>1
  <2> QED BY <2>1
<1>3. ASSUME NEW run \in Runs, NEW i \in 1..n
      PROVE  next[<<run, i>>] = S!Consider(run, candidates[i], registry, hints, remaining)
  OBVIOUS
<1> HIDE DEF next
<1>4. \E g : Solves(g)
  <2>1. PICK g \in [SUBSET (1..n) -> Runs] : \A s \in SUBSET (1..n) :
          g[s] = IF s = {} THEN base ELSE next[<<g[s \ {S!Max(s)}], S!Max(s)>>]
    <3>1. TypedFold(n, Runs, base, next)
      BY <1>2, FoldExists
    <3> QED BY <3>1, Zenon DEF TypedFold
  <2>2. ASSUME NEW s \in U
        PROVE  g[s] = IF s = {} THEN base
                      ELSE S!Consider(g[s \ {S!Max(s)}], candidates[S!Max(s)],
                                      registry, hints, remaining)
    <3>1. CASE s = {}
      BY <2>1, <3>1
    <3>2. CASE s # {}
      <4>1. S!Max(s) \in s
        BY <3>2, GreatestOf, s \subseteq 0..n
      <4>2. S!Max(s) \in 1..n /\ s \ {S!Max(s)} \in U
        BY <4>1
      <4>3. g[s \ {S!Max(s)}] \in Runs
        BY <2>1, <4>2
      <4> QED BY <1>3, <2>1, <3>2, <4>2, <4>3
    <3> QED BY <3>1, <3>2
  <2>3. g = [s \in U |-> g[s]]
    BY <2>1
  <2>4. Solves(g)
    BY <2>2, <2>3
  <2> QED BY <2>4
<1>5. Solves(h)
  <2> HIDE DEF Solves
  <2> QED BY <1>4
<1> HIDE DEF h
<1>6. h[{}] = base
  BY <1>5
<1>7. ASSUME NEW s \in U, s # {}, h[s \ {S!Max(s)}] \in Runs
      PROVE  h[s] = next[<<h[s \ {S!Max(s)}], S!Max(s)>>]
  <2>1. S!Max(s) \in s
    BY <1>7, GreatestOf, s \subseteq 0..n
  <2>2. S!Max(s) \in 1..n
    BY <2>1
  <2>3. h[s] = S!Consider(h[s \ {S!Max(s)}], candidates[S!Max(s)], registry, hints, remaining)
    BY <1>5, <1>7
  <2> HIDE DEF Solves
  <2> QED BY <1>3, <1>7, <2>2, <2>3
<1>8. PICK p \in [0..n -> Runs] :
        p[0] = base /\ p[n] = h[1..n] /\ \A k \in 1..n : p[k] = next[<<p[k - 1], k>>]
  <2> HIDE DEF Solves
  <2>1. IsFold(n, Runs, base, next, h)
    BY <1>6, <1>7, Zenon DEF IsFold
  <2>2. StepByStep(n, Runs, base, next, h[1..n])
    BY <1>2, <2>1, FoldSteps
  <2> QED BY <2>2, Zenon DEF StepByStep
<1>9. p[n] \in Runs
  OBVIOUS
<1> QED BY <1>1, <1>8, <1>9

(* What the calls of a selection charge, on top of a sum.                  *)
Charges(base, seq) == FoldLeft(LAMBDA sum, d : sum + ChargeOf(d), base, seq)

Charged(seq, n, base, total) ==
  \E p \in [0..n -> Int] :
    /\ p[0] = base /\ p[n] = total
    /\ \A k \in 1..n : p[k] = p[k - 1] + ChargeOf(seq[k])

(* A fold of prices is the last of its partial sums.                       *)
LEMMA ChargesAdd ==
  ASSUME NEW n \in Nat, NEW seq, DOMAIN seq = 1..n, NEW base \in Int,
         \A i \in 1..n : ChargeOf(seq[i]) \in Int
  PROVE  Charged(seq, n, base, Charges(base, seq))
<1> DEFINE U == SUBSET (1..n)
           Solves(g) == g = [s \in U |-> IF s = {} THEN base
                                         ELSE g[s \ {Max(s)}] + ChargeOf(seq[Max(s)])]
           h == CHOOSE g : Solves(g)
           next == [x \in Int \X (1..n) |-> x[1] + ChargeOf(seq[x[2]])]
<1>1. Charges(base, seq) = h[1..n]
  BY Zenon DEF Charges, FoldLeft, MapThenFoldSet
<1>m. \A s : Max(s) = S!Max(s)
  BY Zenon DEF Max, S!Max
<1>2. next \in FoldStep(n, Int)
  BY DEF FoldStep
<1>3. ASSUME NEW sum \in Int, NEW i \in 1..n
      PROVE  next[<<sum, i>>] = sum + ChargeOf(seq[i])
  OBVIOUS
<1> HIDE DEF next
<1>4. \E g : Solves(g)
  <2>1. PICK g \in [SUBSET (1..n) -> Int] : \A s \in SUBSET (1..n) :
          g[s] = IF s = {} THEN base ELSE next[<<g[s \ {S!Max(s)}], S!Max(s)>>]
    <3>1. TypedFold(n, Int, base, next)
      BY <1>2, FoldExists
    <3> QED BY <3>1, Zenon DEF TypedFold
  <2>2. ASSUME NEW s \in U
        PROVE  g[s] = IF s = {} THEN base ELSE g[s \ {Max(s)}] + ChargeOf(seq[Max(s)])
    <3>1. CASE s = {}
      BY <2>1, <3>1
    <3>2. CASE s # {}
      <4>1. S!Max(s) \in s
        BY <3>2, GreatestOf, s \subseteq 0..n
      <4>2. S!Max(s) \in 1..n /\ s \ {S!Max(s)} \in U
        BY <4>1
      <4>3. g[s \ {S!Max(s)}] \in Int
        BY <2>1, <4>2
      <4>4. g[s] = g[s \ {S!Max(s)}] + ChargeOf(seq[S!Max(s)])
        BY <1>3, <2>1, <3>2, <4>2, <4>3
      <4> QED BY <1>m, <3>2, <4>4
    <3> QED BY <3>1, <3>2
  <2>3. g = [s \in U |-> g[s]]
    BY <2>1
  <2>4. Solves(g)
    BY <2>2, <2>3
  <2> QED BY <2>4
<1>5. Solves(h)
  <2> HIDE DEF Solves
  <2> QED BY <1>4
<1> HIDE DEF h
<1>6. h[{}] = base
  BY <1>5
<1>7. ASSUME NEW s \in U, s # {}, h[s \ {S!Max(s)}] \in Int
      PROVE  h[s] = next[<<h[s \ {S!Max(s)}], S!Max(s)>>]
  <2>1. S!Max(s) \in s
    BY <1>7, GreatestOf, s \subseteq 0..n
  <2>2. S!Max(s) \in 1..n
    BY <2>1
  <2>3. h[s] = h[s \ {S!Max(s)}] + ChargeOf(seq[S!Max(s)])
    BY <1>5, <1>7, <1>m
  <2> HIDE DEF Solves
  <2> QED BY <1>3, <1>7, <2>2, <2>3
<1>8. PICK p \in [0..n -> Int] :
        p[0] = base /\ p[n] = h[1..n] /\ \A k \in 1..n : p[k] = next[<<p[k - 1], k>>]
  <2> HIDE DEF Solves
  <2>1. IsFold(n, Int, base, next, h)
    BY <1>6, <1>7, Zenon DEF IsFold
  <2>2. StepByStep(n, Int, base, next, h[1..n])
    BY <1>2, <2>1, FoldSteps
  <2> QED BY <2>2, Zenon DEF StepByStep
<1>9. ASSUME NEW k \in 1..n PROVE p[k] = p[k - 1] + ChargeOf(seq[k])
  <2>1. k - 1 \in 0..n
    OBVIOUS
  <2> QED BY <1>3, <1>8, <2>1
<1> QED BY <1>1, <1>8, <1>9 DEF Charged

(* What a decision is while candidates are considered: its estimate is the *)
(* price of the synthesis and of those selected, it is within what remains,*)
(* and nobody who was rejected for the budget would fit.                   *)
Reasons == {"capability", "readiness", "budget"}

Estimated(registry, seq, base, total) ==
  \E p \in [0..Len(seq) -> Int] :
    /\ p[0] = base /\ p[Len(seq)] = total
    /\ \A k \in 1..Len(seq) : p[k] = p[k - 1] + S!Get(registry, seq[k]).cost

DecisionType(D, choice) ==
  [synthesis : {choice}, estimate : Int, selected : Seq(D), rejected : Seq(D \X Reasons)]

DecisionRuns(D, registry, choice, remaining) ==
  {run \in DecisionType(D, choice) :
     /\ run.estimate <= remaining
     /\ \A i \in 1..Len(run.selected) : S!Registered(registry, run.selected[i])
     /\ Estimated(registry, run.selected, S!Get(registry, choice).cost, run.estimate)
     /\ \A i \in 1..Len(run.rejected) :
          run.rejected[i][2] = "budget" =>
            /\ S!Registered(registry, run.rejected[i][1])
            /\ run.estimate + S!Get(registry, run.rejected[i][1]).cost > remaining}

Priced(registry) == \A d : S!Registered(registry, d) => S!Get(registry, d).cost \in Nat

LEMMA AppendIs ==
  ASSUME NEW T, NEW seq \in Seq(T), NEW x \in T
  PROVE  /\ Append(seq, x) \in Seq(T) /\ Len(Append(seq, x)) = Len(seq) + 1 /\ Len(seq) \in Nat
         /\ Append(seq, x)[Len(seq) + 1] = x
         /\ \A i \in 1..Len(seq) : Append(seq, x)[i] = seq[i]
         /\ \A i \in 1..Len(seq) : seq[i] \in T
OBVIOUS

LEMMA EstimateGrows ==
  ASSUME NEW D, NEW registry, NEW seq \in Seq(D), NEW d \in D, NEW base, NEW total \in Int,
         Estimated(registry, seq, base, total), S!Get(registry, d).cost \in Nat
  PROVE  Estimated(registry, Append(seq, d), base, total + S!Get(registry, d).cost)
<1> DEFINE n    == Len(seq)
           more == Append(seq, d)
           cost == S!Get(registry, d).cost
<1>1. /\ Len(more) = n + 1 /\ n \in Nat /\ more[n + 1] = d
      /\ \A i \in 1..n : more[i] = seq[i]
  BY AppendIs
<1>2. PICK p \in [0..n -> Int] :
        p[0] = base /\ p[n] = total /\ \A k \in 1..n : p[k] = p[k - 1] + S!Get(registry, seq[k]).cost
  BY Zenon DEF Estimated
<1> DEFINE q == [k \in 0..(n + 1) |-> IF k <= n THEN p[k] ELSE total + cost]
<1> HIDE DEF n, more
<1>3. q \in [0..(n + 1) -> Int]
  <2> HIDE DEF cost
  <2>1. cost \in Int
    BY DEF cost
  <2>2. ASSUME NEW k \in 0..(n + 1) PROVE (IF k <= n THEN p[k] ELSE total + cost) \in Int
    <3>1. CASE k <= n
      <4>1. k \in 0..n
        BY <1>1, <3>1
      <4> QED BY <1>2, <3>1, <4>1
    <3>2. CASE ~ (k <= n)
      BY <2>1, <3>2
    <3> QED BY <3>1, <3>2
  <2> QED BY <2>2
<1>4. q[0] = base /\ q[n + 1] = total + cost
  <2>1. 0 \in 0..(n + 1) /\ n + 1 \in 0..(n + 1) /\ 0 <= n /\ ~ (n + 1 <= n)
    BY <1>1
  <2> QED BY <1>2, <2>1
<1>5. ASSUME NEW k \in 1..(n + 1) PROVE q[k] = q[k - 1] + S!Get(registry, more[k]).cost
  <2>1. CASE k = n + 1
    <3>1. q[k] = total + cost /\ q[k - 1] = total
      <4>1. k \in 0..(n + 1) /\ ~ (k <= n) /\ k - 1 = n /\ n \in 0..(n + 1) /\ n <= n
        BY <1>1, <2>1
      <4> QED BY <1>2, <4>1
    <3>2. S!Get(registry, more[k]).cost = cost
      BY <1>1, <2>1
    <3> QED BY <3>1, <3>2
  <2>2. CASE k \in 1..n
    <3>1. q[k] = p[k] /\ q[k - 1] = p[k - 1]
      <4>1. k \in 0..(n + 1) /\ k <= n /\ k - 1 \in 0..(n + 1) /\ k - 1 <= n
        BY <1>1, <2>2
      <4> QED BY <4>1
    <3>2. p[k] = p[k - 1] + S!Get(registry, seq[k]).cost
      BY <1>2, <2>2
    <3> QED BY <1>1, <2>2, <3>1, <3>2
  <2> QED BY <1>1, <2>1, <2>2
<1> HIDE DEF q
<1>6. q \in [0..Len(more) -> Int] /\ q[Len(more)] = total + cost
      /\ \A k \in 1..Len(more) : q[k] = q[k - 1] + S!Get(registry, more[k]).cost
  BY <1>1, <1>3, <1>4, <1>5
<1>7. Estimated(registry, more, base, total + cost)
  BY <1>4, <1>6, Zenon DEF Estimated
<1> QED BY <1>7 DEF more

LEMMA ConsiderKeeps ==
  ASSUME NEW D, NEW registry, Priced(registry), NEW choice, NEW hints, NEW remaining \in Int,
         NEW run \in DecisionRuns(D, registry, choice, remaining), NEW d \in D
  PROVE  S!Consider(run, d, registry, hints, remaining) \in DecisionRuns(D, registry, choice, remaining)
<1> DEFINE next == S!Consider(run, d, registry, hints, remaining)
           cost == S!Get(registry, d).cost
<1>1. /\ run \in DecisionType(D, choice) /\ run.estimate <= remaining
      /\ \A i \in 1..Len(run.selected) : S!Registered(registry, run.selected[i])
      /\ Estimated(registry, run.selected, S!Get(registry, choice).cost, run.estimate)
      /\ \A i \in 1..Len(run.rejected) :
           run.rejected[i][2] = "budget" =>
             /\ S!Registered(registry, run.rejected[i][1])
             /\ run.estimate + S!Get(registry, run.rejected[i][1]).cost > remaining
  BY Zenon DEF DecisionRuns
<1>2. /\ run.estimate \in Int /\ run.selected \in Seq(D) /\ run.rejected \in Seq(D \X Reasons)
      /\ run.synthesis = choice
  BY <1>1 DEF DecisionType
<1>3. ASSUME NEW why \in Reasons,
             why = "budget" => S!Registered(registry, d) /\ run.estimate + cost > remaining
      PROVE  [run EXCEPT !.rejected = Append(@, <<d, why>>)]
               \in DecisionRuns(D, registry, choice, remaining)
  <2> DEFINE new == [run EXCEPT !.rejected = Append(@, <<d, why>>)]
             out == run.rejected
             T   == D \X Reasons
  <2>1. <<d, why>> \in T
    OBVIOUS
  <2>2. out \in Seq(T)
    BY <1>2
  <2>3. /\ new.synthesis = run.synthesis /\ new.estimate = run.estimate
        /\ new.selected = run.selected /\ new.rejected = Append(out, <<d, why>>)
        /\ new = [synthesis |-> run.synthesis, estimate |-> run.estimate,
                  selected |-> run.selected, rejected |-> Append(out, <<d, why>>)]
    <3>1. run = [synthesis |-> run.synthesis, estimate |-> run.estimate,
                 selected |-> run.selected, rejected |-> run.rejected]
      BY <1>1 DEF DecisionType
    <3>2. \A a, b, c, o, e : [[synthesis |-> a, estimate |-> b, selected |-> c, rejected |-> o]
                                EXCEPT !.rejected = e]
                            = [synthesis |-> a, estimate |-> b, selected |-> c, rejected |-> e]
      OBVIOUS
    <3>3. new = [run EXCEPT !.rejected = Append(out, <<d, why>>)]
      OBVIOUS
    <3> HIDE DEF new
    <3>4. new = [synthesis |-> run.synthesis, estimate |-> run.estimate,
                 selected |-> run.selected, rejected |-> Append(out, <<d, why>>)]
      BY <3>1, <3>2, <3>3, Zenon
    <3> QED BY <3>4
  <2> DEFINE more == Append(out, <<d, why>>)
             x == <<d, why>>
  <2> HIDE DEF T, out, x
  <2>4. /\ Append(out, x) \in Seq(T) /\ Len(Append(out, x)) = Len(out) + 1 /\ Len(out) \in Nat
        /\ Append(out, x)[Len(out) + 1] = x
        /\ \A i \in 1..Len(out) : Append(out, x)[i] = out[i]
    BY <2>1, <2>2, AppendIs DEF x
  <2>5. /\ more \in Seq(T) /\ Len(more) = Len(out) + 1 /\ Len(out) \in Nat
        /\ more[Len(out) + 1] = <<d, why>>
        /\ \A i \in 1..Len(out) : more[i] = out[i]
    BY <2>4 DEF x
  <2> HIDE DEF more, new
  <2>6. new \in DecisionType(D, choice)
    BY <1>2, <2>3, <2>5 DEF DecisionType, more, T
  <2>7. ASSUME NEW i \in 1..Len(new.rejected), new.rejected[i][2] = "budget"
        PROVE  /\ S!Registered(registry, new.rejected[i][1])
               /\ new.estimate + S!Get(registry, new.rejected[i][1]).cost > remaining
    <3>1. new.rejected = more
      BY <2>3 DEF more
    <3>2. CASE i = Len(out) + 1
      <4>1. new.rejected[i] = <<d, why>>
        BY <2>5, <3>1, <3>2
      <4>2. new.rejected[i][1] = d /\ new.rejected[i][2] = why
        BY <4>1
      <4>3. S!Registered(registry, d) /\ run.estimate + cost > remaining
        BY <1>3, <2>7, <4>2
      <4> QED BY <2>3, <4>2, <4>3
    <3>3. CASE i \in 1..Len(out)
      <4>1. new.rejected[i] = run.rejected[i]
        BY <2>5, <3>1, <3>3 DEF out
      <4>2. i \in 1..Len(run.rejected)
        BY <3>3 DEF out
      <4>3. /\ S!Registered(registry, run.rejected[i][1])
            /\ run.estimate + S!Get(registry, run.rejected[i][1]).cost > remaining
        BY <1>1, <2>7, <4>1, <4>2
      <4> QED BY <2>3, <4>1, <4>3
    <3> QED BY <2>5, <3>1, <3>2, <3>3
  <2>8. /\ new.estimate <= remaining
        /\ \A i \in 1..Len(new.selected) : S!Registered(registry, new.selected[i])
        /\ Estimated(registry, new.selected, S!Get(registry, choice).cost, new.estimate)
    BY <1>1, <2>3
  <2>9. new \in DecisionRuns(D, registry, choice, remaining)
    BY <2>6, <2>7, <2>8, Zenon DEF DecisionRuns
  <2> QED BY <2>9 DEF new
<1>4. CASE ~ S!Capable(registry, d)
  <2>1. next = [run EXCEPT !.rejected = Append(@, <<d, "capability">>)]
    BY <1>4, Zenon DEF S!Consider
  <2> QED BY <1>3, <2>1 DEF Reasons
<1>5. CASE S!Capable(registry, d) /\ ~ S!Ready(hints, d)
  <2>1. next = [run EXCEPT !.rejected = Append(@, <<d, "readiness">>)]
    BY <1>5, Zenon DEF S!Consider
  <2> QED BY <1>3, <2>1 DEF Reasons
<1>6. ASSUME S!Capable(registry, d), S!Ready(hints, d) PROVE next \in DecisionRuns(D, registry, choice, remaining)
  <2>1. S!Registered(registry, d) /\ cost \in Nat
    BY <1>6 DEF S!Capable, Priced
  <2>2. CASE ~ S!Afford(run.estimate, cost, remaining)
    <3>1. next = [run EXCEPT !.rejected = Append(@, <<d, "budget">>)]
      BY <1>6, <2>2, Zenon DEF S!Consider
    <3>2. S!Registered(registry, d) /\ run.estimate + cost > remaining
      BY <1>2, <2>1, <2>2 DEF S!Afford
    <3> QED BY <1>3, <3>1, <3>2 DEF Reasons
  <2>3. CASE S!Afford(run.estimate, cost, remaining)
    <3> DEFINE chosen == run.selected
               more   == Append(chosen, d)
    <3>1. next = [run EXCEPT !.selected = Append(@, d), !.estimate = @ + S!Get(registry, d).cost]
      BY <1>6, <2>3, Zenon DEF S!Consider
    <3>2. /\ next.synthesis = run.synthesis /\ next.estimate = run.estimate + cost
          /\ next.selected = more /\ next.rejected = run.rejected
          /\ next = [synthesis |-> run.synthesis, estimate |-> run.estimate + cost,
                     selected |-> more, rejected |-> run.rejected]
      BY <1>1, <3>1 DEF DecisionType
    <3>3. run.estimate + cost <= remaining
      BY <2>3 DEF S!Afford
    <3>4. /\ more \in Seq(D) /\ Len(more) = Len(chosen) + 1 /\ Len(chosen) \in Nat
          /\ more[Len(chosen) + 1] = d
          /\ \A i \in 1..Len(chosen) : more[i] = chosen[i]
      <4> HIDE DEF chosen
      <4>1. chosen \in Seq(D)
        BY <1>2 DEF chosen
      <4> QED BY <4>1, AppendIs
    <3> HIDE DEF next
    <3>5. Estimated(registry, more, S!Get(registry, choice).cost, run.estimate + cost)
      BY <1>1, <1>2, <2>1, EstimateGrows
    <3> HIDE DEF more, cost
    <3>6. next \in DecisionType(D, choice)
      BY <1>2, <2>1, <3>2, <3>4 DEF DecisionType
    <3>7. \A i \in 1..Len(next.selected) : S!Registered(registry, next.selected[i])
      <4> SUFFICES ASSUME NEW i \in 1..Len(more) PROVE S!Registered(registry, more[i])
        BY <3>2
      <4>1. CASE i = Len(chosen) + 1
        BY <2>1, <3>4, <4>1
      <4>2. CASE i \in 1..Len(chosen)
        BY <1>1, <3>4, <4>2
      <4> QED BY <3>4, <4>1, <4>2
    <3>8. ASSUME NEW i \in 1..Len(next.rejected), next.rejected[i][2] = "budget"
          PROVE  /\ S!Registered(registry, next.rejected[i][1])
                 /\ next.estimate + S!Get(registry, next.rejected[i][1]).cost > remaining
      <4> DEFINE other == next.rejected[i][1]
                 price == S!Get(registry, other).cost
      <4>1. S!Registered(registry, other) /\ run.estimate + price > remaining
        BY <1>1, <3>2, <3>8
      <4>2. price \in Nat
        BY <4>1 DEF Priced
      <4> HIDE DEF other, price
      <4>3. next.estimate + price > remaining
        BY <1>2, <2>1, <3>2, <4>1, <4>2 DEF cost
      <4> QED BY <4>1, <4>3 DEF other, price
    <3>9. next \in DecisionRuns(D, registry, choice, remaining)
      BY <3>2, <3>3, <3>5, <3>6, <3>7, <3>8, Zenon DEF DecisionRuns
    <3> QED BY <3>9
  <2> QED BY <2>2, <2>3
<1> QED BY <1>4, <1>5, <1>6

LEMMA ChoiceFits ==
  ASSUME NEW registry, NEW hints, NEW candidates, DOMAIN candidates \subseteq Nat,
         NEW choice, choice = S!SynthesisChoice(registry, hints, candidates), choice # None
  PROVE  /\ \E i \in DOMAIN candidates : choice = candidates[i]
         /\ S!SynthesisCapable(registry, choice)
<1> DEFINE fit == {i \in DOMAIN candidates :
                     /\ S!Capable(registry, candidates[i])
                     /\ S!Get(registry, candidates[i]).supportsSynthesis
                     /\ S!Ready(hints, candidates[i])}
<1>1. S!SynthesisChoice(registry, hints, candidates) = IF fit = {} THEN None ELSE candidates[S!Min(fit)]
  BY Zenon DEF S!SynthesisChoice
<1>2. fit # {} /\ choice = candidates[S!Min(fit)]
  <2> HIDE DEF fit
  <2> QED BY <1>1
<1>3. S!Min(fit) = Min(fit)
  BY Zenon DEF S!Min, Min
<1>4. S!Min(fit) \in fit
  <2>1. fit \subseteq Nat
    OBVIOUS
  <2> HIDE DEF fit
  <2> QED BY <1>2, <1>3, <2>1, LeastOf
<1>5. /\ S!Min(fit) \in DOMAIN candidates /\ S!Capable(registry, choice)
      /\ S!Get(registry, choice).supportsSynthesis
  BY <1>2, <1>4, Zenon
<1> HIDE DEF fit
<1> QED BY <1>2, <1>5 DEF S!Capable, S!SynthesisCapable

(* What decide promises of its budget, for every registry with natural     *)
(* prices and all candidates and hints: its synthesis may synthesize, its  *)
(* estimate is the sum of the registered prices and within what remains,   *)
(* and nobody who was rejected for the budget would still fit.             *)
THEOREM DecisionsFitBudget ==
  ASSUME NEW registry, Priced(registry), NEW hints, NEW remaining \in Int,
         NEW D, NEW candidates \in Seq(D), NEW synthesis, DOMAIN synthesis \subseteq Nat,
         NEW decision, decision = S!Decide(candidates, synthesis, registry, hints, remaining),
         decision # None
  PROVE  /\ \E i \in DOMAIN synthesis : decision.synthesis = synthesis[i]
         /\ S!SynthesisCapable(registry, decision.synthesis)
         /\ decision \in DecisionRuns(D, registry, decision.synthesis, remaining)
<1> DEFINE choice == S!SynthesisChoice(registry, hints, synthesis)
           cost   == S!Get(registry, choice).cost
           base   == [synthesis |-> choice, estimate |-> cost, selected |-> <<>>, rejected |-> <<>>]
           Runs   == DecisionRuns(D, registry, choice, remaining)
           fold   == Considered(base, candidates, registry, hints, remaining)
<1>1. S!Decide(candidates, synthesis, registry, hints, remaining)
        = IF choice = None THEN None ELSE IF ~ S!Afford(0, cost, remaining) THEN None ELSE fold
  BY Zenon DEF S!Decide, Considered
<1>2. choice # None /\ S!Afford(0, cost, remaining) /\ decision = fold
  <2> HIDE DEF choice, cost, fold
  <2> QED BY <1>1
<1>3. (\E i \in DOMAIN synthesis : choice = synthesis[i]) /\ S!SynthesisCapable(registry, choice)
  <2>1. choice = S!SynthesisChoice(registry, hints, synthesis)
    OBVIOUS
  <2> HIDE DEF choice, cost, fold
  <2>2. choice # None
    BY <1>2
  <2> QED BY <2>1, <2>2, ChoiceFits
<1>4. cost \in Nat /\ cost <= remaining
  <2> HIDE DEF choice, fold
  <2>1. S!Registered(registry, choice)
    BY <1>3 DEF S!SynthesisCapable
  <2>2. cost \in Nat
    BY <2>1 DEF Priced
  <2> HIDE DEF cost
  <2> QED BY <1>2, <2>2 DEF S!Afford
<1> HIDE DEF choice
<1>5. base \in Runs
  <2> DEFINE p == [k \in 0..0 |-> cost]
  <2>1. Len(<<>>) = 0 /\ 1..0 = {}
    OBVIOUS
  <2>2. Estimated(registry, <<>>, cost, cost)
    <3>1. p \in [0..0 -> Int] /\ p[0] = cost
      <4> HIDE DEF cost
      <4> QED BY <1>4
    <3> HIDE DEF p, cost
    <3> QED BY <2>1, <3>1 DEF Estimated
  <2> HIDE DEF p
  <2>3. /\ base.synthesis = choice /\ base.estimate = cost
        /\ base.selected = <<>> /\ base.rejected = <<>>
    OBVIOUS
  <2>4. base \in DecisionType(D, choice)
    <3>1. \A T : <<>> \in Seq(T)
      OBVIOUS
    <3> HIDE DEF cost
    <3> QED BY <1>4, <3>1 DEF DecisionType
  <2> HIDE DEF base
  <2>5. Estimated(registry, base.selected, S!Get(registry, choice).cost, base.estimate)
    BY <2>2, <2>3
  <2> HIDE DEF cost
  <2>6. base.estimate <= remaining
    BY <1>4, <2>3
  <2> QED BY <2>1, <2>3, <2>4, <2>5, <2>6 DEF DecisionRuns
<1>6. \A run \in Runs, d \in D : S!Consider(run, d, registry, hints, remaining) \in Runs
  BY ConsiderKeeps
<1>7. fold \in Runs
  <2> DEFINE n == Len(candidates)
  <2>1. n \in Nat /\ candidates \in [1..n -> D]
    OBVIOUS
  <2> HIDE DEF Runs, base, n
  <2> QED BY <1>5, <1>6, <2>1, ConsiderationsStay
<1>8. decision.synthesis = choice
  <2>1. decision \in DecisionType(D, choice)
    BY <1>2, <1>7, Zenon DEF DecisionRuns
  <2> QED BY <2>1 DEF DecisionType
<1> HIDE DEF fold
<1> QED BY <1>2, <1>3, <1>7, <1>8

LEMMA DefaultsArePriced == Priced(S!DefaultRegistry)
<1> SUFFICES ASSUME NEW d, S!Registered(S!DefaultRegistry, d)
             PROVE  S!Get(S!DefaultRegistry, d).cost \in Nat
  BY DEF Priced
<1>1. S!Get(S!DefaultRegistry, d) \in ForSynthesis \cup ForAnswers
  BY DefaultRegistryIs
<1>2. \A c \in ForSynthesis \cup ForAnswers : c.cost \in Nat
  BY DEF ForSynthesis, ForAnswers, S!Capability
<1> QED BY <1>1, <1>2

(* The price of an adapter and of a capability goes by the model's name.   *)
PriceOf(model) == CASE model = "codex"       -> 3
                    [] model = "claude-code" -> 4
                    [] model = "gemini-cli"  -> 2
                    [] model = "grok"        -> 3
                    [] model = "devin"       -> 5
                    [] model = "cline"       -> 3
                    [] model = "glm-zcode"   -> 2
                    [] model = "gpt-4o-mini" -> 2
                    [] OTHER                 -> 3

LEMMA AdaptersAre ==
  ASSUME NEW a \in S!Adapters
  PROVE  S!Charge[a] = PriceOf(a.model)
<1>1. /\ S!CodexCli.model = "codex" /\ S!ClaudeCode.model = "claude-code"
      /\ S!GeminiCli.model = "gemini-cli" /\ S!GrokCli.model = "grok"
      /\ S!DevinCli.model = "devin" /\ S!ClineCli.model = "cline"
      /\ S!ZcodeGlm.model = "glm-zcode" /\ S!OpenAI.model = "gpt-4o-mini"
      /\ S!Anthropic.model = "claude-3-5-haiku-latest"
  BY DEF S!CodexCli, S!ClaudeCode, S!GeminiCli, S!GrokCli, S!DevinCli, S!ClineCli, S!ZcodeGlm,
         S!OpenAI, S!Anthropic, S!Descriptor
<1>2. a \in {S!CodexCli, S!ClaudeCode, S!GeminiCli, S!GrokCli, S!DevinCli, S!ClineCli,
             S!ZcodeGlm, S!OpenAI, S!Anthropic}
  BY DEF S!Adapters
<1>3. S!Charge[a] = CASE a = S!CodexCli   -> 3
                      [] a = S!ClaudeCode -> 4
                      [] a = S!GeminiCli  -> 2
                      [] a = S!GrokCli    -> 3
                      [] a = S!DevinCli   -> 5
                      [] a = S!ClineCli   -> 3
                      [] a = S!ZcodeGlm   -> 2
                      [] a = S!OpenAI     -> 2
                      [] a = S!Anthropic  -> 3
  BY Zenon DEF S!Charge
<1> QED BY <1>1, <1>2, <1>3 DEF PriceOf

LEMMA AnswersArePriced ==
  ASSUME NEW c \in ForAnswers \cup {S!Capability(S!OpenAI, TRUE, TRUE, 2, TRUE)}
  PROVE  c.descriptor \in S!Adapters /\ c.cost = PriceOf(c.descriptor.model)
<1>1. /\ S!CodexCli.model = "codex" /\ S!ClaudeCode.model = "claude-code"
      /\ S!GeminiCli.model = "gemini-cli" /\ S!GrokCli.model = "grok"
      /\ S!DevinCli.model = "devin" /\ S!ClineCli.model = "cline"
      /\ S!ZcodeGlm.model = "glm-zcode" /\ S!OpenAI.model = "gpt-4o-mini"
      /\ S!Anthropic.model = "claude-3-5-haiku-latest"
  BY DEF S!CodexCli, S!ClaudeCode, S!GeminiCli, S!GrokCli, S!DevinCli, S!ClineCli, S!ZcodeGlm,
         S!OpenAI, S!Anthropic, S!Descriptor
<1>2. c.descriptor \in S!Adapters
  BY DEF ForAnswers, S!Capability, S!Adapters
<1>3. c.cost = PriceOf(c.descriptor.model)
  BY <1>1 DEF ForAnswers, S!Capability, PriceOf
<1> QED BY <1>2, <1>3

(* But for the Codex synthesis, what the registry says is what is charged. *)
LEMMA ChargeIsCost ==
  ASSUME NEW d, S!Registered(S!DefaultRegistry, d),
         S!DescriptorKey(d) # S!DescriptorKey(S!CodexSynthesis)
  PROVE  ChargeOf(d) = S!Get(S!DefaultRegistry, d).cost
<1>1. PICK c \in ForSynthesis \cup ForAnswers : /\ S!DescriptorKey(c.descriptor) = S!DescriptorKey(d)
                                                /\ S!Get(S!DefaultRegistry, d) = c
  BY DefaultRegistryIs
<1>2. c # S!Capability(S!CodexSynthesis, TRUE, TRUE, 4, TRUE)
  <2>1. S!Capability(S!CodexSynthesis, TRUE, TRUE, 4, TRUE).descriptor = S!CodexSynthesis
    BY DEF S!Capability
  <2> QED BY <1>1, <2>1
<1>3. c.descriptor \in S!Adapters /\ c.cost = PriceOf(c.descriptor.model)
  <2>1. c \in ForAnswers \cup {S!Capability(S!OpenAI, TRUE, TRUE, 2, TRUE)}
    BY <1>2 DEF ForSynthesis
  <2> QED BY <2>1, AnswersArePriced
<1> DEFINE a == CHOOSE x \in S!Adapters : S!DescriptorKey(x) = S!DescriptorKey(d)
<1>4. DOMAIN S!Charge = S!Adapters
  BY DEF S!Charge
<1>5. ChargeOf(d) = S!Charge[a]
  BY <1>4, Zenon DEF ChargeOf
<1>6. a \in S!Adapters /\ S!DescriptorKey(a) = S!DescriptorKey(d)
  BY <1>1, <1>3, Zenon
<1> HIDE DEF a
<1>7. S!Lower(a["model"]) = S!Lower(c.descriptor["model"])
  <2>1. "model" \in S!Fields
    BY DEF S!Fields
  <2>2. S!DescriptorKey(a) = S!DescriptorKey(c.descriptor)
    BY <1>1, <1>6
  <2> QED BY <2>1, <2>2, KeyFields
<1>8. a["model"] = c.descriptor["model"]
  <2>1. "model" \in S!Fields
    BY DEF S!Fields
  <2>2. a["model"] \in FieldNames("model") /\ c.descriptor["model"] \in FieldNames("model")
    BY <1>3, <1>6, <2>1, NamesAre
  <2> QED BY <1>7, <2>1, <2>2, OneSpelling
<1>9. S!Charge[a] = PriceOf(a.model)
  BY <1>6, AdaptersAre
<1> QED BY <1>1, <1>3, <1>5, <1>8, <1>9

(* What is charged grows with the estimate.                                *)
LEMMA ChargesFollowEstimate ==
  ASSUME NEW D, NEW seq \in Seq(D), NEW cost \in Int, NEW base \in Int, NEW slack \in Int,
         base <= cost + slack, NEW total \in Int,
         Estimated(S!DefaultRegistry, seq, cost, total),
         \A i \in 1..Len(seq) : /\ S!Registered(S!DefaultRegistry, seq[i])
                                /\ S!DescriptorKey(seq[i]) # S!DescriptorKey(S!CodexSynthesis)
  PROVE  Charges(base, seq) <= total + slack /\ Charges(base, seq) \in Int
<1> DEFINE n == Len(seq)
<1>1. n \in Nat /\ DOMAIN seq = 1..n
  OBVIOUS
<1>2. \A i \in 1..n : /\ ChargeOf(seq[i]) = S!Get(S!DefaultRegistry, seq[i]).cost
                      /\ S!Get(S!DefaultRegistry, seq[i]).cost \in Int
  BY ChargeIsCost, DefaultsArePriced DEF Priced
<1>3. PICK p \in [0..n -> Int] :
        /\ p[0] = cost /\ p[n] = total
        /\ \A k \in 1..n : p[k] = p[k - 1] + S!Get(S!DefaultRegistry, seq[k]).cost
  BY Zenon DEF Estimated
<1>4. PICK q \in [0..n -> Int] :
        /\ q[0] = base /\ q[n] = Charges(base, seq)
        /\ \A k \in 1..n : q[k] = q[k - 1] + ChargeOf(seq[k])
  <2> HIDE DEF n
  <2>1. \A i \in 1..n : ChargeOf(seq[i]) \in Int
    BY <1>2
  <2>2. Charged(seq, n, base, Charges(base, seq))
    BY <1>1, <2>1, ChargesAdd
  <2> QED BY <2>2, Zenon DEF Charged
<1> DEFINE T == {k \in Nat : k <= n => q[k] <= p[k] + slack}
<1> HIDE DEF n
<1>5. 0 \in T
  BY <1>3, <1>4
<1>6. ASSUME NEW k \in Nat, k \in T PROVE k + 1 \in T
  <2> SUFFICES ASSUME k + 1 <= n PROVE q[k + 1] <= p[k + 1] + slack
    OBVIOUS
  <2>1. /\ k + 1 \in 1..n /\ (k + 1) - 1 = k /\ k \in 0..n /\ k + 1 \in 0..n
        /\ q[k] <= p[k] + slack
    BY <1>1, <1>6
  <2> DEFINE price == S!Get(S!DefaultRegistry, seq[k + 1]).cost
  <2>2. q[k + 1] = q[k] + price /\ p[k + 1] = p[k] + price /\ price \in Int
    BY <1>2, <1>3, <1>4, <2>1
  <2>3. q[k] \in Int /\ p[k] \in Int
    BY <1>3, <1>4, <2>1
  <2> HIDE DEF price
  <2> QED BY <2>1, <2>2, <2>3
<1>7. Nat \subseteq T
  <2> HIDE DEF T
  <2> QED BY <1>5, <1>6, SetInduction
<1>8. q[n] <= p[n] + slack /\ q[n] \in Int
  BY <1>1, <1>4, <1>7
<1> QED BY <1>3, <1>4, <1>8

(* The model tells the providers that may synthesize from all adapters.    *)
LEMMA SynthesizersByModel ==
  ASSUME NEW d \in S!Adapters \cup {S!CodexSynthesis}, S!SynthesisCapable(S!DefaultRegistry, d)
  PROVE  /\ S!Get(S!DefaultRegistry, d) \in ForSynthesis
         /\ S!Get(S!DefaultRegistry, d).descriptor \in {S!CodexSynthesis, S!OpenAI}
         /\ S!Get(S!DefaultRegistry, d).descriptor["model"] = d["model"]
<1> DEFINE e == S!Get(S!DefaultRegistry, d).descriptor
<1>1. "model" \in S!Fields
  BY DEF S!Fields
<1>2. /\ S!Get(S!DefaultRegistry, d) \in ForSynthesis /\ e \in {S!CodexSynthesis, S!OpenAI}
      /\ S!Lower(e["model"]) = S!Lower(d["model"])
  BY <1>1, SynthesizersAre
<1> HIDE DEF e
<1>3. e \in S!Adapters \cup {S!CodexSynthesis}
  BY <1>2 DEF S!Adapters
<1>4. e["model"] \in FieldNames("model") /\ d["model"] \in FieldNames("model")
  BY <1>1, <1>3, NamesAre
<1>5. e["model"] = d["model"]
  BY <1>1, <1>2, <1>4, OneSpelling
<1> QED BY <1>2, <1>5 DEF e

(* A provider that may synthesize charges what the registry says, but for  *)
(* the one cent of the Codex synthesis.                                    *)
LEMMA SynthesisCharges ==
  ASSUME NEW d \in {S!CodexSynthesis, S!OpenAISynthesis}, S!SynthesisCapable(S!DefaultRegistry, d)
  PROVE  /\ S!SynthesisCharge[d] \in Int
         /\ S!SynthesisCharge[d] <= S!Get(S!DefaultRegistry, d).cost
                                      + (IF d = S!CodexSynthesis THEN 1 ELSE 0)
<1> DEFINE c == S!Get(S!DefaultRegistry, d)
           e == c.descriptor
<1>0. d \in S!Adapters \cup {S!CodexSynthesis}
  BY DEF S!OpenAISynthesis, S!Adapters
<1>1. c \in ForSynthesis /\ e["model"] = d["model"]
  BY <1>0, SynthesizersByModel
<1>2. S!CodexSynthesis["model"] = "gpt-5.5" /\ S!OpenAI["model"] = "gpt-4o-mini"
  BY DEF S!CodexSynthesis, S!OpenAI, S!Descriptor
<1>3. S!CodexSynthesis # S!OpenAI
  BY <1>2
<1>4. \/ e = S!CodexSynthesis /\ c.cost = 4
      \/ e = S!OpenAI /\ c.cost = 2
  BY <1>1 DEF ForSynthesis, S!Capability
<1>5. d = e
  <2> HIDE DEF e
  <2> QED BY <1>1, <1>2, <1>4 DEF S!OpenAISynthesis
<1>6. S!CodexSynthesis # S!OpenAI
  BY <1>3
<1>7. S!SynthesisCharge[S!CodexSynthesis] = 5
  BY DEF S!SynthesisCharge, S!CodexSynthesisCharge
<1>8. S!SynthesisCharge[S!OpenAI] = 2
  <2>1. S!SynthesisCharge[S!OpenAI] = S!Charge[S!OpenAI]
    BY <1>6 DEF S!SynthesisCharge, S!OpenAISynthesis
  <2>2. S!OpenAI \in S!Adapters /\ S!OpenAI.model = "gpt-4o-mini"
    BY DEF S!Adapters, S!OpenAI, S!Descriptor
  <2>3. S!Charge[S!OpenAI] = PriceOf("gpt-4o-mini")
    BY <2>2, AdaptersAre
  <2> QED BY <2>1, <2>3 DEF PriceOf
<1> HIDE DEF c, e
<1>9. CASE e = S!CodexSynthesis /\ c.cost = 4
  BY <1>5, <1>7, <1>9 DEF c
<1>10. CASE e = S!OpenAI /\ c.cost = 2
  BY <1>5, <1>6, <1>8, <1>10 DEF c
<1> QED BY <1>4, <1>9, <1>10

(* What the calls of a selection charge, the synthesis included, is within *)
(* what was left, but for the one cent of the Codex synthesis, and nobody  *)
(* who would still fit was refused for the budget: for all hints, budgets, *)
(* spellings and candidates, the Codex synthesis not among those, where    *)
(* the two synthesis adapters are the candidates that may synthesize       *)
(* (decide, and the charges of the adapters).                              *)
THEOREM EstimatesCover ==
  ASSUME NEW hints, NEW remaining \in Int, NEW D, NEW candidates \in Seq(D),
         \A d \in D : S!DescriptorKey(d) # S!DescriptorKey(S!CodexSynthesis),
         NEW synthesis, DOMAIN synthesis \subseteq Nat,
         \A i \in DOMAIN synthesis :
           S!SynthesisCapable(S!DefaultRegistry, synthesis[i]) =>
             synthesis[i] \in {S!CodexSynthesis, S!OpenAISynthesis},
         NEW decision, decision = S!Decide(candidates, synthesis, S!DefaultRegistry, hints, remaining),
         decision # None
  PROVE  /\ Charges(S!SynthesisCharge[decision.synthesis], decision.selected)
              <= remaining + (IF decision.synthesis = S!CodexSynthesis THEN 1 ELSE 0)
         /\ \A i \in DOMAIN decision.rejected :
              decision.rejected[i][2] = "budget" =>
                decision.estimate + S!Get(S!DefaultRegistry, decision.rejected[i][1]).cost > remaining
<1> DEFINE choice == decision.synthesis
           seq    == decision.selected
           cost   == S!Get(S!DefaultRegistry, choice).cost
           base   == S!SynthesisCharge[choice]
           slack  == IF choice = S!CodexSynthesis THEN 1 ELSE 0
<1>1. /\ \E i \in DOMAIN synthesis : choice = synthesis[i]
      /\ S!SynthesisCapable(S!DefaultRegistry, choice)
      /\ decision \in DecisionRuns(D, S!DefaultRegistry, choice, remaining)
  BY DefaultsArePriced, DecisionsFitBudget
<1>2. /\ decision \in DecisionType(D, choice) /\ decision.estimate <= remaining
      /\ \A i \in 1..Len(seq) : S!Registered(S!DefaultRegistry, seq[i])
      /\ Estimated(S!DefaultRegistry, seq, cost, decision.estimate)
      /\ \A i \in 1..Len(decision.rejected) :
           decision.rejected[i][2] = "budget" =>
             /\ S!Registered(S!DefaultRegistry, decision.rejected[i][1])
             /\ decision.estimate + S!Get(S!DefaultRegistry, decision.rejected[i][1]).cost > remaining
  BY <1>1, Zenon DEF DecisionRuns
<1>3. seq \in Seq(D) /\ decision.estimate \in Int /\ decision.rejected \in Seq(D \X Reasons)
  BY <1>2 DEF DecisionType
<1>4. choice \in {S!CodexSynthesis, S!OpenAISynthesis}
  BY <1>1, Zenon
<1>5. cost \in Int
  <2>1. S!Registered(S!DefaultRegistry, choice)
    BY <1>1 DEF S!SynthesisCapable
  <2> QED BY <2>1, DefaultsArePriced DEF Priced
<1>6. base \in Int /\ base <= cost + slack /\ slack \in Int
  <2> HIDE DEF choice
  <2> QED BY <1>1, <1>4, SynthesisCharges
<1>7. \A i \in 1..Len(seq) : S!DescriptorKey(seq[i]) # S!DescriptorKey(S!CodexSynthesis)
  <2> HIDE DEF seq
  <2>1. \A i \in 1..Len(seq) : seq[i] \in D
    BY <1>3
  <2> QED BY <2>1
<1> HIDE DEF choice, cost, base, slack, seq
<1>8. Charges(base, seq) <= decision.estimate + slack /\ Charges(base, seq) \in Int
  BY <1>2, <1>3, <1>5, <1>6, <1>7, ChargesFollowEstimate
<1>9. Charges(base, seq) <= remaining + slack
  BY <1>2, <1>3, <1>6, <1>8
<1>10. DOMAIN decision.rejected = 1..Len(decision.rejected)
  BY <1>3
<1> QED BY <1>2, <1>9, <1>10 DEF choice, cost, base, slack, seq

(* The same of the candidates, hints and budgets of the run.               *)
THEOREM EstimateCoversCallsCorrect == Spec => []EstimateCoversCalls
<1>1. DecisionInv => EstimateCoversCalls
  <2> SUFFICES ASSUME DecisionInv, kind = "policy", result \notin {Pending, None}
               PROVE  EstimateCoversCalls
    BY Zenon DEF EstimateCoversCalls
  <2>1. /\ input \in PolicyInputs
        /\ result = S!Decide(input.candidates, input.synthesis, S!DefaultRegistry, input.hints,
                             input.remaining)
    BY DEF DecisionInv, PolicyInv
  <2>2. /\ input.candidates \in UNION {[1..n -> Pool] : n \in 1..3}
        /\ input.synthesis \in {<<S!CodexSynthesis>>, <<S!GeminiCli, S!OpenAISynthesis>>, <<S!CodexCli>>}
        /\ input.remaining \in {3, 5, 8, 11}
    BY <2>1, Zenon DEF PolicyInputs
  <2>3. input.candidates \in Seq(Pool)
    <3>1. PICK n \in 1..3 : input.candidates \in [1..n -> Pool]
      BY <2>2, Zenon
    <3> QED BY <3>1, ListOf
  <2>4. ASSUME NEW d \in Pool PROVE S!DescriptorKey(d) # S!DescriptorKey(S!CodexSynthesis)
    <3>0. "model" \in S!Fields /\ "provider" \in S!Fields
      BY DEF S!Fields
    <3>1. CASE d \in {S!CodexCli, S!DevinCli, S!OpenAI}
      <4>1. d["model"] # S!CodexSynthesis["model"] /\ d \in S!Adapters
        BY <3>1 DEF S!CodexCli, S!DevinCli, S!OpenAI, S!CodexSynthesis, S!Descriptor, S!Adapters
      <4>2. d["model"] \in FieldNames("model") /\ S!CodexSynthesis["model"] \in FieldNames("model")
        BY <3>0, <4>1, NamesAre
      <4> QED BY <3>0, <4>1, <4>2, KeyFields, OneSpelling
    <3>2. CASE d \in {S!GeminiCli, GeminiAgain, GeminiOther}
      <4>1. /\ d["provider"] = S!GeminiCli["provider"]
            /\ S!GeminiCli["provider"] # S!CodexSynthesis["provider"]
        BY <3>2 DEF GeminiAgain, GeminiOther, S!GeminiCli, S!CodexSynthesis, S!Descriptor
      <4>2. S!GeminiCli \in S!Adapters
        BY DEF S!Adapters
      <4>3. /\ d["provider"] \in FieldNames("provider")
            /\ S!CodexSynthesis["provider"] \in FieldNames("provider")
        BY <3>0, <4>1, <4>2, NamesAre
      <4> QED BY <3>0, <4>1, <4>3, KeyFields, OneSpelling
    <3> QED BY <3>1, <3>2 DEF Pool
  <2>5. /\ DOMAIN input.synthesis \subseteq Nat
        /\ \A i \in DOMAIN input.synthesis :
             input.synthesis[i] \in {S!CodexSynthesis, S!GeminiCli, S!OpenAISynthesis, S!CodexCli}
    <3>1. CASE input.synthesis = <<S!CodexSynthesis>>
      BY <3>1
    <3>2. CASE input.synthesis = <<S!GeminiCli, S!OpenAISynthesis>>
      BY <3>2
    <3>3. CASE input.synthesis = <<S!CodexCli>>
      BY <3>3
    <3> QED BY <2>2, <3>1, <3>2, <3>3
  <2>6. \A d \in {S!CodexSynthesis, S!GeminiCli, S!OpenAISynthesis, S!CodexCli} :
          S!SynthesisCapable(S!DefaultRegistry, d) => d \in {S!CodexSynthesis, S!OpenAISynthesis}
    <3> SUFFICES ASSUME NEW d \in {S!GeminiCli, S!CodexCli}, S!SynthesisCapable(S!DefaultRegistry, d)
                 PROVE  FALSE
      OBVIOUS
    <3>1. d \in S!Adapters
      BY DEF S!Adapters
    <3>2. d["model"] \notin {S!CodexSynthesis["model"], S!OpenAI["model"]}
      BY DEF S!GeminiCli, S!CodexCli, S!CodexSynthesis, S!OpenAI, S!Descriptor
    <3> QED BY <3>1, <3>2, SynthesizersByModel
  <2> DEFINE synthesis == input.synthesis
             decision  == result
             remaining == input.remaining
  <2>7. \A i \in DOMAIN synthesis :
          S!SynthesisCapable(S!DefaultRegistry, synthesis[i]) =>
            synthesis[i] \in {S!CodexSynthesis, S!OpenAISynthesis}
    BY <2>5, <2>6, Zenon
  <2>8. decision # None /\ remaining \in Int /\ DOMAIN synthesis \subseteq Nat
        /\ decision = S!Decide(input.candidates, synthesis, S!DefaultRegistry, input.hints, remaining)
    BY <2>1, <2>2, <2>5
  <2> HIDE DEF synthesis, decision, remaining
  <2>9. /\ Charges(S!SynthesisCharge[decision.synthesis], decision.selected)
             <= remaining + (IF decision.synthesis = S!CodexSynthesis THEN 1 ELSE 0)
        /\ \A i \in DOMAIN decision.rejected :
             decision.rejected[i][2] = "budget" =>
               decision.estimate + S!Get(S!DefaultRegistry, decision.rejected[i][1]).cost > remaining
    BY <2>3, <2>4, <2>7, <2>8, EstimatesCover
  <2> QED BY <2>9, Zenon DEF EstimateCoversCalls, Charges, decision, remaining
<1> QED BY <1>1, DecisionInvariant, PTL

-----------------------------------------------------------------------------
(* The simulator                                                           *)

(* A fold of five steps: what FoldLeft makes of the roles, written out.    *)
Turn1(script, l) == TakeTurn(Fresh, "planner", script, l)
Turn2(script, l) == TakeTurn(Turn1(script, l), "coder", script, l)
Turn3(script, l) == TakeTurn(Turn2(script, l), "reviewer", script, l)
Turn4(script, l) == TakeTurn(Turn3(script, l), "red_team", script, l)
Turn5(script, l) == TakeTurn(Turn4(script, l), "closeout", script, l)

(* The turns of some of the roles, in their order.                         *)
Of1(s, script, l) == IF 1 \in s THEN TakeTurn(Fresh, "planner", script, l) ELSE Fresh
Of2(s, script, l) == IF 2 \in s THEN TakeTurn(Of1(s, script, l), "coder", script, l)
                     ELSE Of1(s, script, l)
Of3(s, script, l) == IF 3 \in s THEN TakeTurn(Of2(s, script, l), "reviewer", script, l)
                     ELSE Of2(s, script, l)
Of4(s, script, l) == IF 4 \in s THEN TakeTurn(Of3(s, script, l), "red_team", script, l)
                     ELSE Of3(s, script, l)
Of5(s, script, l) == IF 5 \in s THEN TakeTurn(Of4(s, script, l), "closeout", script, l)
                     ELSE Of4(s, script, l)

LEMMA RolesAre ==
  /\ DOMAIN Roles = 1..5
  /\ Roles[1] = "planner" /\ Roles[2] = "coder" /\ Roles[3] = "reviewer"
  /\ Roles[4] = "red_team" /\ Roles[5] = "closeout"
  /\ Len(Roles) = 5
  /\ Range(Roles) = {"planner", "coder", "reviewer", "red_team", "closeout"}
<1>1. DOMAIN Roles = 1..5 /\ Len(Roles) = 5
      /\ Roles[1] = "planner" /\ Roles[2] = "coder" /\ Roles[3] = "reviewer"
      /\ Roles[4] = "red_team" /\ Roles[5] = "closeout"
  BY DEF Roles
<1>2. Range(Roles) = {Roles[i] : i \in 1..5}
  BY <1>1, Zenon DEF Range
<1>3. 1..5 = {1, 2, 3, 4, 5}
  OBVIOUS
<1> QED BY <1>1, <1>2, <1>3

LEMMA MaxOf ==
  ASSUME NEW s \in SUBSET (1..5), NEW m \in s, \A i \in s : i <= m
  PROVE  Max(s) = m
<1>1. \A y \in s : m >= y
  OBVIOUS
<1>2. Max(s) \in s /\ \A y \in s : Max(s) >= y
  <2>1. \E x \in s : \A y \in s : x >= y
    BY <1>1
  <2> QED BY <2>1 DEF Max
<1>3. Max(s) <= m /\ Max(s) >= m
  BY <1>2
<1>4. Max(s) \in 1..5 /\ m \in 1..5
  BY <1>2
<1> QED BY <1>3, <1>4

LEMMA SimulationIsTurns ==
  ASSUME NEW script, NEW l
  PROVE  FoldLeft(LAMBDA run, role : TakeTurn(run, role, script, l), Fresh, Roles)
         = Turn5(script, l)
<1> DEFINE U == SUBSET (1..5)
           Solves(g) == g = [s \in U |-> IF s = {} THEN Fresh
                                         ELSE TakeTurn(g[s \ {Max(s)}], Roles[Max(s)], script, l)]
           h == CHOOSE g : Solves(g)
           k == [s \in U |-> Of5(s, script, l)]
<1>1. FoldLeft(LAMBDA run, role : TakeTurn(run, role, script, l), Fresh, Roles) = h[1..5]
  BY RolesAre, Zenon DEF FoldLeft, MapThenFoldSet
<1>2. Solves(k)
  <2> SUFFICES ASSUME NEW s \in U
               PROVE  k[s] = IF s = {} THEN Fresh
                             ELSE TakeTurn(k[s \ {Max(s)}], Roles[Max(s)], script, l)
    OBVIOUS
  <2> DEFINE r == s \ {Max(s)}
  <2>1. k[s] = Of5(s, script, l) /\ k[r] = Of5(r, script, l)
    OBVIOUS
  <2>2. CASE s = {}
    BY <2>1, <2>2 DEF Of1, Of2, Of3, Of4, Of5
  <2>3. CASE 5 \in s
    <3>1. Max(s) = 5
      BY <2>3, MaxOf
    <3>2. Of4(r, script, l) = Of4(s, script, l)
      BY <3>1 DEF Of1, Of2, Of3, Of4
    <3> QED BY <2>1, <2>3, <3>1, <3>2, RolesAre DEF Of5
  <2>4. CASE 5 \notin s /\ 4 \in s
    <3>1. Max(s) = 4
      BY <2>4, MaxOf
    <3>2. Of3(r, script, l) = Of3(s, script, l)
      BY <3>1 DEF Of1, Of2, Of3
    <3> QED BY <2>1, <2>4, <3>1, <3>2, RolesAre DEF Of4, Of5
  <2>5. CASE 5 \notin s /\ 4 \notin s /\ 3 \in s
    <3>1. Max(s) = 3
      BY <2>5, MaxOf
    <3>2. Of2(r, script, l) = Of2(s, script, l)
      BY <3>1 DEF Of1, Of2
    <3> QED BY <2>1, <2>5, <3>1, <3>2, RolesAre DEF Of3, Of4, Of5
  <2>6. CASE 5 \notin s /\ 4 \notin s /\ 3 \notin s /\ 2 \in s
    <3>1. Max(s) = 2
      BY <2>6, MaxOf
    <3>2. Of1(r, script, l) = Of1(s, script, l)
      BY <3>1 DEF Of1
    <3> QED BY <2>1, <2>6, <3>1, <3>2, RolesAre DEF Of2, Of3, Of4, Of5
  <2>7. CASE s = {1}
    <3>1. Max(s) = 1
      BY <2>7, MaxOf
    <3> QED BY <2>1, <2>7, <3>1, RolesAre DEF Of1, Of2, Of3, Of4, Of5
  <2>8. \/ s = {} \/ s = {1} \/ 2 \in s \/ 3 \in s \/ 4 \in s \/ 5 \in s
    <3>1. 1..5 = {1, 2, 3, 4, 5}
      OBVIOUS
    <3>2. s \subseteq {1, 2, 3, 4, 5}
      BY <3>1
    <3> QED BY <3>2
  <2> QED BY <2>2, <2>3, <2>4, <2>5, <2>6, <2>7, <2>8
<1>3. Solves(h)
  <2> HIDE DEF Solves, k
  <2> QED BY <1>2
<1> HIDE DEF h
<1>4. h[{}] = Fresh
  BY <1>3
<1>5. ASSUME NEW s \in U, NEW m \in s, \A i \in s : i <= m
      PROVE  h[s] = TakeTurn(h[s \ {m}], Roles[m], script, l)
  <2>1. Max(s) = m
    BY <1>5, MaxOf
  <2>2. h[s] = IF s = {} THEN Fresh ELSE TakeTurn(h[s \ {Max(s)}], Roles[Max(s)], script, l)
    BY <1>3
  <2> QED BY <2>1, <2>2
<1>6. h[{1}] = Turn1(script, l)
  <2>1. {1} \in U /\ {1} \ {1} = {}
    OBVIOUS
  <2>2. h[{1}] = TakeTurn(h[{}], Roles[1], script, l)
    BY <1>5, <2>1
  <2> QED BY <2>2, <1>4, RolesAre DEF Turn1
<1>7. h[{1, 2}] = Turn2(script, l)
  <2>1. {1, 2} \in U /\ {1, 2} \ {2} = {1}
    OBVIOUS
  <2>2. h[{1, 2}] = TakeTurn(h[{1}], Roles[2], script, l)
    BY <1>5, <2>1
  <2> QED BY <2>2, <1>6, RolesAre DEF Turn2
<1>8. h[{1, 2, 3}] = Turn3(script, l)
  <2>1. {1, 2, 3} \in U /\ {1, 2, 3} \ {3} = {1, 2}
    OBVIOUS
  <2>2. h[{1, 2, 3}] = TakeTurn(h[{1, 2}], Roles[3], script, l)
    BY <1>5, <2>1
  <2> QED BY <2>2, <1>7, RolesAre DEF Turn3
<1>9. h[{1, 2, 3, 4}] = Turn4(script, l)
  <2>1. {1, 2, 3, 4} \in U /\ {1, 2, 3, 4} \ {4} = {1, 2, 3}
    OBVIOUS
  <2>2. h[{1, 2, 3, 4}] = TakeTurn(h[{1, 2, 3}], Roles[4], script, l)
    BY <1>5, <2>1
  <2> QED BY <2>2, <1>8, RolesAre DEF Turn4
<1>10. h[1..5] = Turn5(script, l)
  <2>1. 1..5 \in U /\ (1..5) \ {5} = {1, 2, 3, 4}
    OBVIOUS
  <2>2. h[1..5] = TakeTurn(h[{1, 2, 3, 4}], Roles[5], script, l)
    BY <1>5, <2>1
  <2> QED BY <2>2, <1>9, RolesAre DEF Turn5
<1> QED BY <1>1, <1>10

LEMMA RangeOfJoined ==
  ASSUME NEW T, NEW a \in Seq(T), NEW b \in Seq(T)
  PROVE  a \o b \in Seq(T) /\ Range(a \o b) = Range(a) \cup Range(b)
<1> DEFINE c == a \o b
<1>1. c \in Seq(T) /\ DOMAIN c = 1..(Len(a) + Len(b)) /\ DOMAIN a = 1..Len(a)
      /\ DOMAIN b = 1..Len(b) /\ Len(a) \in Nat /\ Len(b) \in Nat
  OBVIOUS
<1>2. /\ \A i \in DOMAIN a : i \in DOMAIN c /\ c[i] = a[i]
      /\ \A i \in DOMAIN b : Len(a) + i \in DOMAIN c /\ c[Len(a) + i] = b[i]
  OBVIOUS
<1>3. \A i \in DOMAIN c : \/ i \in DOMAIN a /\ c[i] = a[i]
                          \/ i - Len(a) \in DOMAIN b /\ c[i] = b[i - Len(a)]
  OBVIOUS
<1> HIDE DEF c
<1>4. Range(c) \subseteq Range(a) \cup Range(b)
  BY <1>3, Zenon DEF Range
<1>5. Range(a) \subseteq Range(c) /\ Range(b) \subseteq Range(c)
  BY <1>2, Zenon DEF Range
<1> QED BY <1>1, <1>4, <1>5 DEF c

(* The names of roles, phases and events.                                  *)
Words == {"planner", "coder", "reviewer", "red_team", "closeout", "planning", "coding", "review",
          "none", "started", "phase_started", "turn_recorded", "objection_raised",
          "review_passed", "red_team_passed"}

LEMMA OneWord ==
  /\ <<>> \in Seq(Words) /\ Range(<<>>) = {}
  /\ \A w \in Words : <<w>> \in Seq(Words) /\ Range(<<w>>) = {w}
<1>1. Range(<<>>) = {}
  BY DEF Range
<1>2. \A w : Range(<<w>>) = {w}
  BY DEF Range
<1>3. \A w \in Words : <<w>> \in Seq(Words)
  OBVIOUS
<1> QED BY <1>1, <1>2, <1>3

LEMMA PhasesAreWords == \A role \in Range(Roles) : role \in Words /\ PhaseOf(role) \in Words
BY RolesAre DEF PhaseOf, Words

LEMMA VerdictsAreWords ==
  ASSUME NEW step, NEW role
  PROVE  \/ Verdict(step, role) = <<>> /\ role \notin Objectors
         \/ Verdict(step, role) = <<"objection_raised">> /\ step.objects
         \/ Verdict(step, role) = <<"review_passed">> /\ role = "reviewer" /\ ~ step.objects
         \/ Verdict(step, role) = <<"red_team_passed">> /\ role # "reviewer" /\ ~ step.objects
BY DEF Verdict

(* What holds of a run after the turns of the first k roles.               *)
Steps   == [duration : Int, cost : Int, objects : BOOLEAN]
Whole(script) == \A r \in Range(Roles) : script[r].duration % Fraction = 0

Limited == [turns : Int, perRole : [Range(Roles) -> Int], duration : Int, phase : Int,
            budget : Int \cup {Unlimited}]

TurnsWhole(run) == \A i \in DOMAIN run.turns : run.turns[i].at % Fraction = 0

Kept(run, l) ==
  run.turns # <<>> =>
    /\ Len(run.turns) <= l.turns
    /\ run.elapsed <= l.duration * Fraction
    /\ l.budget # Unlimited => run.spent <= l.budget

RunInv(run, k, script, l) ==
  /\ run \in [ended : {"running", "bad_step", "limit"}, turns : Seq([role : Words, at : Int]),
              elapsed : Int, spent : Int, phase : Words, objections : Seq(Words),
              audit : Seq(Words)]
  /\ "closeout_ready" \notin Range(run.audit)
  /\ Kept(run, l)
  /\ Whole(script) => run.elapsed % Fraction = 0 /\ TurnsWhole(run)
  /\ run.ended = "running" =>
       /\ Len(run.turns) = k
       /\ run.objections = <<>> =>
            /\ k >= 3 => "review_passed" \in Range(run.audit)
            /\ k >= 4 => "red_team_passed" \in Range(run.audit)

LEMMA TurnKeepsRun ==
  ASSUME NEW script \in [Range(Roles) -> Steps], NEW l \in Limited, NEW k \in 0..4, NEW run,
         NEW role, role = Roles[k + 1], RunInv(run, k, script, l)
  PROVE  RunInv(TakeTurn(run, role, script, l), k + 1, script, l)
<1> DEFINE next == TakeTurn(run, role, script, l)
           step == script[role]
           at   == run.elapsed + step.duration
           new  == [role |-> role, at |-> at]
           says == (IF run.phase = PhaseOf(role) THEN <<>> ELSE <<"phase_started">>)
           told == Verdict(step, role)
           objs == IF step.objects /\ role \in Objectors THEN Append(run.objections, role)
                   ELSE run.objections
           heard == run.audit \o says \o <<"turn_recorded">> \o told
<1>1. /\ role \in Range(Roles) /\ role \in Words
      /\ k = 2 <=> role = "reviewer"
      /\ k = 3 <=> role = "red_team"
  <2>1. CASE k = 0
    BY <2>1, 0 + 1 = 1, RolesAre DEF Words
  <2>2. CASE k = 1
    BY <2>2, 1 + 1 = 2, RolesAre DEF Words
  <2>3. CASE k = 2
    BY <2>3, 2 + 1 = 3, RolesAre DEF Words
  <2>4. CASE k = 3
    BY <2>4, 3 + 1 = 4, RolesAre DEF Words
  <2>5. CASE k = 4
    BY <2>5, 4 + 1 = 5, RolesAre DEF Words
  <2> QED BY <2>1, <2>2, <2>3, <2>4, <2>5
<1>2. step \in Steps
  BY <1>1
<1>3. /\ run.elapsed \in Int /\ run.spent \in Int /\ run.turns \in Seq([role : Words, at : Int])
      /\ run.objections \in Seq(Words) /\ run.audit \in Seq(Words)
      /\ run.ended \in {"running", "bad_step", "limit"}
  BY DEF RunInv
<1>4. CASE run.ended # "running"
  BY <1>4 DEF TakeTurn, RunInv
<1>5. ASSUME run.ended = "running", NEW e \in {"bad_step", "limit"}, next = [run EXCEPT !.ended = e]
      PROVE  RunInv(next, k + 1, script, l)
  <2>1. /\ next.ended = e /\ next.turns = run.turns /\ next.elapsed = run.elapsed
        /\ next.spent = run.spent /\ next.phase = run.phase /\ next.objections = run.objections
        /\ next.audit = run.audit
    BY <1>5 DEF RunInv
  <2>2. next \in [ended : {"running", "bad_step", "limit"}, turns : Seq([role : Words, at : Int]),
                  elapsed : Int, spent : Int, phase : Words, objections : Seq(Words),
                  audit : Seq(Words)]
    BY <1>5 DEF RunInv
  <2> HIDE DEF next
  <2> QED BY <1>5, <2>1, <2>2 DEF RunInv, Kept, TurnsWhole
<1>6. CASE /\ run.ended = "running" /\ step.duration >= 0 /\ step.cost >= 0
           /\ WithinLimits(run, step, l, role)
  <2>1. next = [run EXCEPT !.phase = PhaseOf(role), !.elapsed = at, !.spent = @ + step.cost,
                           !.turns = Append(@, new), !.objections = objs, !.audit = heard]
    BY <1>2, <1>6 DEF TakeTurn, Steps
  <2>2. /\ next.ended = "running" /\ next.turns = Append(run.turns, new) /\ next.elapsed = at
        /\ next.spent = run.spent + step.cost /\ next.phase = PhaseOf(role)
        /\ next.objections = objs /\ next.audit = heard
    BY <1>6, <2>1 DEF RunInv
  <2>3. PhaseOf(role) \in Words
    BY <1>1, PhasesAreWords
  <2>4. /\ says \in Seq(Words) /\ told \in Seq(Words) /\ <<"turn_recorded">> \in Seq(Words)
        /\ Range(<<"turn_recorded">>) = {"turn_recorded"}
        /\ Range(says) \subseteq {"phase_started"}
        /\ Range(told) \subseteq {"objection_raised", "review_passed", "red_team_passed"}
    <3>1. /\ "phase_started" \in Words /\ "turn_recorded" \in Words /\ "objection_raised" \in Words
          /\ "review_passed" \in Words /\ "red_team_passed" \in Words
      BY DEF Words
    <3>2. says = <<>> \/ says = <<"phase_started">>
      OBVIOUS
    <3> HIDE DEF says, told
    <3>3. says \in Seq(Words) /\ Range(says) \subseteq {"phase_started"}
      BY <3>1, <3>2, OneWord
    <3>4. told \in Seq(Words)
          /\ Range(told) \subseteq {"objection_raised", "review_passed", "red_team_passed"}
      <4>1. \/ told = <<>> \/ told = <<"objection_raised">> \/ told = <<"review_passed">>
            \/ told = <<"red_team_passed">>
        BY VerdictsAreWords DEF told
      <4> QED BY <3>1, <4>1, OneWord
    <3> QED BY <3>1, <3>3, <3>4, OneWord
  <2>5. heard \in Seq(Words)
        /\ Range(heard) = Range(run.audit) \cup Range(says) \cup {"turn_recorded"} \cup Range(told)
    <3> DEFINE tr == <<"turn_recorded">>
    <3> HIDE DEF says, told, tr
    <3>1. tr \in Seq(Words) /\ Range(tr) = {"turn_recorded"}
      BY <2>4 DEF tr
    <3>2. run.audit \o says \in Seq(Words)
          /\ Range(run.audit \o says) = Range(run.audit) \cup Range(says)
      BY <1>3, <2>4, RangeOfJoined
    <3>3. run.audit \o says \o tr \in Seq(Words)
          /\ Range(run.audit \o says \o tr) = Range(run.audit \o says) \cup Range(tr)
      <4> DEFINE x == run.audit \o says
      <4>1. x \in Seq(Words)
        BY <3>2
      <4> HIDE DEF x
      <4>2. x \o tr \in Seq(Words) /\ Range(x \o tr) = Range(x) \cup Range(tr)
        BY <3>1, <4>1, RangeOfJoined
      <4> QED BY <4>2 DEF x
    <3>4. run.audit \o says \o tr \o told \in Seq(Words)
          /\ Range(run.audit \o says \o tr \o told) = Range(run.audit \o says \o tr) \cup Range(told)
      <4> DEFINE x == run.audit \o says \o tr
      <4>1. x \in Seq(Words)
        BY <3>3
      <4> HIDE DEF x
      <4>2. x \o told \in Seq(Words) /\ Range(x \o told) = Range(x) \cup Range(told)
        BY <2>4, <4>1, RangeOfJoined
      <4> QED BY <4>2 DEF x
    <3>5. heard = run.audit \o says \o tr \o told
      BY DEF tr
    <3> HIDE DEF heard
    <3>6. heard \in Seq(Words) /\ Range(heard) = Range(run.audit \o says \o tr \o told)
      BY <3>4, <3>5
    <3> QED BY <3>1, <3>2, <3>3, <3>4, <3>6
  <2>6. "closeout_ready" \notin Range(says) /\ "closeout_ready" \notin Range(told)
    BY <2>4
  <2>7. objs \in Seq(Words) /\ (objs = <<>> => run.objections = <<>>)
        /\ (objs = <<>> /\ role \in Objectors => ~ step.objects)
    <3>1. Append(run.objections, role) \in Seq(Words) /\ Append(run.objections, role) # <<>>
      <4>1. Len(Append(run.objections, role)) = Len(run.objections) + 1 /\ Len(run.objections) \in Nat
            /\ Append(run.objections, role) \in Seq(Words)
        BY <1>1, <1>3
      <4>2. Len(<<>>) = 0
        OBVIOUS
      <4> QED BY <4>1, <4>2
    <3> QED BY <1>3, <3>1
  <2>8. objs = <<>> => /\ role = "reviewer" => "review_passed" \in Range(told)
                       /\ role = "red_team" => "red_team_passed" \in Range(told)
    <3> SUFFICES ASSUME objs = <<>>, role \in Objectors
                 PROVE  /\ role = "reviewer" => "review_passed" \in Range(told)
                        /\ role = "red_team" => "red_team_passed" \in Range(told)
      BY DEF Objectors
    <3>1. ~ step.objects
      BY <2>7
    <3>2. told = IF role = "reviewer" THEN <<"review_passed">> ELSE <<"red_team_passed">>
      BY <3>1, VerdictsAreWords
    <3>3. \A w : w \in Range(<<w>>)
      BY DEF Range
    <3> HIDE DEF told
    <3> QED BY <3>2, <3>3
  <2>9. /\ Len(run.turns) < l.turns /\ at <= l.duration * Fraction
        /\ l.budget # Unlimited => run.spent + step.cost <= l.budget
    BY <1>6 DEF WithinLimits
  <2>10. /\ next.turns \in Seq([role : Words, at : Int]) /\ Len(next.turns) = Len(run.turns) + 1
         /\ DOMAIN next.turns = 1..(Len(run.turns) + 1) /\ next.turns[Len(run.turns) + 1] = new
         /\ \A i \in DOMAIN run.turns : next.turns[i] = run.turns[i]
         /\ DOMAIN run.turns = 1..Len(run.turns) /\ Len(run.turns) \in Nat
    <3>1. new \in [role : Words, at : Int]
      BY <1>1, <1>2, <1>3 DEF Steps
    <3> DEFINE T == [role : Words, at : Int]
               ts == run.turns
    <3>2. ts \in Seq(T)
      BY <1>3
    <3>3. next.turns = Append(ts, new)
      BY <2>2
    <3> HIDE DEF T, ts, new, next
    <3>4. Append(ts, new) \in Seq(T) /\ Len(Append(ts, new)) = Len(ts) + 1
          /\ DOMAIN Append(ts, new) = 1..(Len(ts) + 1) /\ Append(ts, new)[Len(ts) + 1] = new
          /\ (\A i \in DOMAIN ts : Append(ts, new)[i] = ts[i])
          /\ DOMAIN ts = 1..Len(ts) /\ Len(ts) \in Nat
      BY <3>1, <3>2 DEF T
    <3> QED BY <3>3, <3>4 DEF T, ts
  <2>11. at \in Int /\ run.spent + step.cost \in Int
    BY <1>2, <1>3 DEF Steps
  <2>12. next \in [ended : {"running", "bad_step", "limit"}, turns : Seq([role : Words, at : Int]),
                   elapsed : Int, spent : Int, phase : Words, objections : Seq(Words),
                   audit : Seq(Words)]
    <3> HIDE DEF at, new, heard, objs, step
    <3>1. Append(run.turns, new) \in Seq([role : Words, at : Int])
      BY <2>2, <2>10
    <3> HIDE DEF next
    <3> QED BY <1>6, <2>1, <2>3, <2>5, <2>7, <2>11, <3>1 DEF RunInv
  <2>13. Whole(script) => next.elapsed % Fraction = 0 /\ TurnsWhole(next)
    <3> SUFFICES ASSUME Whole(script) PROVE next.elapsed % Fraction = 0 /\ TurnsWhole(next)
      OBVIOUS
    <3>1. step.duration % Fraction = 0 /\ step.duration \in Int
      BY <1>1, <1>2 DEF Whole, Steps
    <3>2. run.elapsed % Fraction = 0 /\ TurnsWhole(run)
      BY DEF RunInv
    <3>3. at % Fraction = 0
      <4> DEFINE d == step.duration
      <4> HIDE DEF d
      <4> QED BY <1>3, <3>1, <3>2, ModSum, FractionAssumption DEF d
    <3>4. new.at = at
      OBVIOUS
    <3> HIDE DEF at, new, next
    <3> QED BY <2>2, <2>10, <3>2, <3>3, <3>4 DEF TurnsWhole
  <2>14. Kept(next, l)
    <3> HIDE DEF at, next, new
    <3> QED BY <2>2, <2>9, <2>10 DEF Kept, Limited
  <2>15. "closeout_ready" \notin Range(next.audit)
    <3>1. "closeout_ready" \notin Range(run.audit)
      BY DEF RunInv
    <3> HIDE DEF heard, says, told, next
    <3> QED BY <2>2, <2>5, <2>6, <3>1
  <2>16. next.objections = <<>> =>
            /\ k + 1 >= 3 => "review_passed" \in Range(next.audit)
            /\ k + 1 >= 4 => "red_team_passed" \in Range(next.audit)
    <3>1. run.objections = <<>> =>
            /\ k >= 3 => "review_passed" \in Range(run.audit)
            /\ k >= 4 => "red_team_passed" \in Range(run.audit)
      BY <1>6 DEF RunInv
    <3> HIDE DEF heard, says, told, next, objs
    <3> QED BY <1>1, <2>2, <2>5, <2>7, <2>8, <3>1
  <2>17. Len(next.turns) = k + 1
    <3>1. Len(run.turns) = k
      BY <1>6 DEF RunInv
    <3> HIDE DEF next
    <3> QED BY <2>10, <3>1
  <2>18. RunInv(next, k + 1, script, l)
    <3> HIDE DEF next
    <3> QED BY <2>12, <2>13, <2>14, <2>15, <2>16, <2>17 DEF RunInv
  <2> QED BY <2>18
<1>7. CASE /\ run.ended = "running"
           /\ ~ (step.duration >= 0 /\ step.cost >= 0 /\ WithinLimits(run, step, l, role))
  <2>1. next \in {[run EXCEPT !.ended = "bad_step"], [run EXCEPT !.ended = "limit"]}
    BY <1>2, <1>7 DEF TakeTurn, Steps
  <2>2. RunInv(next, k + 1, script, l)
    <3> HIDE DEF next
    <3> QED BY <1>5, <1>7, <2>1
  <2> QED BY <2>2
<1> QED BY <1>4, <1>6, <1>7

LEMMA FiveTurns ==
  ASSUME NEW script \in [Range(Roles) -> Steps], NEW l \in Limited
  PROVE  RunInv(Turn5(script, l), 5, script, l)
<1>1. RunInv(Fresh, 0, script, l)
  <2>1. Range(<<"started">>) = {"started"} /\ <<"started">> \in Seq(Words)
    BY OneWord, "started" \in Words DEF Words
  <2>2. 0 % Fraction = 0
    BY FractionAssumption
  <2>3. /\ Fresh.ended = "running" /\ Fresh.turns = <<>> /\ Fresh.elapsed = 0
        /\ Fresh.objections = <<>> /\ Fresh.audit = <<"started">>
    BY DEF Fresh
  <2>4. Fresh \in [ended : {"running", "bad_step", "limit"}, turns : Seq([role : Words, at : Int]),
                   elapsed : Int, spent : Int, phase : Words, objections : Seq(Words),
                   audit : Seq(Words)]
    <3>1. "none" \in Words
      BY DEF Words
    <3>2. \A T : <<>> \in Seq(T)
      OBVIOUS
    <3> QED BY <2>1, <3>1, <3>2 DEF Fresh
  <2>5. DOMAIN <<>> = {} /\ Len(<<>>) = 0
    OBVIOUS
  <2>6. TurnsWhole(Fresh)
    BY <2>3, <2>5 DEF TurnsWhole
  <2> QED BY <2>1, <2>2, <2>3, <2>4, <2>5, <2>6 DEF RunInv, Kept
<1>2. RunInv(Turn1(script, l), 1, script, l)
  BY <1>1, TurnKeepsRun, RolesAre, 0 + 1 = 1, 0 \in 0..4 DEF Turn1
<1>3. RunInv(Turn2(script, l), 2, script, l)
  BY <1>2, TurnKeepsRun, RolesAre, 1 + 1 = 2, 1 \in 0..4 DEF Turn2
<1>4. RunInv(Turn3(script, l), 3, script, l)
  BY <1>3, TurnKeepsRun, RolesAre, 2 + 1 = 3, 2 \in 0..4 DEF Turn3
<1>5. RunInv(Turn4(script, l), 4, script, l)
  BY <1>4, TurnKeepsRun, RolesAre, 3 + 1 = 4, 3 \in 0..4 DEF Turn4
<1> QED BY <1>5, TurnKeepsRun, RolesAre, 4 + 1 = 5, 4 \in 0..4 DEF Turn5

FromWhole(start) == start >= 0 /\ start % Fraction = 0

(* An announced closeout is earned: the reviewer and the red team passed   *)
(* the run, all roles took their turns, every limit was kept, and from a   *)
(* whole start and with whole durations the run ends ready.  For all       *)
(* scripts, starts and limits.                                             *)
THEOREM CloseoutEarned ==
  ASSUME NEW script \in [Range(Roles) -> Steps], NEW start \in Int, NEW l \in Limited
  PROVE  LET run     == Simulate(script, start, l)
             told(e) == e \in Range(run.audit)
         IN  /\ told("closeout_ready") => /\ told("review_passed") /\ told("red_team_passed")
                                           /\ Len(run.turns) = Len(Roles)
             /\ run.ended = "ready" => told("closeout_ready")
             /\ Whole(script) /\ FromWhole(start) => (told("closeout_ready") => run.ended = "ready")
             /\ Kept(run, l)
<1> DEFINE run == Simulate(script, start, l)
           r5  == Turn5(script, l)
<1>1. RunInv(r5, 5, script, l)
  BY FiveTurns
<1>2. CASE ~ LimitsOK(l)
  <2>1. run.ended = "bad_limits" /\ run.audit = <<>> /\ run.turns = <<>>
    BY <1>2 DEF Simulate, Fresh
  <2> HIDE DEF run
  <2>2. Range(run.audit) = {}
    BY <2>1, OneWord
  <2>3. Kept(run, l)
    BY <2>1 DEF Kept
  <2> QED BY <2>1, <2>2, <2>3 DEF run
<1>3. CASE LimitsOK(l)
  <2>1. run = Finish(r5, start)
    BY <1>3, SimulationIsTurns DEF Simulate
  <2> HIDE DEF run, r5
  <2>2. CASE r5.ended # "running"
    <3>1. run = r5
      BY <2>1, <2>2 DEF Finish
    <3>2. run.ended # "ready" /\ "closeout_ready" \notin Range(run.audit) /\ Kept(run, l)
      BY <1>1, <2>2, <3>1 DEF RunInv
    <3> QED BY <3>2 DEF run
  <2>3. CASE r5.ended = "running" /\ r5.objections = <<>>
    <3>1. /\ run.audit = Append(r5.audit, "closeout_ready") /\ run.turns = r5.turns
          /\ run.elapsed = r5.elapsed /\ run.spent = r5.spent
          /\ run.ended = IF TranscriptOK(r5, start) THEN "ready" ELSE "bad_transcript"
      BY <1>1, <2>1, <2>3 DEF Finish, RunInv, TranscriptOK
    <3>2. Range(run.audit) = Range(r5.audit) \cup {"closeout_ready"}
      <4> DEFINE a == r5.audit
      <4>1. a \in Seq(Words)
        BY <1>1 DEF RunInv
      <4> HIDE DEF a
      <4>2. Append(a, "closeout_ready") = a \o <<"closeout_ready">>
        BY <4>1
      <4>3. {"closeout_ready"} \subseteq Words \cup {"closeout_ready"}
            /\ a \in Seq(Words \cup {"closeout_ready"})
            /\ <<"closeout_ready">> \in Seq(Words \cup {"closeout_ready"})
        BY <4>1
      <4>4. Range(<<"closeout_ready">>) = {"closeout_ready"}
        BY DEF Range
      <4>5. Range(a \o <<"closeout_ready">>) = Range(a) \cup Range(<<"closeout_ready">>)
        <5> DEFINE T == Words \cup {"closeout_ready"}
                   b == <<"closeout_ready">>
        <5>1. a \in Seq(T) /\ b \in Seq(T)
          BY <4>3
        <5> HIDE DEF T, b
        <5>2. Range(a \o b) = Range(a) \cup Range(b)
          BY <5>1, RangeOfJoined
        <5> QED BY <5>2 DEF b
      <4> QED BY <3>1, <4>2, <4>4, <4>5 DEF a
    <3>3. /\ "review_passed" \in Range(run.audit) /\ "red_team_passed" \in Range(run.audit)
          /\ "closeout_ready" \in Range(run.audit)
      BY <1>1, <2>3, <3>2 DEF RunInv
    <3>4. Len(run.turns) = Len(Roles) /\ Kept(run, l)
      BY <1>1, <2>3, <3>1, RolesAre DEF RunInv, Kept
    <3>5. Whole(script) /\ FromWhole(start) => run.ended = "ready"
      <4> SUFFICES ASSUME Whole(script), FromWhole(start) PROVE TranscriptOK(r5, start)
        BY <3>1
      <4>1. TurnsWhole(r5) /\ r5.turns \in Seq([role : Words, at : Int])
        BY <1>1 DEF RunInv
      <4>2. ASSUME NEW i \in DOMAIN r5.turns PROVE (start + r5.turns[i].at) % Fraction = 0
        <5>1. r5.turns[i].at \in Int /\ r5.turns[i].at % Fraction = 0
          <6> DEFINE turns == r5.turns
                     T     == [role : Words, at : Int]
          <6>1. \A j \in DOMAIN turns : turns[j].at % Fraction = 0
            BY <4>1 DEF TurnsWhole
          <6>2. turns \in Seq(T) /\ i \in DOMAIN turns
            BY <4>1
          <6> HIDE DEF turns, T
          <6>3. turns[i] \in T
            BY <6>2
          <6>4. turns[i].at \in Int
            BY <6>3 DEF T
          <6> QED BY <6>1, <6>2, <6>4 DEF turns
        <5> DEFINE at == r5.turns[i].at
        <5> HIDE DEF at
        <5> QED BY <5>1, ModSum, FractionAssumption DEF FromWhole, at
      <4> QED BY <4>2 DEF TranscriptOK, FromWhole
    <3> QED BY <3>3, <3>4, <3>5 DEF run
  <2>4. CASE r5.ended = "running" /\ r5.objections # <<>>
    <3>1. /\ run.audit = r5.audit /\ run.turns = r5.turns
          /\ run.elapsed = r5.elapsed /\ run.spent = r5.spent
          /\ run.ended \in {"not_ready", "bad_transcript"}
      BY <1>1, <2>1, <2>4 DEF Finish, RunInv, TranscriptOK
    <3>2. "closeout_ready" \notin Range(run.audit) /\ Kept(run, l)
      BY <1>1, <3>1 DEF RunInv, Kept
    <3> QED BY <3>1, <3>2 DEF run
  <2> QED BY <2>2, <2>3, <2>4
<1> QED BY <1>2, <1>3

(* In the run: the scripts and limits of MCDecisions are of that kind.     *)
THEOREM CloseoutIsEarnedCorrect == Spec => []CloseoutIsEarned
<1>1. DecisionInv => CloseoutIsEarned
  <2> SUFFICES ASSUME DecisionInv, Simulated PROVE CloseoutIsEarned
    BY DEF CloseoutIsEarned
  <2> DEFINE script == input.script
             start  == input.start
             l      == input.limits
  <2>1. script \in Scripts /\ start \in Starts /\ l \in LimitSets /\ result = Simulate(script, start, l)
    BY DEF DecisionInv, SimulatorInv, Simulated
  <2>2. script \in [Range(Roles) -> Steps]
    <3>1. PICK steps \in [Range(Roles) -> {Step(1, 1), Step(2, 0), Step(4, 1)}],
               objecting \in SUBSET {"coder", "reviewer", "red_team"} : script = Script(steps, objecting)
      <4>1. script \in Scripts
        BY <2>1
      <4> HIDE DEF script
      <4> QED BY <4>1, SMT DEF Scripts
    <3>2. ASSUME NEW r \in Range(Roles) PROVE steps[r].duration \in Int /\ steps[r].cost \in Int
      BY DEF Step
    <3> HIDE DEF script
    <3> QED BY <3>1, <3>2 DEF Script, Steps
  <2>3. l \in Limited
    <3>2. \/ l = Limits(5, 1, 10, 2, Unlimited) \/ l = Limits(5, 1, 4, 2, 3)
          \/ l = Limits(4, 1, 10, 2, 5) \/ l = Limits(9, 2, 5, 1, 2)
          \/ l = Limits(5, 0, 9, 9, Unlimited)
      BY <2>1, Zenon DEF LimitSets
    <3> HIDE DEF l
    <3>3. Limits(5, 1, 10, 2, Unlimited) \in Limited
      BY DEF Limits, Limited
    <3>4. Limits(5, 1, 4, 2, 3) \in Limited
      BY DEF Limits, Limited
    <3>5. Limits(4, 1, 10, 2, 5) \in Limited
      BY DEF Limits, Limited
    <3>6. Limits(9, 2, 5, 1, 2) \in Limited
      BY DEF Limits, Limited
    <3>7. Limits(5, 0, 9, 9, Unlimited) \in Limited
      BY DEF Limits, Limited
    <3> QED BY <3>2, <3>3, <3>4, <3>5, <3>6, <3>7, Zenon
  <2>5. start \in Int
    BY <2>1 DEF Starts
  <2> HIDE DEF script, start, l
  <2>4. LET run     == Simulate(script, start, l)
            told(e) == e \in Range(run.audit)
        IN  /\ told("closeout_ready") => /\ told("review_passed") /\ told("red_team_passed")
                                          /\ Len(run.turns) = Len(Roles)
            /\ run.ended = "ready" => told("closeout_ready")
            /\ Whole(script) /\ FromWhole(start) => (told("closeout_ready") => run.ended = "ready")
            /\ Kept(run, l)
    BY <2>2, <2>3, <2>5, CloseoutEarned
  <2> QED BY <2>1, <2>4 DEF CloseoutIsEarned, Told, Whole, FromWhole, Kept, script, start, l
<1> QED BY <1>1, DecisionInvariant, PTL
=============================================================================
