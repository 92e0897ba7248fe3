------------------------------ MODULE MCDecisions ------------------------------
(***************************************************************************)
(* The functions that decide on data they are handed, each evaluated on    *)
(* every input of a bounded set: a state is an input, then the input with  *)
(* what the function made of it.                                           *)
(***************************************************************************)
EXTENDS Calibration, AgentChatSimulator

CONSTANTS
  Digits, Tolerance,  \* of the rates of ensemble quality
  Spellings  \* Spellings[n]: the usual spelling of n, for the names also written in another case

Q == INSTANCE EnsembleQuality
F == INSTANCE StructuredFusion
O == INSTANCE AdapterOutcomes

MCSpellings == "Gemini-CLI" :> "gemini-cli" @@ "geminicli" :> "GeminiCLI"
                 @@ "codexcli" :> "CodexCLI" @@ "openai" :> "OpenAI" @@ "Cline" :> "cline"

S == INSTANCE SetupConfig WITH Lowered <- Spellings

(* The names of a field that the code itself writes down: lowered they are *)
(* still told apart, whatever other spellings there are.                   *)
FieldNames(f) ==
  {d[f] : d \in S!Adapters \cup {S!CodexSynthesis}}
    \cup (CASE f = "provider"  -> {"Local"}
            [] f = "authMode"  -> S!SetupAuthModes
            [] f = "transport" -> S!SetupTransports
            [] OTHER           -> {})

ASSUME SpellingsAssumption ==
  \A f \in S!Fields : \A n, m \in FieldNames(f) : S!Lower(n) = S!Lower(m) => n = m

VARIABLES kind, input, result

vars == <<kind, input, result>>

Pending == <<>>

-----------------------------------------------------------------------------
(* Calibration: up to three observations, as the multisets of twenty kinds. *)

Labels(type, subtype, pattern, source) ==
  [type |-> type, subtype |-> subtype, pattern |-> pattern, source |-> source]

(* None is neither a label nor a conclusion that occurs.                   *)
ASSUME LabelsAssumption == None \notin {"s", "u", "x", "y"}

LabelKinds == {Labels("t", None, None, "a"), Labels("t", "s", None, "a"),
               Labels("t", "s", "p", "a"), Labels("t", "u", "p", "a"),
               Labels("t", None, None, "b")}

(* A confidence of none, of one step and of all, and whether it was right. *)
Outcomes == {<<0, FALSE>>, <<1, TRUE>>, <<ConfidenceSteps, TRUE>>, <<ConfidenceSteps, FALSE>>}

Kinds == Listed(LabelKinds \X Outcomes)

MostObservations == 3

Ordered(n) == {s \in [1..n -> DOMAIN Kinds] : \A i \in 2..n : s[i - 1] <= s[i]}

Observations(s) ==
  [i \in DOMAIN s |-> With(Kinds[s[i]][1],
                           [id |-> i, confidence |-> Kinds[s[i]][2][1], correct |-> Kinds[s[i]][2][2]])]

CalibrationInputs ==
  {[obs |-> Observations(s), minimum |-> m]
     : s \in UNION {Ordered(n) : n \in 0..MostObservations}, m \in 1..2}

Queries == {q \in LabelKinds : q.source = "a"} \cup {Labels("t", "s", "q", "a")}
Thresholds == {0, 1, Unit}

Calibrate ==
  /\ kind = "calibration" /\ result = Pending
  /\ result' = [flat   |-> FlatAggregate(input.obs, input.minimum),
                report |-> Aggregate(input.obs, input.minimum)]
  /\ UNCHANGED <<kind, input>>

Calibrated == kind = "calibration" /\ result # Pending

(* Valid observations never make a producer throw: each report, selection  *)
(* and decision the functions build passes the schema they parse it with.  *)
ProducersPassTheirSchemas ==
  Calibrated =>
    /\ FlatReportOK(result.flat)
    /\ GuardedReportOK(result.report)
    /\ \A q \in Queries :
         /\ SelectionOK(Resolve(result.report, q))
         /\ DecisionOK(result.report, Resolve(result.report, q))
         /\ \A most \in Thresholds :
              LET s == GuardedResolve(result.report, q, most)
              IN  GuardedSelectionOK(s) /\ GuardedDecisionOK(result.report, s)

(* A selection resolved against a report, and replayed with the report of  *)
(* one observation more, is taken only if that report selects the same.    *)
StaleSelectionsAreRefused ==
  Calibrated /\ input.obs # <<>> =>
    LET earlier == Aggregate(Front(input.obs), input.minimum)
    IN  \A q \in Queries :
          LET s == Resolve(earlier, q)
          IN  DecisionOK(result.report, s) => s = Resolve(result.report, q)

-----------------------------------------------------------------------------
(* Ensemble quality: one or two observations of a panel of two, one of     *)
(* three, and three of a panel of two that differ in what is correct.      *)

Cand(correct, conclusion, evidence, embedded) ==
  [correct |-> correct, conclusion |-> conclusion, evidence |-> evidence, embedded |-> embedded]

CandidateKinds == {Cand(TRUE, "x", {"e"}, TRUE), Cand(FALSE, "x", {}, FALSE),
                   Cand(FALSE, "y", {"e", "f"}, TRUE)}

Observed(id, size) ==
  {[id |-> id, type |-> "t", at |-> at, candidates |-> c, selected |-> s]
     : c \in [1..size -> CandidateKinds], s \in (1..size) \cup {None}, at \in {3 - id, id}}

Plain(id) == {o \in Observed(id, 2) : /\ o.at = id
                                      /\ \A s \in 1..2 : o.candidates[s].conclusion = "x"}

QualityInputs ==
  {<<o>> : o \in Observed(1, 2) \cup Observed(1, 3)}
    \cup {<<p, o>> : o \in Observed(1, 2), p \in Observed(2, 2)}
    \cup {<<q, o, p>> : o \in Plain(1), p \in Plain(2), q \in Plain(3)}

MeasureQuality ==
  /\ kind = "quality" /\ result = Pending
  /\ result' = Q!Aggregate(input)
  /\ UNCHANGED <<kind, input>>

Measured == kind = "quality" /\ result # Pending

(* The sections of a quality report are computed apart from each other and *)
(* its schema relates few of them.  They tell one story if what no source  *)
(* got right is what the oracle lost, the best sources are those that were *)
(* right most often, a failed pair splits into co-failures and rescues,    *)
(* and a majority outnumbers its minority.                                 *)
OneStory(r) ==
  LET c == r.cofailure
      failures(i) == r.count - c.sources[i]
      mostOften   == {i \in DOMAIN r.panel : \A j \in DOMAIN r.panel : c.sources[j] <= c.sources[i]}
  IN  /\ Q!ShapeOK(r)
      /\ r.regret.oracle + c.allFailed = r.count
      /\ r.regret.bestSources = {r.panel[i] : i \in mostOften}
      /\ \A p \in DOMAIN c.pairs :
           LET rescues(s) == IF s = <<>> THEN 0 ELSE s[1] IN
           /\ c.pairs[p].cofailed >= c.allFailed
           /\ c.pairs[p].cofailed + rescues(c.pairs[p].aGivenB) = failures(p[2])
           /\ c.pairs[p].cofailed + rescues(c.pairs[p].bGivenA) = failures(p[1])
           /\ c.pairs[p].disagreed
                = rescues(c.pairs[p].aGivenB) + rescues(c.pairs[p].bGivenA)
      /\ \A i \in DOMAIN r.minorities :
           LET m == r.minorities[i] IN
           /\ m.majority = None => m.minority = Range(r.panel) /\ m.unresolved # {}
           /\ Cardinality(m.backers) <= Cardinality(m.minority) => m.majority = None

(* The sections of a report of valid observations agree, and it passes the *)
(* schema that it is parsed with: but for the share of the uplift that was *)
(* captured, which is rounded on one side only, and surely passes only if  *)
(* nothing was left to capture or all of it was.                           *)
SectionsAgree ==
  Measured =>
    /\ OneStory(result) /\ Q!RatesOK(result.regret)
    /\ result.regret.uplift[1] = 0 \/ result.regret.success = result.regret.oracle
         => Q!ReportOK(result)

-----------------------------------------------------------------------------
(* Structured fusion: two or three candidates, verdicts that mention       *)
(* known, unknown and repeated sources, answers that do and do not parse.  *)

Sources == {"a", "b"}

Verdicts ==
  {[positions |-> p, strengths |-> s, rejected |-> t]
     : p \in {<<>>} \cup {<<q>> : q \in UNION {[1..n -> Sources \cup {"j"}] : n \in 1..3}},
       s \in {<<>>, <<"a">>, <<"z">>}, t \in {<<>>, <<"b">>, <<"j">>}}

FusionInputs ==
  [labels : (UNION {[1..n -> Sources] : n \in 1..2}) \cup {<<"a", "b", "c">>},
   verdict : Verdicts, judge : {"a", "j"}, final : {<<>>, <<"a", "b">>, <<"j">>, <<"z">>}]

Fuse ==
  /\ kind = "fusion" /\ result = Pending
  /\ result' = F!Run(input.labels, input.verdict, input.judge, input.final)
  /\ UNCHANGED <<kind, input>>

(* The decision report is checked by a schema after both calls were paid   *)
(* for: what the run checked before it asked for a synthesis is enough for *)
(* that schema, so a usable synthesis is never lost to it, and a judge     *)
(* verdict that cites anything else stops the run before the second call.  *)
PaidFusionIsReported ==
  kind = "fusion" /\ result # Pending =>
    /\ result.ended # "report"
    /\ Len(result.calls) = 2 =>
         F!Mentioned(input.verdict) \cup {input.judge}
           \subseteq Range(input.labels) \cup {"j"}

-----------------------------------------------------------------------------
(* The simulator: times in halves of a millisecond, a start that is whole, *)
(* fractional or negative.                                                 *)

Step(duration, cost) == [duration |-> duration, cost |-> cost]

Limits(turns, perRole, duration, phase, budget) ==
  [turns |-> turns, perRole |-> [r \in Range(Roles) |-> perRole],
   duration |-> duration, phase |-> phase, budget |-> budget]

LimitSets == {Limits(5, 1, 10, 2, Unlimited), Limits(5, 1, 4, 2, 3), Limits(4, 1, 10, 2, 5),
              Limits(9, 2, 5, 1, 2), Limits(5, 0, 9, 9, Unlimited)}

Script(steps, objecting) ==
  [r \in Range(Roles) |-> [duration |-> steps[r].duration, cost |-> steps[r].cost,
                           objects |-> r \in objecting]]

Scripts == {Script(steps, objecting) : steps \in [Range(Roles) -> {Step(1, 1), Step(2, 0), Step(4, 1)}],
                                       objecting \in SUBSET {"coder", "reviewer", "red_team"}}

Starts == {0, 3, -2}

Simulation ==
  /\ kind = "simulator" /\ result = Pending
  /\ result' = Simulate(input.script, input.start, input.limits)
  /\ UNCHANGED <<kind, input>>

Simulated == kind = "simulator" /\ result # Pending

Told(event) == event \in Range(result.audit)

(* Closeout is announced only when the reviewer and the red team each      *)
(* passed the run, with every limit kept by the turns that were recorded.  *)
(* The announcement precedes the transcript's schema, which wants whole    *)
(* milliseconds from zero on: from such a start and with whole durations   *)
(* no run is announced ready and lost.                                     *)
CloseoutIsEarned ==
  Simulated =>
    /\ Told("closeout_ready") => /\ Told("review_passed") /\ Told("red_team_passed")
                                 /\ Len(result.turns) = Len(Roles)
    /\ result.ended = "ready" => Told("closeout_ready")
    /\ /\ input.start >= 0 /\ input.start % Fraction = 0
       /\ \A r \in Range(Roles) : input.script[r].duration % Fraction = 0
       => (Told("closeout_ready") => result.ended = "ready")
    /\ result.turns # <<>> =>
         /\ Len(result.turns) <= input.limits.turns
         /\ result.elapsed <= input.limits.duration * Fraction
         /\ input.limits.budget # Unlimited => result.spent <= input.limits.budget

-----------------------------------------------------------------------------
(* One attempt of an adapter: outputs of up to two lines, every status that *)
(* is told apart, answers that name the adapter's model or another.        *)

Lines ==
  {O!Line("plain", "blank", {}), O!Line("plain", "a", {}), O!Line("plain", "b", {"not found"}),
   O!Line("Error:", "e", {}), O!Line("Error:", "e", {"not found"}), O!Line("log", "l", {"timed out"}),
   O!Line("agent", "blank", {}), O!Line("agent", "a", {}), O!Line("result", "blank", {}),
   O!Line("result", "b", {}), O!Holding(O!Line("agent", "c", {}), "inside"),
   O!Holding(O!Line("agent", "c", {"not found"}), "across"),
   O!Holding(O!Line("Error:", "e", {"not found"}), "across")}

Processes ==
  [adapter : {S!CodexCli, S!ClineCli, S!ZcodeGlm, S!ClaudeCode},
   ended : {"no command", "timed out", "aborted", "failed", "exited"},
   stdout : UNION {[1..n -> Lines] : n \in 0..2}, stderr : {{}, {"unauthorized"}}]

Usages == {<<>>} \cup [{"input"} -> {-1, 2}] \cup [{"input", "cached"} -> {-1, 2, 3}]

Bodies == [content : {"missing", "blank", "a"}, usage : Usages,
           model : {None, S!OpenAI.model, S!Anthropic.model, "dated"}]

Responses ==
  [adapter : {S!OpenAI, S!Anthropic}, ended : {"responded"}, phrases : {{}},
   status : {200, 401, 404, 429, 503}, body : {None} \cup Bodies]

Failures ==
  [adapter : {S!OpenAI}, ended : {"timed out", "aborted", "network"},
   phrases : SUBSET {"timed out", "not found"}, status : {0}, body : {None}]

Exchanges == Responses \cup Failures

ByProcess == "stdout" \in DOMAIN input

Attempt ==
  /\ kind = "attempt" /\ result = Pending
  /\ LET outcome == IF ByProcess THEN O!ProcessOutcome(input, input.adapter)
                    ELSE O!HttpOutcome(input, input.adapter)
     IN  result' = [outcome |-> outcome, validated |-> O!Validated(outcome, input.adapter)]
  /\ UNCHANGED <<kind, input>>

Attempted == kind = "attempt" /\ result # Pending

(* Did the provider deliver an answer?                                     *)
Answered == IF ByProcess THEN input.ended = "exited" /\ ~ O!Refusal(O!Read(input), input.adapter)
            ELSE input.ended = "responded" /\ input.status = 200

(* Another provider may be asked only if this one has not answered: an     *)
(* answer that is malformed, empty or another model's is never turned into *)
(* a success by asking elsewhere, whatever words occur in it.              *)
FallbackOnlyUnanswered ==
  Attempted /\ Answered => ~ O!FallbackAllowed(result.validated, "provider")

(* What the router counts is an answer of the adapter's own model, and a   *)
(* usable answer that was paid for is lost only if it names another model. *)
(* Of a log with an agent message that its redaction left readable nothing *)
(* else is taken for the answer.                                           *)
QuorumCountsOwnAnswers ==
  Attempted =>
    LET counted == ~ O!IsError(result.validated)
        usable  == Answered /\ input.body # None
                     /\ input.body.content = "a"
                     /\ \A f \in DOMAIN input.body.usage : input.body.usage[f] >= 0
    IN  /\ counted => Answered /\ result.validated[3] = input.adapter.model
        /\ ~ ByProcess => (counted <=> usable /\ input.body.model \in {None, input.adapter.model})
        /\ ByProcess /\ counted /\ input.adapter = S!CodexCli
             => LET agents == {l \in Range(O!Read(input).stdout) : l.kind = "agent"}
                IN  agents # {} => Range(result.validated[2]) \subseteq agents

-----------------------------------------------------------------------------
(* The direct routing policy: up to three candidates, one of them spelled  *)
(* in two ways, with and without hints, and what is left of a budget.      *)

GeminiAgain == [S!GeminiCli EXCEPT !.model = "Gemini-CLI"]
GeminiOther == [S!GeminiCli EXCEPT !.client = "geminicli"]

NoHints == [byKey |-> <<>>, byLabel |-> <<>>]
Hinted(a, t, c) == [authReady |-> a, transportReady |-> t, circuitOpen |-> c]

HintSets ==
  {NoHints,
   [byKey |-> <<>>, byLabel |-> S!Label(S!GeminiCli) :> Hinted("no", "yes", "no")],
   [byKey |-> S!DescriptorKey(S!GeminiCli) :> Hinted("yes", "yes", "no"),
    byLabel |-> S!Label(S!GeminiCli) :> Hinted("yes", "yes", "yes")]}

Pool == {S!CodexCli, S!DevinCli, S!OpenAI, S!GeminiCli, GeminiAgain, GeminiOther}

PolicyInputs ==
  [candidates : UNION {[1..n -> Pool] : n \in 1..3}, hints : HintSets,
   synthesis : {<<S!CodexSynthesis>>, <<S!GeminiCli, S!OpenAISynthesis>>, <<S!CodexCli>>},
   remaining : {3, 5, 8, 11}]

Choose ==
  /\ kind = "policy" /\ result = Pending
  /\ result' = S!Decide(input.candidates, input.synthesis, S!DefaultRegistry, input.hints,
                        input.remaining)
  /\ UNCHANGED <<kind, input>>

ChargeOf(d) == S!Charge[CHOOSE a \in DOMAIN S!Charge : S!DescriptorKey(a) = S!DescriptorKey(d)]

(* The policy adds up prices of the registry, the adapters charge prices   *)
(* of their own: the calls of a selection, synthesis included, never take  *)
(* more than what was left, but for the one cent that the Codex synthesis  *)
(* costs more than the registry says; and nobody who would still fit was   *)
(* refused for the budget.                                                 *)
EstimateCoversCalls ==
  kind = "policy" /\ result \notin {Pending, None} =>
    LET charges == FoldLeft(LAMBDA sum, d : sum + ChargeOf(d),
                            S!SynthesisCharge[result.synthesis], result.selected)
        slack   == IF result.synthesis = S!CodexSynthesis THEN 1 ELSE 0
    IN  /\ charges <= input.remaining + slack
        /\ \A i \in DOMAIN result.rejected :
             LET cost == S!Get(S!DefaultRegistry, result.rejected[i][1]).cost
             IN  result.rejected[i][2] = "budget" => result.estimate + cost > input.remaining

-----------------------------------------------------------------------------
(* The setup: each profile with what an input may give besides, and each   *)
(* shape of a commander.                                                   *)

LocalModel == S!Descriptor("Local", "m", "local", "localModel", None)
HalfLocal  == S!Descriptor("GLM", "m", "local", "processAdapter", None)
LocalName  == S!Descriptor("Local", "m", "oauth", "processAdapter", None)
Unknown    == [S!OpenAI EXCEPT !.model = "m"]
Respelled  == [S!CodexSynthesis EXCEPT !.client = "codexcli"]
OpenAILow  == [S!OpenAI EXCEPT !.provider = "openai"]

ProviderLists ==
  {<<>>} \cup {<<<<S!Selected(d, on)>>>> : d \in {S!OpenAI, OpenAILow, LocalModel, HalfLocal, Unknown},
                                          on \in BOOLEAN}

CommanderSections ==
  [enabled : BOOLEAN, mode : {"direct_synthesis", "agent_chat_future"},
   strategy : {"explicit", "first_eligible_synthesis", "highest_capability_score"}, local : BOOLEAN,
   descriptor : {S!Absent, LocalModel, HalfLocal, LocalName, Unknown, S!CodexSynthesis, Respelled,
                 OpenAILow, S!CodexCli}]

Setup(profile, mode, optIn, providers, persistence, adaptive, commander) ==
  [profile |-> profile, mode |-> mode, optIn |-> optIn, providers |-> providers,
   persistence |-> persistence, adaptive |-> adaptive, commander |-> commander]

SetupInputs ==
  {Setup(p, m, o, d, s, a, <<>>) :
     p \in DOMAIN S!Profiles, m \in {<<>>, <<"direct">>, <<"agent_chat">>}, o \in BOOLEAN,
     d \in ProviderLists, s \in {<<>>, <<"none">>, <<"supabaseAuditRpc">>},
     a \in {<<>>, [enabled |-> TRUE], [fallbackPolicy |-> "disabled"], [budget |-> 5],
            [budget |-> -5], [enabled |-> TRUE, fallbackPolicy |-> "disabled"]}}
    \cup {Setup("minimal_direct", <<>>, FALSE, <<>>, <<>>, <<>>, c) : c \in CommanderSections}

SetUp ==
  /\ kind = "setup" /\ result = Pending
  /\ result' = <<S!Generated(input)>>
  /\ UNCHANGED <<kind, input>>

Accepted == kind = "setup" /\ result # Pending /\ result # <<<<>>>>

Config == result[1][1]

(* What the generator accepts, the doctor does not call broken, once the   *)
(* variables of the env example are filled in: but for an enabled adaptive *)
(* section with its fallback disabled, which only the doctor refuses, and  *)
(* an endpoint that has an at sign in its path and no user information.    *)
GeneratedConfigPassesDoctor ==
  Accepted => \A endpoint \in SUBSET {"url", "user", "at"} :
    LET env    == S!Placeholders(Config)
        asked  == "OTLP_ENDPOINT" \in env
        doctor == S!Doctor(<<Config>>, env, IF asked THEN endpoint ELSE {}, "absent")
    IN
    /\ doctor.errors =
         (IF Config.adaptive.enabled /\ Config.adaptive.fallbackPolicy = "disabled"
          THEN {"setup_adaptive_direct"} ELSE {})
         \cup (IF asked /\ endpoint = {"url", "at"} THEN {"otlp_endpoint_masking"} ELSE {})
    /\ doctor.mode = Config.mode
    /\ (doctor.audit = "configured") = (Config.persistence = "supabaseAuditRpc")
    /\ doctor.audit # "incomplete"

(* What a commander is selected from.                                      *)
CandidateLists ==
  {<<>>, <<S!CodexCli, S!OpenAI, S!CodexSynthesis>>, <<S!GeminiCli, Unknown>>,
   <<Respelled, OpenAILow>>}

(* A commander section that the generator accepts never makes the          *)
(* selection throw, but for a provider named Local outside the explicit    *)
(* strategy; and what is selected is a synthesis the policy accepts, unless *)
(* its client is spelled in another case than in the registry.             *)
AcceptedCommanderSelects ==
  Accepted =>
    \A candidates \in CandidateLists :
      LET c      == Config.commander
          chosen == S!SelectCommander(c, candidates, S!DefaultRegistry)
          named  == c.enabled /\ c.strategy # "explicit" /\ c.mode = "direct_synthesis"
                      /\ c.descriptor.provider = "Local" /\ ~ S!IsLocal(c.descriptor)
      IN  /\ chosen = <<"error">> => named
          /\ chosen[1] = "selected" =>
               LET d == chosen[2] IN
               S!SynthesisChoice(S!DefaultRegistry, NoHints, <<d>>)
                 = IF d.client = S!Get(S!DefaultRegistry, d).descriptor.client THEN d ELSE None

-----------------------------------------------------------------------------
Init ==
  /\ result = Pending
  /\ \/ kind = "calibration" /\ input \in CalibrationInputs
     \/ kind = "quality" /\ input \in QualityInputs
     \/ kind = "fusion" /\ input \in FusionInputs
     \/ kind = "simulator" /\ input \in [script : Scripts, start : Starts, limits : LimitSets]
     \/ kind = "attempt" /\ input \in Processes \cup Exchanges
     \/ kind = "policy" /\ input \in PolicyInputs
     \/ kind = "setup" /\ input \in SetupInputs

Next == Calibrate \/ MeasureQuality \/ Fuse \/ Simulation \/ Attempt \/ Choose \/ SetUp

Spec == Init /\ [][Next]_vars
=============================================================================
