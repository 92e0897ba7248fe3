---------------------------- MODULE AdapterOutcomes ----------------------------
(***************************************************************************)
(* What one attempt of an adapter makes of what its provider did: the end  *)
(* of a child process or of an HTTP exchange is classified as an error, or *)
(* its output is parsed; the router counts an output only under the        *)
(* identity it was configured with; the fallback policy decides from the   *)
(* error alone whether another provider may be asked instead.              *)
(*                                                                         *)
(* A text is a sequence of lines.  Of a line the code tells apart what     *)
(* kind it is, whether it is blank, which phrases occur in it, and whether *)
(* something in it looks like a credential.                                *)
(* A value is <<"output", content, model>> or <<"error", code>>.           *)
(***************************************************************************)
EXTENDS Integers, Sequences, SequencesExt, FiniteSetsExt

CONSTANT None

Error(code) == <<"error", code>>
IsError(v) == v[1] = "error"

(* kind: "agent" and "result" are JSON objects with an agent message or a  *)
(* run result in them, "log" any other, "plain" is no JSON, "Error:" is    *)
(* plain and starts with that word.  text is "blank", or what it says.     *)
Line(kind, text, phrases) ==
  [kind |-> kind, text |-> text, phrases |-> phrases, secret |-> "none"]

(* What looks like a credential is inside a JSON string, or is taken to    *)
(* reach on to the end of the line, like the value of an authorization     *)
(* header, or over an escaped quote.                                       *)
Holding(line, secret) == [line EXCEPT !.secret = secret]

Blank(lines) == \A i \in DOMAIN lines : lines[i].kind = "plain" /\ lines[i].text = "blank"
Says(lines)  == UNION {lines[i].phrases : i \in DOMAIN lines}

-----------------------------------------------------------------------------
(* Process adapters.                                                       *)

(* classifyProcessFailure: the first class with a phrase that occurs       *)
(* anywhere in the message, the output or the diagnostics.                 *)
Classes == <<<<"timed out", "timeout">>, <<"unauthorized", "auth_failed">>,
             <<"model config is missing", "wrapper_config_missing">>,
             <<"rate limit", "rate_limited">>, <<"not found", "command_unavailable">>>>

ClassifyProcessFailure(phrases) ==
  LET i == SelectInSeq(Classes, LAMBDA c : c[1] \in phrases)
  IN  Error(IF i = 0 THEN "process_failed" ELSE Classes[i][2])

(* sanitizeDiagnosticText: what looks like a credential is replaced.  The  *)
(* patterns know nothing of JSON: one that reaches on takes the closing    *)
(* quote and brackets with it, and what was JSON is no more.               *)
Sanitized(line) ==
  CASE line.secret = "none"   -> line
    [] line.secret = "inside" -> [line EXCEPT !.text = "redacted"]
    [] OTHER -> [line EXCEPT !.text = "redacted", !.phrases = {},
                             !.kind = IF @ = "Error:" THEN @ ELSE "plain"]

(* What the parsers are given of an attempt that succeeded.  Of the        *)
(* diagnostics stderr names the phrases that are left then.                *)
Read(p) == [p EXCEPT !.stdout = [i \in DOMAIN @ |-> Sanitized(@[i])]]

(* runProcess: the attempt that spawns, or does not, is timed out or       *)
(* aborted, or ends with a status.  <<"text", lines>> is its output.  A    *)
(* failure is classified by the output as it came.                         *)
RunProcess(p) ==
  IF p.ended = "no command" THEN Error("command_unavailable") ELSE
  IF p.ended = "timed out" THEN Error("timeout") ELSE
  IF p.ended = "aborted" THEN Error("aborted") ELSE
  IF p.ended = "failed" THEN ClassifyProcessFailure(Says(p.stdout) \cup p.stderr)
  ELSE <<"text", Read(p).stdout>>

Output(content, model) == <<"output", content, model>>

WrongParsePlainText(p, descriptor) ==
  IF Blank(p.stdout) THEN Error("command_unavailable") ELSE Output(p.stdout, descriptor.model)

(* The zcode wrapper reports a failure as an answer.                       *)
Refusal(p, descriptor) ==
  LET i == SelectInSeq(p.stdout, LAMBDA line : line.kind # "plain" \/ line.text # "blank")
  IN  descriptor.transport = "zcodeWrapper" /\ i # 0 /\ p.stdout[i].kind = "Error:"

(* parsePlainTextModelOutput: all of the output is the answer.             *)
ParsePlainText(p, descriptor) ==
  IF Refusal(p, descriptor) THEN ClassifyProcessFailure(Says(p.stdout) \cup p.stderr) ELSE
  IF Blank(p.stdout) THEN Error("provider_malformed")
  ELSE Output(p.stdout, descriptor.model)

(* parseCodexJsonlOutput: the first agent message, also if it is blank:    *)
(* the schema then throws an error of its own, which is no                 *)
(* ProcessExecutionError.  Without one the whole log is the answer.        *)
ParseCodex(p, descriptor) ==
  LET i == SelectInSeq(p.stdout, LAMBDA line : line.kind = "agent") IN
  IF i = 0 THEN ParsePlainText(p, descriptor) ELSE
  IF p.stdout[i].text = "blank" THEN Error("other")
  ELSE Output(<<p.stdout[i]>>, descriptor.model)

(* parseClineJsonlOutput: the last run result with a text in it.           *)
ParseCline(p, descriptor) ==
  LET i == SelectLastInSeq(p.stdout, LAMBDA line : line.kind = "result" /\ line.text # "blank") IN
  IF i = 0 THEN ParsePlainText(p, descriptor) ELSE Output(<<p.stdout[i]>>, descriptor.model)

ProcessOutcome(p, descriptor) ==
  LET run == RunProcess(p) IN
  IF IsError(run) THEN run ELSE
  CASE descriptor.client = "CodexCLI" -> ParseCodex(Read(p), descriptor)
    [] descriptor.client = "Cline"    -> ParseCline(Read(p), descriptor)
    [] OTHER                          -> ParsePlainText(Read(p), descriptor)

-----------------------------------------------------------------------------
(* Direct HTTP adapters.                                                   *)

(* classifyDirectHttpFailure: by the status alone.                         *)
ClassifyDirectHttpFailure(status) ==
  Error(CASE status \in {401, 403} -> "auth_failed"
          [] status = 429          -> "rate_limited"
          [] status >= 500         -> "process_failed"
          [] OTHER                 -> "provider_malformed")

(* fetchDirectHttpJson: an exchange that is cut off, fails in the network  *)
(* with a message, or ends with a status and a body; None is a body that is *)
(* no JSON, or was cut off while it was read.                              *)
FetchDirectHttpJson(h) ==
  IF h.ended = "timed out" THEN Error("timeout") ELSE
  IF h.ended = "aborted" THEN Error("aborted") ELSE
  IF h.ended = "network" THEN ClassifyProcessFailure(h.phrases) ELSE
  IF h.status \notin 200..299 THEN ClassifyDirectHttpFailure(h.status) ELSE
  IF h.body = None THEN Error("provider_malformed") ELSE <<"json", h.body>>

(* ModelUsageSchema of a usage with tokens read from a cache: a count that *)
(* is there must be a natural number.                                      *)
UsageOK(u) == \A f \in DOMAIN u : u[f] >= 0

WithUncached(u, n) == [f \in {"uncached"} \cup DOMAIN u |-> IF f = "uncached" THEN n ELSE u[f]]

(* parseOpenAIChatContent: the input that was not cached is at least 0.    *)
OpenAIUsage(body) ==
  LET u == body.usage
  IN  IF {"input", "cached"} \subseteq DOMAIN u
      THEN WithUncached(u, Max({0, u.input - u.cached})) ELSE u

(* parseAnthropicMessageContent: all input tokens are uncached ones.       *)
AnthropicUsage(body) ==
  LET u == body.usage
  IN  IF "input" \in DOMAIN u THEN WithUncached(u, u.input) ELSE u

(* The parser of a body, and what the adapter makes of what it throws: an  *)
(* output names the model that the provider says has answered.             *)
ParseBody(body, descriptor, usage) ==
  IF body.content \in {"missing", "blank"} \/ ~ UsageOK(usage)
  THEN Error("provider_malformed")
  ELSE Output(body.content, IF body.model = None THEN descriptor.model ELSE body.model)

HttpOutcome(h, descriptor) ==
  LET answer == FetchDirectHttpJson(h) IN
  IF IsError(answer) THEN answer ELSE
  ParseBody(h.body, descriptor,
            IF descriptor.provider = "OpenAI" THEN OpenAIUsage(h.body) ELSE AnthropicUsage(h.body))

-----------------------------------------------------------------------------
(* What becomes of an outcome.                                             *)

WrongValidated(outcome, descriptor) == outcome

(* validateAdapterOutputIdentity.                                          *)
Validated(outcome, descriptor) ==
  IF IsError(outcome) \/ outcome[3] = descriptor.model
  THEN outcome ELSE Error("provider_identity_mismatch")

ReasonOf == [command_unavailable |-> "provider_unavailable", auth_failed |-> "auth_missing",
             circuit_open |-> "circuit_open", timeout |-> "timeout_before_model_output",
             provider_malformed |-> "malformed_provider_response",
             validation_mismatch |-> "validation_mismatch",
             provider_identity_mismatch |-> "provider_identity_mismatch",
             audit_failure |-> "audit_failure", budget_exhausted |-> "budget_exhausted"]

(* fallbackReasonFromError at a boundary.  An error of the router is none  *)
(* of the adapters' codes but provider_identity_mismatch.                  *)
FallbackReason(code, boundary) ==
  IF boundary = "audit" THEN "audit_failure" ELSE
  IF code = "provider_identity_mismatch" THEN code ELSE
  IF boundary = "provider" /\ code \in DOMAIN ReasonOf THEN ReasonOf[code] ELSE "unknown"

SafeReasons == {"provider_unavailable", "auth_missing", "circuit_open",
                "timeout_before_model_output"}

FallbackAllowed(outcome, boundary) ==
  IsError(outcome) /\ FallbackReason(outcome[2], boundary) \in SafeReasons
=============================================================================
