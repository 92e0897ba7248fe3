---------------------------- MODULE ProviderPolicy ----------------------------
(***************************************************************************)
(* Which providers a request may use.  The adapter factories make adapters *)
(* with a descriptor and a price; the capability registry describes the    *)
(* same providers a second time; the direct routing policy and the choice  *)
(* of a commander decide from the registry.                                *)
(*                                                                         *)
(* A descriptor is a record of names.  Keys are made of lowered names, so  *)
(* two spellings of a name make one key.  Prices are in cents.             *)
(***************************************************************************)
EXTENDS Integers, Sequences, FiniteSets, SequencesExt, FiniteSetsExt

CONSTANTS
  None,      \* an absent field
  Lowered    \* Lowered[n]: the usual spelling of n, for the names that have others

Descriptor(provider, model, auth, transport, client) ==
  [provider |-> provider, model |-> model, authMode |-> auth,
   transport |-> transport, client |-> client]

Fields == {"provider", "model", "authMode", "transport", "client"}

AuthModes  == {"apiKey", "oauth", "session"}
Transports == {"zcodeWrapper", "processAdapter", "directHttp"}

Lower(name) == IF name \in DOMAIN Lowered THEN Lowered[name] ELSE name

(* providerDescriptorKey, readinessKey, providerDescriptorSelectionKey.    *)
DescriptorKey(d) == [f \in Fields |-> Lower(d[f])]

Label(d) == <<d.provider, d.model>>

-----------------------------------------------------------------------------
(* The adapters, each a descriptor and what a call is charged.             *)

CodexCli      == Descriptor("OpenAI", "codex", "oauth", "processAdapter", "CodexCLI")
ClaudeCode    == Descriptor("Anthropic", "claude-code", "oauth", "processAdapter", "ClaudeCode")
GeminiCli     == Descriptor("Google", "gemini-cli", "oauth", "processAdapter", "GeminiCLI")
GrokCli       == Descriptor("xAI", "grok", "oauth", "processAdapter", "GrokCLI")
DevinCli      == Descriptor("Cognition", "devin", "session", "processAdapter", "DevinCLI")
ClineCli      == Descriptor("Cline", "cline", "session", "processAdapter", "Cline")
ZcodeGlm      == Descriptor("GLM", "glm-zcode", "oauth", "zcodeWrapper", "zcode")
OpenAI        == Descriptor("OpenAI", "gpt-4o-mini", "apiKey", "directHttp", "OpenAIChatCompletions")
Anthropic     == Descriptor("Anthropic", "claude-3-5-haiku-latest", "apiKey", "directHttp",
                            "AnthropicMessagesAPI")
CodexSynthesis  == Descriptor("OpenAI", "gpt-5.5", "oauth", "processAdapter", "CodexCLI")
OpenAISynthesis == OpenAI

(* What one invocation of the adapter charges its budget manager.          *)
Adapters == {CodexCli, ClaudeCode, GeminiCli, GrokCli, DevinCli, ClineCli, ZcodeGlm, OpenAI, Anthropic}

Charge == [a \in Adapters |-> CASE a = CodexCli   -> 3
                                [] a = ClaudeCode -> 4
                                [] a = GeminiCli  -> 2
                                [] a = GrokCli    -> 3
                                [] a = DevinCli   -> 5
                                [] a = ClineCli   -> 3
                                [] a = ZcodeGlm   -> 2
                                [] a = OpenAI     -> 2
                                [] a = Anthropic  -> 3]

(* The Codex synthesis charges a sum of its own, the OpenAI one what its   *)
(* adapter does.                                                           *)
CodexSynthesisCharge == 5

SynthesisCharge == [a \in {CodexSynthesis, OpenAISynthesis} |->
                      IF a = CodexSynthesis THEN CodexSynthesisCharge ELSE Charge[OpenAI]]

-----------------------------------------------------------------------------
(* The registry.                                                           *)

Capability(descriptor, synthesis, json, cost, enabled) ==
  [descriptor |-> descriptor, supportsSynthesis |-> synthesis, supportsStructuredJson |-> json,
   cost |-> cost, enabled |-> enabled]

(* DEFAULT_PROVIDER_CAPABILITIES, in its order.                            *)
DefaultCapabilities ==
  <<Capability(CodexCli, FALSE, TRUE, 3, TRUE),
    Capability(CodexSynthesis, TRUE, TRUE, 4, TRUE),
    Capability(ClaudeCode, FALSE, FALSE, 4, TRUE),
    Capability(GeminiCli, FALSE, FALSE, 2, TRUE),
    Capability(GrokCli, FALSE, FALSE, 3, TRUE),
    Capability(DevinCli, FALSE, FALSE, 5, TRUE),
    Capability(ClineCli, FALSE, FALSE, 3, TRUE),
    Capability(ZcodeGlm, FALSE, FALSE, 2, TRUE),
    Capability(OpenAI, TRUE, TRUE, 2, TRUE),
    Capability(Anthropic, FALSE, FALSE, 3, TRUE)>>

(* register: a later capability of the same key replaces an earlier one.   *)
Registry(capabilities) ==
  LET key(i)   == DescriptorKey(capabilities[i].descriptor)
      given(k) == {i \in DOMAIN capabilities : key(i) = k}
  IN  [k \in {key(i) : i \in DOMAIN capabilities} |-> capabilities[Max(given(k))]]

DefaultRegistry == Registry(DefaultCapabilities)

Registered(registry, d) == DescriptorKey(d) \in DOMAIN registry
Get(registry, d) == registry[DescriptorKey(d)]

-----------------------------------------------------------------------------
(* CapabilityDirectRoutingPolicy.                                          *)

(* No capabilityRejectionReason: keys ignore spelling, this does not.      *)
Capable(registry, d) ==
  /\ Registered(registry, d)
  /\ Get(registry, d).enabled
  /\ \A f \in {"authMode", "transport", "client"} : Get(registry, d).descriptor[f] = d[f]

(* A hint under the key hides one under the label.  A hint is a record of  *)
(* three flags, each "yes", "no" or not given.                             *)
Hint(hints, d) ==
  IF DescriptorKey(d) \in DOMAIN hints.byKey THEN <<hints.byKey[DescriptorKey(d)]>> ELSE
  IF Label(d) \in DOMAIN hints.byLabel THEN <<hints.byLabel[Label(d)]>> ELSE <<>>

(* No readinessRejectionReason.                                            *)
Ready(hints, d) ==
  Hint(hints, d) # <<>> =>
    LET hint == Hint(hints, d)[1]
    IN  hint.authReady # "no" /\ hint.transportReady # "no" /\ hint.circuitOpen # "yes"

(* selectSynthesisCandidate: the first that will do, or None.              *)
SynthesisChoice(registry, hints, candidates) ==
  LET fit == {i \in DOMAIN candidates :
                /\ Capable(registry, candidates[i])
                /\ Get(registry, candidates[i]).supportsSynthesis
                /\ Ready(hints, candidates[i])}
  IN  IF fit = {} THEN None ELSE candidates[Min(fit)]

WrongAfford(estimate, cost, remaining) == cost <= remaining

(* Does a candidate fit after those that were taken?                       *)
Afford(estimate, cost, remaining) == estimate + cost <= remaining

Consider(run, d, registry, hints, remaining) ==
  IF ~ Capable(registry, d) THEN [run EXCEPT !.rejected = Append(@, <<d, "capability">>)] ELSE
  IF ~ Ready(hints, d) THEN [run EXCEPT !.rejected = Append(@, <<d, "readiness">>)] ELSE
  IF ~ Afford(run.estimate, Get(registry, d).cost, remaining)
  THEN [run EXCEPT !.rejected = Append(@, <<d, "budget">>)]
  ELSE [run EXCEPT !.selected = Append(@, d), !.estimate = @ + Get(registry, d).cost]

(* decide: None where the code throws.                                     *)
Decide(candidates, synthesisCandidates, registry, hints, remaining) ==
  LET synthesis == SynthesisChoice(registry, hints, synthesisCandidates) IN
  IF synthesis = None THEN None ELSE
  IF ~ Afford(0, Get(registry, synthesis).cost, remaining) THEN None ELSE
  FoldLeft(LAMBDA run, d : Consider(run, d, registry, hints, remaining),
           [synthesis |-> synthesis, estimate |-> Get(registry, synthesis).cost,
            selected |-> <<>>, rejected |-> <<>>],
           candidates)

-----------------------------------------------------------------------------
(* selectCommander.  A result is <<"selected", d>>, <<"placeholder">> for   *)
(* the local contract, <<"none">>, or <<"error">> where the code throws.   *)

Selection(candidates, fit) == IF fit = {} THEN <<"none">> ELSE <<"selected", candidates[Min(fit)]>>

SynthesisCapable(registry, d) ==
  /\ Registered(registry, d)
  /\ Get(registry, d).enabled /\ Get(registry, d).supportsSynthesis

LocalPlaceholder(c) ==
  /\ c.local /\ c.descriptor.provider = "Local"
  /\ c.descriptor.authMode = "local" /\ c.descriptor.transport = "localModel"

AnyLocalShape(c) ==
  \/ c.local \/ c.descriptor.provider = "Local"
  \/ c.descriptor.authMode = "local" \/ c.descriptor.transport = "localModel"

Complete(d) == \A f \in Fields : d[f] # None

FirstEligible(registry, candidates) ==
  Selection(candidates, {i \in DOMAIN candidates : SynthesisCapable(registry, candidates[i])})

Score(capability) ==
  (IF capability.supportsSynthesis THEN 100 ELSE 0)
  + (IF capability.supportsStructuredJson THEN 10 ELSE 0)
  + (IF capability.enabled THEN 1 ELSE 0)

(* Highest score, then lowest price, then the key.  In the default         *)
(* registry only one key ties with itself: the earlier candidate is taken. *)
HighestCapability(registry, candidates) ==
  LET fit  == {i \in DOMAIN candidates : SynthesisCapable(registry, candidates[i])}
      of(i) == Get(registry, candidates[i])
      best == {i \in fit : \A j \in fit :
                 \/ Score(of(i)) > Score(of(j))
                 \/ Score(of(i)) = Score(of(j)) /\ of(i).cost <= of(j).cost}
  IN  Selection(candidates, best)

ExplicitCommander(registry, c) ==
  IF ~ Complete(c.descriptor) \/ ~ SynthesisCapable(registry, c.descriptor)
  THEN <<"error">> ELSE <<"selected", c.descriptor>>

SelectCommander(c, candidates, registry) ==
  IF ~ c.enabled \/ c.mode = "agent_chat_future" THEN <<"none">> ELSE
  IF c.strategy = "explicit"
  THEN IF LocalPlaceholder(c) THEN <<"placeholder">> ELSE
       IF AnyLocalShape(c) THEN <<"error">> ELSE ExplicitCommander(registry, c) ELSE
  IF AnyLocalShape(c) THEN <<"error">> ELSE
  IF c.strategy = "first_eligible_synthesis"
  THEN FirstEligible(registry, candidates) ELSE HighestCapability(registry, candidates)
=============================================================================
