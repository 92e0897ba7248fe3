------------------------------ MODULE SetupConfig ------------------------------
(***************************************************************************)
(* The configuration a user sets up, and what is read back from it.  The   *)
(* generator merges the input with a profile, refuses combinations it does *)
(* not know, and writes a config, a list of environment variables to fill  *)
(* in and a report; the doctor reads the config and the environment again  *)
(* and checks them by rules of its own; the router takes its mode from     *)
(* both; the commander is selected from the same section.                  *)
(*                                                                         *)
(* A section of an input is a record of the fields that are given.         *)
(* Warnings and reports are left out but for the variables.                *)
(***************************************************************************)
EXTENDS ProviderPolicy

-----------------------------------------------------------------------------
(* The profiles.                                                           *)

Selected(descriptor, enabled) == [descriptor |-> descriptor, enabled |-> enabled]

Enabled(descriptors) == [i \in DOMAIN descriptors |-> Selected(descriptors[i], TRUE)]

NoBudget == None

DefaultAdaptive == [enabled |-> FALSE, fallbackPolicy |-> "safe_provider_unavailable_only",
                    budget |-> NoBudget]

Absent == Descriptor(None, None, None, None, None)

(* CommanderConfigSchema's defaults.                                       *)
DefaultCommander == [enabled |-> FALSE, mode |-> "direct_synthesis",
                     strategy |-> "first_eligible_synthesis", local |-> FALSE,
                     descriptor |-> Absent]

Profile(providers, persistence, telemetry, adaptive) ==
  [providers |-> Enabled(providers), persistence |-> persistence,
   telemetry |-> telemetry, adaptive |-> adaptive]

(* SETUP_PROFILE_INPUTS.                                                   *)
Profiles ==
  [minimal_direct |-> Profile(<<>>, "none", "console", DefaultAdaptive),
   direct_http_openai |-> Profile(<<OpenAI>>, "none", "console", DefaultAdaptive),
   direct_http_anthropic |-> Profile(<<Anthropic>>, "none", "console", DefaultAdaptive),
   cli_oauth |-> Profile(<<CodexCli, ClaudeCode, GeminiCli, GrokCli, ZcodeGlm>>,
                         "none", "console", DefaultAdaptive),
   adaptive_direct |-> Profile(<<OpenAI, CodexSynthesis>>, "none", "otlp",
                               [DefaultAdaptive EXCEPT !.enabled = TRUE, !.budget = 25]),
   supabase_audit |-> Profile(<<>>, "supabaseAuditRpc", "console", DefaultAdaptive)]

-----------------------------------------------------------------------------
(* The schemas of the sections, which the generated config and the reader  *)
(* of the file share: a field the section may leave out is None.           *)

Modes == {"direct", "agent_chat"}

SetupAuthModes  == AuthModes \cup {"local"}
SetupTransports == Transports \cup {"localModel"}

(* SetupProviderSelectionSchema.                                           *)
ProviderShape(selection) ==
  /\ selection.enabled \in BOOLEAN
  /\ selection.descriptor.authMode \in SetupAuthModes
  /\ selection.descriptor.transport \in SetupTransports

(* SetupAdaptiveDirectSchema.                                              *)
AdaptiveShape(adaptive) ==
  /\ adaptive.enabled \in BOOLEAN
  /\ adaptive.fallbackPolicy \in {"disabled", "safe_provider_unavailable_only"}
  /\ adaptive.budget = NoBudget \/ adaptive.budget >= 0

(* CommanderConfigSchema.                                                  *)
CommanderShape(c) ==
  /\ c.enabled \in BOOLEAN /\ c.local \in BOOLEAN
  /\ c.mode \in {"direct_synthesis", "agent_chat_future"}
  /\ c.strategy \in {"explicit", "first_eligible_synthesis", "highest_capability_score"}
  /\ c.descriptor.authMode \in SetupAuthModes \cup {None}
  /\ c.descriptor.transport \in SetupTransports \cup {None}

(* Does a config of all these sections pass GeneratedQuorumRouterConfig-   *)
(* Schema, and QuorumRouterConfigFileSchema with the mode parsed after it? *)
SectionsOK(config) ==
  /\ config.profile \in DOMAIN Profiles
  /\ config.mode \in Modes
  /\ \A i \in DOMAIN config.providers : ProviderShape(config.providers[i])
  /\ config.persistence \in {"none", "localJsonl", "supabaseAuditRpc"}
  /\ config.telemetry \in {"console", "otlp", "disabled"}
  /\ AdaptiveShape(config.adaptive)
  /\ CommanderShape(config.commander)

-----------------------------------------------------------------------------
(* The generator.                                                          *)

(* What a section gives, and the rest from its defaults.                   *)
Over(given, default) ==
  [f \in DOMAIN given \cup DOMAIN default |-> IF f \in DOMAIN given THEN given[f] ELSE default[f]]

(* mergeProfile, with the schema's defaults: what the input gives wins.    *)
Merged(input) ==
  LET profile == Profiles[input.profile]
      given(section, default) == IF section = <<>> THEN default ELSE section[1]
  IN  [profile     |-> input.profile,
       mode        |-> given(input.mode, "direct"),
       providers   |-> given(input.providers, profile.providers),
       persistence |-> given(input.persistence, profile.persistence),
       telemetry   |-> profile.telemetry,
       adaptive    |-> Over(input.adaptive, profile.adaptive),
       commander   |-> Over(input.commander, DefaultCommander)]

(* assertAgentChatExplicit.                                                *)
ChatExplicit(config, optIn) == config.mode = "agent_chat" => optIn

IsLocal(d) == d.authMode = "local" \/ d.transport = "localModel"
IsLocalPlaceholder(d) ==
  d.provider = "Local" /\ d.authMode = "local" /\ d.transport = "localModel"

WrongProviderOK(selection) ==
  selection.enabled /\ ~ IsLocal(selection.descriptor)
    => Registered(DefaultRegistry, selection.descriptor)

(* assertProviderCombination.                                              *)
ProviderOK(selection) ==
  \/ ~ selection.enabled
  \/ IsLocalPlaceholder(selection.descriptor)
  \/ /\ ~ IsLocal(selection.descriptor)
     /\ Registered(DefaultRegistry, selection.descriptor)

(* commanderDescriptorFromConfig and the capability it must have.          *)
ExplicitOK(c) ==
  /\ Complete(c.descriptor)
  /\ Registered(DefaultRegistry, c.descriptor)
  /\ c.mode = "direct_synthesis" => SynthesisCapable(DefaultRegistry, c.descriptor)

WrongCommanderOK(c) ==
  \/ ~ c.enabled
  \/ LocalPlaceholder(c)
  \/ /\ ~ c.local /\ ~ IsLocal(c.descriptor)
     /\ c.strategy = "explicit" => ExplicitOK(c)

(* assertCommanderCombination.                                             *)
CommanderOK(c) ==
  \/ ~ c.enabled
  \/ c.strategy = "explicit" /\ LocalPlaceholder(c)
  \/ /\ ~ c.local /\ ~ IsLocal(c.descriptor)
     /\ c.strategy = "explicit" => ExplicitOK(c)

(* generateQuorumRouterConfig: <<>> where it fails closed.                 *)
Generated(input) ==
  LET config == Merged(input)
  IN  IF /\ SectionsOK(config)
         /\ ChatExplicit(config, input.optIn)
         /\ \A i \in DOMAIN config.providers : ProviderOK(config.providers[i])
         /\ CommanderOK(config.commander)
      THEN <<config>> ELSE <<>>

(* envPlaceholdersFor: the variables the env example asks to fill in.      *)
Placeholders(config) ==
  LET enabled == {config.providers[i].descriptor
                    : i \in {j \in DOMAIN config.providers : config.providers[j].enabled}}
      http(provider) == \E d \in enabled : d.provider = provider /\ d.transport = "directHttp"
  IN  (IF http("OpenAI") THEN {"OPENAI_API_KEY"} ELSE {})
      \cup (IF http("Anthropic") THEN {"ANTHROPIC_API_KEY"} ELSE {})
      \cup (IF config.telemetry = "otlp" THEN {"OTLP_ENDPOINT"} ELSE {})
      \cup (IF config.persistence = "supabaseAuditRpc"
            THEN {"SUPABASE_URL", "SUPABASE_ANON_KEY", "SUPABASE_SESSION_JWT"} ELSE {})
      \cup (IF config.adaptive.budget # NoBudget THEN {"BUDGET_LIMIT_USD"} ELSE {})

-----------------------------------------------------------------------------
(* Reading it back.                                                        *)

(* resolveRoutingMode of a request, a config and an environment: the first *)
(* that is given decides, also when it is invalid.                         *)
ResolveMode(request, config, env) ==
  LET asked == <<<<request, "request">>, <<config, "config">>, <<env, "env">>>>
      given == {i \in DOMAIN asked : asked[i][1] # "absent"}
      first == IF given = {} THEN <<"direct", "default">> ELSE asked[Min(given)]
  IN  [mode   |-> IF first[1] \in Modes THEN first[1] ELSE "invalid",
       source |-> first[2]]

Implemented(mode) == mode = "direct"

(* The provider part of pushSetupConfigChecks.                             *)
UnregisteredProviders(config) ==
  {i \in DOMAIN config.providers :
     LET selection == config.providers[i] IN
     /\ selection.enabled
     /\ ~ IsLocalPlaceholder(selection.descriptor)
     /\ IsLocal(selection.descriptor) \/ ~ Registered(DefaultRegistry, selection.descriptor)}

AdaptiveOK(config) ==
  config.adaptive.enabled => config.adaptive.fallbackPolicy = "safe_provider_unavailable_only"

ForbiddenVariables == {"SUPABASE_SERVICE_ROLE_KEY", "SUPABASE_JWT_SECRET"}

(* maskEndpoint, of what the endpoint is: no URL ({}), or a URL that may   *)
(* have user information and an at sign in its path.                       *)
Masked(endpoint) ==
  IF "url" \notin endpoint THEN {} ELSE
  (IF "user" \in endpoint THEN {"redacted", "at"} ELSE {})
  \cup (IF "at" \in endpoint THEN {"at"} ELSE {})

(* runDoctorChecks on a config file, <<>> if there is none, and an         *)
(* environment: the variables that are set, the endpoint of the telemetry  *)
(* and the mode variable.  A file that does not parse counts as an error   *)
(* and as no config.  Only the failed checks of severity error count.      *)
Doctor(file, variables, endpoint, envMode) ==
  LET read  == IF file # <<>> /\ SectionsOK(file[1]) THEN file ELSE <<>>
      mode  == IF read = <<>> THEN "absent" ELSE read[1].mode
      route == ResolveMode("absent", mode, envMode)
      sets(name) == name \in variables
  IN  [errors |->
         (IF "at" \in Masked(endpoint) /\ "redacted" \notin Masked(endpoint)
          THEN {"otlp_endpoint_masking"} ELSE {})
         \cup (IF variables \cap ForbiddenVariables # {}
               THEN {"supabase_service_role_absent"} ELSE {})
         \cup (IF read # file THEN {"routing_config_file"} ELSE {})
         \cup (IF read # <<>> /\ UnregisteredProviders(read[1]) # {}
               THEN {"setup_provider_capabilities", "setup_auth_transport_match"} ELSE {})
         \cup (IF read # <<>> /\ ~ AdaptiveOK(read[1]) THEN {"setup_adaptive_direct"} ELSE {})
         \cup (IF envMode \notin Modes \cup {"absent"} THEN {"routing_mode_env"} ELSE {})
         \cup (IF route.mode = "invalid" THEN {"routing_effective_mode"} ELSE {}),
       audit |-> IF sets("SUPABASE_URL") /\ sets("SUPABASE_ANON_KEY") THEN "configured" ELSE
                 IF sets("SUPABASE_URL") \/ sets("SUPABASE_ANON_KEY") THEN "incomplete"
                 ELSE "not configured",
       mode  |-> route.mode,
       ready |-> route.mode \in Modes /\ Implemented(route.mode)]
=============================================================================
