----------------------------- MODULE RuntimePlan -----------------------------
(***************************************************************************)
(* From a profile to the language model runtimes of a run: the             *)
(* configuration of each subtask (platform/llm/config.py), what its        *)
(* provider can do (provider_policies.py, capabilities.py), the plan that  *)
(* reconciles the two (resolve_runtime_plan.py, output_resolution.py) and  *)
(* the adapter the factory builds from it (runtime_factory.py).            *)
(*                                                                         *)
(* Models, URLs and efforts are opaque, so only their presence is kept.    *)
(***************************************************************************)
EXTENDS Naturals, FiniteSets

Slot     == {"main", "perception", "validation", "visual", "ocr"}
Backend  == {"ollama", "chatopenai_direct", "pydantic_ai_adapter",
             "pydantic_ai_openrouter", "openrouter_chatopenai"}
Mode     == {"auto", "native", "prompted", "tool"}

(* No configuration, and the fields of one: mode "none" is an absent       *)
(* preference, routing any of provider_order, require_parameters and a     *)
(* disabled allow_fallbacks.                                               *)
NoConfig == [backend |-> "none", key |-> FALSE, vision |-> FALSE,
             mode |-> "none", reasoning |-> FALSE, effort |-> FALSE, routing |-> FALSE]

(* The two backends of the direct clients have no policy.                  *)
PolicyOf == [ollama |-> "ollama", pydantic_ai_adapter |-> "lm_studio",
             pydantic_ai_openrouter |-> "openrouter"]

Policy == [
  lm_studio  |-> [modes |-> {"auto", "prompted"}, default |-> "auto",
                  needsKey |-> FALSE, reasoning |-> FALSE, routing |-> FALSE],
  openrouter |-> [modes |-> Mode, default |-> "prompted",
                  needsKey |-> TRUE, reasoning |-> TRUE, routing |-> TRUE],
  ollama     |-> [modes |-> {"prompted"}, default |-> "prompted",
                  needsKey |-> FALSE, reasoning |-> FALSE, routing |-> FALSE]]

(* from_json_dict: a backend that is not known is read as the default one. *)
Coerced(c) == IF c.backend \in Backend THEN c
              ELSE [c EXCEPT !.backend = "pydantic_ai_adapter"]

(* resolve_defaults; envKey: AITHER_OPENROUTER_API_KEY is set.             *)
ResolveDefaults(c, envKey) ==
  IF c.backend \in {"ollama", "chatopenai_direct", "pydantic_ai_adapter"}
  THEN [c EXCEPT !.mode = "none", !.reasoning = FALSE, !.effort = FALSE, !.routing = FALSE]
  ELSE [c EXCEPT !.mode = IF @ = "none" THEN "auto" ELSE @, !.key = @ \/ envKey]

FromProfile(c, envKey) ==
  IF c = NoConfig THEN NoConfig ELSE ResolveDefaults(Coerced(c), envKey)

(* The runner: a subtask without a runtime of its own uses another's.      *)
Parent == [perception |-> "main", validation |-> "main", visual |-> "validation",
           ocr |-> "visual"]

Source(configs, slot) ==
  LET Up[s \in Slot] == IF configs[s] # NoConfig \/ s = "main" THEN configs[s]
                        ELSE Up[Parent[s]]
  IN Up[slot]

(* Text subtasks want an answer of a known type, the visual ones plain text. *)
Visual(slot) == slot \in {"visual", "ocr"}

Resolvable(c) ==
  /\ c.backend \in DOMAIN PolicyOf
  /\ Policy[PolicyOf[c.backend]].needsKey => c.key

EffectiveMode(policy, asked) == IF asked \in policy.modes THEN asked ELSE policy.default

(* resolve_reasoning_policy.                                               *)
Effort_Kept(c, reasons) == c.effort   \* mutant
Effort(c, reasons)      == reasons /\ c.effort

(* resolve_runtime_plan and the builders of the factory, which read an     *)
(* absent mode (plain text) as "auto" and pass routing to OpenRouter only. *)
Runtime(c, slot) ==
  LET provider == PolicyOf[c.backend]
      policy   == Policy[provider]
      reasons  == c.reasoning /\ policy.reasoning
  IN [provider  |-> provider,
      mode      |-> IF Visual(slot) THEN "auto" ELSE EffectiveMode(policy, c.mode),
      vision    |-> c.vision,
      reasoning |-> reasons,
      effort    |-> Effort(c, reasons),
      routing   |-> policy.routing /\ c.routing]

NoRuntime == [provider |-> "none", mode |-> "none", vision |-> FALSE, reasoning |-> FALSE,
              effort |-> FALSE, routing |-> FALSE]

(* _build_generic_runtime skips Ollama, whose OCR has a client of its own. *)
Wanted(c, slot) == c # NoConfig /\ ~ (Visual(slot) /\ c.backend = "ollama")

(* An adapter refuses an image to a runtime without vision, before any     *)
(* provider is asked.                                                      *)
RefusesImage(runtime) == ~ runtime.vision
=============================================================================
