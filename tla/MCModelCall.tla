---------------------------- MODULE MCModelCall -----------------------------
(* Configurations of the subtasks for TLC: one profile of each provider,    *)
(* with settings the provider takes and settings it does not, a profile      *)
(* without a key and one of an unknown backend; alone, where every other     *)
(* subtask inherits from "main", and mixed.                                  *)
EXTENDS ModelCall

Local  == [NoConfig EXCEPT !.backend = "ollama", !.vision = TRUE,
                           !.mode = "native", !.reasoning = TRUE, !.routing = TRUE]
Studio == [NoConfig EXCEPT !.backend = "pydantic_ai_adapter", !.mode = "tool",
                           !.reasoning = TRUE]
Router == [NoConfig EXCEPT !.backend = "pydantic_ai_openrouter", !.key = TRUE, !.vision = TRUE,
                           !.mode = "native", !.reasoning = TRUE, !.effort = TRUE,
                           !.routing = TRUE]
Keyless == [Router EXCEPT !.key = FALSE, !.reasoning = FALSE]
Client  == [NoConfig EXCEPT !.backend = "chatopenai_direct"]
Unknown == [NoConfig EXCEPT !.backend = "unheard_of", !.mode = "prompted"]

Only(c)       == [s \in Slot |-> IF s = "main" THEN c ELSE NoConfig]
MCProfiles ==
  {Only(Client), Only(Unknown), Only(Keyless),
   [Only(Router) EXCEPT !["validation"] = Local],
   [Only(Studio) EXCEPT !["perception"] = Keyless, !["visual"] = Router, !["ocr"] = Local]}
=============================================================================
