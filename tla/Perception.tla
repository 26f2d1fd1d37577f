----------------------------- MODULE Perception -----------------------------
(***************************************************************************)
(* Seeing and judging one node of the run: the coordinator that perceives  *)
(* it at most once between two searches (navigation_perception.py), the    *)
(* executor that asks a language model what it sees, again without the     *)
(* screenshot, and once more with candidates it points at                  *)
(* (llm_navigation_perception_executor.py), the heuristics that stand in   *)
(* for it, and the validation (GoalValidation) of a node it recognises, of *)
(* the node as the decider asks, or of a file.                             *)
(*                                                                         *)
(* The browser, the model and the decider are the environment.             *)
(***************************************************************************)
EXTENDS GoalValidation

(* A content: its candidates as the page lists them, whether it has search *)
(* targets and text, and whether it looks like a document to be judged: a  *)
(* text of some length and hardly a way on.                                *)
NoSite == [candidates |-> <<>>, targets |-> FALSE, text |-> FALSE, document |-> FALSE]

CONSTANTS
  Sites,        \* contents the node may have: its page, and the results of searches
  PromptLimit,  \* max_candidates_to_prompt
  Searches      \* bound: searches at the node

ASSUME PerceptionAssumption ==
  /\ PromptLimit \in Nat \ {0}
  /\ Searches \in Nat
  /\ NoSite \notin Sites

VARIABLES
  live,      \* what the browser shows for the node's URL
  found,     \* search_result_by_node: the results of the last search, if any
  seen,      \* inspection_result_by_node
  judged,    \* the node has a verdict: can_revalidate is False
  searches,  \* how many times the node was searched
  stage,     \* what the node is waiting for
  handed,    \* the content handed to the perception
  shot,      \* that content still holds a screenshot
  refused,   \* the provider has refused the screenshot in this perception
  payload,   \* the model's first answer
  result     \* navigation_perception_by_node
nodeVars == <<live, found, seen, judged, searches>>
callVars == <<handed, shot, refused, payload>>
vars == <<validationVars, nodeVars, callVars, stage, result>>

Asking  == {"initial", "retried", "recovery"}
Judging == {"judging", "acting"}
Stage   == {"visited", "viewing", "deciding", "matched", "raised"} \cup Asking \cup Judging

Observed(site) == site # NoSite

Advice == {"none", "follow_edge", "validate_current_content", "search_with_text",
           "refine_navigation_perception", "backtrack_or_use_recoverable_choice_points"}

(* What the model may answer about a content: it curates some of its       *)
(* candidates or none, and its hints may point at any of them.             *)
Payloads(site) == [advice : Advice, exhausted : BOOLEAN, match : BOOLEAN,
                   curates : {FALSE, site.candidates # <<>>},
                   hints : SUBSET Range(site.candidates)]
NoPayload == [advice |-> "none", exhausted |-> FALSE, match |-> FALSE,
              curates |-> FALSE, hints |-> {}]

NoResult == [of |-> NoSite, by |-> "none", blocked |-> FALSE,
             advice |-> "none", exhausted |-> FALSE]

Init ==
  /\ ValidationInit
  /\ live \in Sites /\ found = NoSite /\ seen = NoSite
  /\ judged = FALSE /\ searches = 0 /\ stage = "visited"
  /\ handed = NoSite /\ shot = FALSE /\ refused = FALSE /\ payload = NoPayload
  /\ result = NoResult

---------------------------------------------------------------------------
(* What the node shows.                                                    *)

(* resolve_node_observation_snapshot: a search hides the inspection.       *)
Observation == IF Observed(found) THEN found ELSE seen

(* inspect_node: the snapshot is kept, else the page is inspected.         *)
Inspect ==
  /\ stage = "visited"
  /\ seen' = IF Observed(Observation) THEN Observation ELSE live
  /\ stage' = "viewing"
  /\ UNCHANGED <<validationVars, live, found, judged, searches, callVars, result>>

(* _apply_follow_edge onto the node again: inspect_edge hands the snapshot *)
(* of a known node back, unless the request was redirected to it.          *)
Revisit ==
  /\ stage = "deciding"
  /\ seen' \in {Observation, live}
  /\ stage' = "visited"
  /\ UNCHANGED <<validationVars, live, found, judged, searches, callVars, result>>

Forgotten_Kept(memo) == memo       \* mutant
Forgotten(memo)      == NoResult

(* _apply_search_with_text whose results stay at the node's URL: the       *)
(* perception of the node is dropped, the memory of its verdict is not.    *)
Search ==
  /\ stage = "deciding" /\ Observation.targets /\ searches < Searches
  /\ searches' = searches + 1
  /\ \E site \in Sites : found' = site /\ seen' = site
  /\ result' = Forgotten(result)
  /\ stage' = "visited"
  /\ UNCHANGED <<validationVars, live, judged, callVars>>

---------------------------------------------------------------------------
(* The heuristics: recommend_next_step, for an executor that counts search *)
(* targets (the fallback) or does not (the browser's).                     *)
Recommended(site, targets, frames) ==
  IF site.candidates # <<>> THEN "follow_edge"
  ELSE IF targets THEN "search_with_text"
  ELSE IF site.text THEN "validate_current_content"
  ELSE IF frames THEN "refine_navigation_perception"
  ELSE "backtrack_or_use_recoverable_choice_points"

Heuristic(site, targets, frames) ==
  [NoResult EXCEPT !.of = site, !.by = "heuristic", !.blocked = judged,
                   !.advice = Recommended(site, targets, frames)]

(* The model's answer, corrected: search targets prevent exhaustion and    *)
(* retreat, and a judged node is not to be validated again.                *)
Steered(site, advice) ==
  IF site.targets /\ advice \in {"none", "backtrack_or_use_recoverable_choice_points"}
  THEN "search_with_text" ELSE advice

Unblocked_Not(site, p) == Steered(site, p.advice)   \* mutant: no clamp
Unblocked(site, p) ==
  IF ~ judged \/ Steered(site, p.advice) # "validate_current_content"
  THEN Steered(site, p.advice)
  ELSE IF site.targets THEN "search_with_text"
  ELSE IF p.curates THEN "none"
  ELSE "backtrack_or_use_recoverable_choice_points"

Perceived(site, p) ==
  [of |-> site, by |-> "model", blocked |-> judged,
   advice |-> Unblocked(site, p), exhausted |-> p.exhausted /\ ~ site.targets]

---------------------------------------------------------------------------
(* build_node_view: run_if_needed.  A searched node without a perception   *)
(* must be perceived, another one only when it has somewhere to go.        *)
MayPerceive  == result = NoResult /\ (Observed(found) \/ Observation.candidates # <<>>)
MustPerceive == result = NoResult /\ Observed(found)

(* _inject_snapshot_if_available: the executor sees what the node showed.  *)
Handed_Live == live         \* mutant: the snapshot is not injected
Handed      == Observation

Skip ==
  /\ stage = "viewing" /\ ~ MustPerceive
  /\ stage' = "deciding"
  /\ UNCHANGED <<validationVars, nodeVars, callVars, result>>

PerceiveByRule ==
  /\ stage = "viewing" /\ MayPerceive /\ config.perception = "heuristic"
  /\ \E frames \in BOOLEAN : result' = Heuristic(Handed, FALSE, frames)
  /\ stage' = "deciding"
  /\ UNCHANGED <<validationVars, nodeVars, callVars>>

(* A snapshot may hold a screenshot whether or not this request wants one. *)
Perceive ==
  /\ stage = "viewing" /\ MayPerceive /\ config.perception = "llm"
  /\ handed' = Handed /\ shot' \in BOOLEAN /\ refused' = FALSE /\ payload' = NoPayload
  /\ stage' = "initial"
  /\ UNCHANGED <<validationVars, nodeVars, result>>

(* _recover_candidates_from_visual_hints: hinted, and not among the first  *)
(* ones the page lists.                                                    *)
Recovered(site, p) ==
  p.hints \ Range(SubSeq(site.candidates, 1, Smallest({PromptLimit, Len(site.candidates)})))

(* _handle_current_node_match judges what was inspected, not what was      *)
(* handed to the model, and nothing when the node has its verdict.         *)
Recognised(p) == p.match /\ ~ judged /\ seen.document

NoCall == handed' = NoSite /\ shot' = FALSE /\ refused' = FALSE /\ payload' = NoPayload

Conclude(p) ==
  /\ result' = Perceived(handed, p)
  /\ stage' = IF Recognised(p) THEN "matched" ELSE "deciding"
  /\ IF Recognised(p) THEN UNCHANGED callVars ELSE NoCall

PayloadArrives ==
  /\ stage \in {"initial", "retried"}
  /\ \E p \in Payloads(handed) :
       IF Recovered(handed, p) = {} THEN Conclude(p)
       ELSE /\ payload' = p /\ stage' = "recovery"
            /\ UNCHANGED <<handed, shot, refused, result>>
  /\ UNCHANGED <<validationVars, nodeVars>>

FinalPayloadArrives ==
  /\ stage = "recovery"
  /\ \E p \in Payloads(handed) : Conclude(p)
  /\ UNCHANGED <<validationVars, nodeVars>>

WithoutScreenshot_Kept == UNCHANGED shot   \* mutant
WithoutScreenshot      == shot' = FALSE

(* _should_retry_without_screenshot                                        *)
RefuseScreenshot ==
  /\ stage = "initial" /\ shot /\ config.screenshots
  /\ refused' = TRUE /\ WithoutScreenshot
  /\ stage' = "retried"
  /\ UNCHANGED <<validationVars, nodeVars, handed, payload, result>>

(* An answer that is no answer, or a provider out of reach: the heuristics *)
(* take over, without a match, or the first answer stands.                 *)
Degrade ==
  /\ stage \in Asking
  /\ IF stage = "recovery" THEN Conclude(payload)
     ELSE /\ \E frames \in BOOLEAN : result' = Heuristic(handed, handed.targets, frames)
          /\ stage' = "deciding" /\ NoCall
  /\ UNCHANGED <<validationVars, nodeVars>>

(* Any other error, a timeout of the runtime among them, ends the run.     *)
Break ==
  /\ stage \in Asking
  /\ stage' = "raised"
  /\ UNCHANGED <<validationVars, nodeVars, callVars, result>>

---------------------------------------------------------------------------
(* Validations.                                                            *)

JudgeMatch ==
  /\ stage = "matched"
  /\ \E pending \in BOOLEAN :
       Begin([pages |-> 0, inline |-> TRUE, shot |-> FALSE, pending |-> pending,
              limit |-> 1, escalates |-> FALSE])
  /\ stage' = "judging"
  /\ UNCHANGED <<nodeVars, callVars, result>>

(* The decider opens or downloads a file, or has the node validated, which *)
(* current_node_validation_capability allows until it has a verdict.       *)
Act ==
  /\ stage = "deciding"
  /\ \E origin \in DOMAIN Requests : \E r \in Requests[origin] :
       /\ origin = "inspected" => ~ judged /\ r.inline = seen.text
       /\ Begin(r)
  /\ stage' = "acting"
  /\ UNCHANGED <<nodeVars, callVars, result>>

Step ==
  /\ stage \in Judging /\ Validate
  /\ UNCHANGED <<nodeVars, callVars, stage, result>>

(* update_document_validation_node_state: whatever the verdict, the node   *)
(* is not to be validated again.                                           *)
Conclusion ==
  /\ stage \in Judging /\ at = "done"
  /\ Over /\ judged' = TRUE /\ NoCall
  /\ stage' = IF stage = "judging" THEN "deciding" ELSE "visited"
  /\ UNCHANGED <<live, found, seen, searches, result>>

(* Nothing catches a validation that raises: the run ends.                 *)
Raise ==
  /\ stage \in Judging /\ at \in {"unanswered", "unreadable"}
  /\ stage' = "raised"
  /\ UNCHANGED <<validationVars, nodeVars, callVars, result>>

Answers == PayloadArrives \/ FinalPayloadArrives \/ RefuseScreenshot \/ Degrade \/ Break
Judges  == JudgeMatch \/ Step \/ Conclusion \/ Raise

Next ==
  \/ Inspect \/ Revisit \/ Search \/ Skip \/ PerceiveByRule \/ Perceive \/ Act
  \/ Answers \/ Judges

(* A call to the model ends (ModelCall), and the thread of the run goes on *)
(* with what it began; nothing obliges the decider.                        *)
Spec == Init /\ [][Next]_vars /\ WF_vars(Answers) /\ WF_vars(Judges)

---------------------------------------------------------------------------
(* Properties.                                                             *)

TypeOK ==
  /\ config \in Settings /\ at \in At /\ stage \in Stage
  /\ request \in Request
  /\ pass.strategy \in DOMAIN Level \cup {"none"} /\ Len(history) <= Cardinality(DOMAIN Level)
  /\ {live, seen, found, handed} \subseteq Sites \cup {NoSite}
  /\ result.advice \in Advice /\ result.by \in {"none", "model", "heuristic"}
  /\ {judged, shot, refused, picture} \subseteq BOOLEAN
  /\ searches \in 0..Searches

(* ResultCurrent: the perception the prompt of the decider shows is one of *)
(* what the node shows now, not of what it showed before a search.         *)
ResultCurrent == result # NoResult => result.of = Observation

(* JudgesWhatItSaw: the content judged because the model recognised the    *)
(* node is the content the model was shown, although the two travel apart. *)
JudgesWhatItSaw == stage \in {"matched", "judging"} => handed = seen

(* ScreenshotDropped: once the provider has refused the screenshot, no     *)
(* further call of the same perception carries it, the recovery included.  *)
ScreenshotDropped == stage \in Asking /\ refused => ~ shot

(* AdviceSound: what a model advises never sends the run away from a node  *)
(* with search targets, calls such a node exhausted, or asks for another   *)
(* validation of a node that has its verdict.                              *)
AdviceSound ==
  /\ result.of.targets => ~ result.exhausted
  /\ result.by = "model" /\ result.of.targets
       => result.advice # "backtrack_or_use_recoverable_choice_points"
  /\ result.by = "model" /\ result.blocked => result.advice # "validate_current_content"

(* PerceptionEnds: a perception or a validation that has begun comes back  *)
(* to the decider or ends the run, however often the model asks for more.  *)
Busy == stage \in Asking \cup Judging \cup {"matched"}
PerceptionEnds == Busy ~> ~ Busy
=============================================================================
