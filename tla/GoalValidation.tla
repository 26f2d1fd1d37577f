--------------------------- MODULE GoalValidation ---------------------------
(***************************************************************************)
(* One validation of a piece of evidence against the pending conditions:   *)
(* the passes ProgressiveGoalValidationUseCase runs, the policy that picks *)
(* the next one, and the two executors, one that asks a language model and *)
(* one that only matches patterns.                                         *)
(*                                                                         *)
(* Text and pictures are present or absent; what the model makes of them   *)
(* is the environment's choice, and so is a pattern found.                 *)
(***************************************************************************)
EXTENDS Integers, Sequences, FiniteSets, SequencesExt

CONSTANTS
  MaxPages,  \* bound: pages of a PDF
  Configs    \* settings a run may have

VARIABLES
  config,   \* the settings of the run, fixed when its services are built
  request,  \* what is validated
  history,  \* the results of the passes so far
  pass,     \* the pass being executed
  picture,  \* the model call of the pass carries a picture
  at        \* where the validation is
validationVars == <<config, request, history, pass, picture, at>>

Level == [first_page |-> 1, first_pages_window |-> 2, pattern_search |-> 3, visual_page |-> 4]

(* navigation_perception_mode and include_screenshot, document_validation_ *)
(* mode and supports_vision of the runtime that validates.                 *)
Settings == [perception : {"llm", "heuristic"}, screenshots : BOOLEAN,
             validation : {"llm", "deterministic"}, vision : BOOLEAN]

ASSUME ValidationAssumption == MaxPages \in Nat \ {0} /\ Configs \subseteq Settings

(* validated or invalid, and inconclusive or needs_more_pages.             *)
Status               == {"decided", "open"}
RequestsMore(result) == result.status = "open"

At     == {"idle", "choose", "execute", "asking", "done", "unanswered", "unreadable"}
NoPass == [strategy |-> "none", pages |-> {}]

(* pages is 0 when there is no PDF to read; limit is both max_pages and    *)
(* page_budget, which every caller sets to the same number.                *)
Request == [pages : 0..MaxPages, inline : BOOLEAN, shot : BOOLEAN, pending : BOOLEAN,
            limit : 1..3, escalates : BOOLEAN]

(* An opened file: the text of a PDF that has some, a PDF without, or a    *)
(* placeholder for any other file.  A downloaded one: no text is handed    *)
(* over.  An inspected page: its text, its screenshot or both.             *)
Requests ==
  LET Of(pages, texts, shots, limit) ==
        [pages : pages, inline : texts, shot : shots, pending : BOOLEAN,
         limit : {limit}, escalates : {limit > 1}]
  IN  [opened     |-> Of(1..MaxPages, BOOLEAN, {FALSE}, 3) \cup Of({0}, {TRUE}, {FALSE}, 3),
       downloaded |-> Of(0..MaxPages, {FALSE}, {FALSE}, 2),
       inspected  |-> Of({0}, {TRUE}, BOOLEAN, 1) \cup Of({0}, {FALSE}, {TRUE}, 1)]

NoRequest == [pages |-> 0, inline |-> FALSE, shot |-> FALSE, pending |-> FALSE,
              limit |-> 1, escalates |-> FALSE]

ValidationInit ==
  /\ config \in Configs
  /\ request = NoRequest /\ history = <<>> /\ pass = NoPass /\ picture = FALSE /\ at = "idle"

---------------------------------------------------------------------------
(* GoalValidationPolicy.next_pass.                                         *)

Consumed(h) ==
  LET sum[n \in 0..Len(h)] == IF n = 0 THEN 0 ELSE sum[n - 1] + h[n].pages
  IN  sum[Len(h)]

Smallest(S) == CHOOSE x \in S : \A y \in S : x <= y

Window_Whole(r, h) == Smallest({r.limit, 3})   \* mutant
Window(r, h)       == Smallest({r.limit, 3, r.limit - Consumed(h)})

(* The hints of a request are never empty, nor is a target page ever set.  *)
PatternSearch == [strategy |-> "pattern_search", pages |-> {}]
VisualPage    == [strategy |-> "visual_page", pages |-> {1}]

AfterPattern_Again == PatternSearch   \* mutant
AfterPattern       == VisualPage

NextPass(r, h) ==
  IF h = <<>> THEN [strategy |-> "first_page", pages |-> {1}]
  ELSE IF ~ RequestsMore(Last(h)) \/ ~ r.escalates \/ Consumed(h) >= r.limit THEN NoPass
  ELSE CASE Last(h).strategy = "first_page" ->
              IF Window(r, h) <= 1 THEN PatternSearch
              ELSE [strategy |-> "first_pages_window", pages |-> 1..Window(r, h)]
         [] Last(h).strategy = "first_pages_window" -> PatternSearch
         [] Last(h).strategy = "pattern_search"     -> AfterPattern
         [] OTHER -> NoPass

---------------------------------------------------------------------------
(* The evidence of a pass: its inline text, or pages of the PDF.           *)

Pages(r, p) ==
  IF r.inline THEN {1}
  ELSE IF p.strategy = "pattern_search" THEN 1..Smallest({r.limit, r.pages})
  ELSE IF r.pages = 0 THEN {} ELSE p.pages

(* _validate_page_number: a page past the end raises.                      *)
PastTheEnd(r, p) == ~ r.inline /\ r.pages > 0 /\ ~ (p.pages \subseteq 1..r.pages)

Cost(r, p) == IF p.strategy \in {"first_page", "first_pages_window"}
              THEN Cardinality(Pages(r, p)) ELSE 0

Is(state) == at = state
Remembered_Not(h, r) == h   \* mutant
Remembered(h, r)     == Append(h, r)

Resolve(status, pages) ==
  /\ at' = "choose"
  /\ history' = Remembered(history,
                 [strategy |-> pass.strategy, status |-> status, pages |-> pages])

Begin(r) ==
  /\ Is("idle")
  /\ at' = "choose" /\ request' = r /\ history' = <<>> /\ pass' = NoPass /\ picture' = FALSE
  /\ UNCHANGED config

Over ==
  /\ at' = "idle" /\ request' = NoRequest /\ history' = <<>> /\ pass' = NoPass /\ picture' = FALSE
  /\ UNCHANGED config

Choose ==
  /\ Is("choose")
  /\ pass' = NextPass(request, history)
  /\ at' = IF pass' = NoPass THEN "done" ELSE "execute"
  /\ UNCHANGED <<config, request, history, picture>>

Asks    == config.validation = "llm"
Skipped == Asks /\ ~ request.pending
Seen    == pass.strategy # "visual_page" \/ (config.vision /\ request.pages > 0)

(* A page past the end of the document raises out of the validation.       *)
Unreadable ==
  /\ Is("execute") /\ ~ Skipped /\ PastTheEnd(request, pass)
  /\ at' = "unreadable"
  /\ UNCHANGED <<config, request, history, pass, picture>>

Executes == Is("execute") /\ (Skipped \/ ~ PastTheEnd(request, pass))

(* Nothing pending, or a picture the runtime cannot take or nobody can     *)
(* render: the model is not asked.                                         *)
Unasked ==
  /\ Executes /\ Asks /\ (Skipped \/ ~ Seen)
  /\ Resolve(IF Skipped THEN "decided" ELSE "open", 0)
  /\ UNCHANGED <<config, request, pass, picture>>

(* The deterministic executor: only a pattern that is found validates.     *)
Outcomes ==
  IF pass.strategy = "pattern_search" /\ Pages(request, pass) # {} THEN Status ELSE {"open"}

Match ==
  /\ Executes /\ ~ Asks
  /\ \E status \in Outcomes : Resolve(status, Cost(request, pass))
  /\ UNCHANGED <<config, request, pass, picture>>

Ask ==
  /\ Executes /\ Asks /\ ~ Skipped /\ Seen
  /\ at' = "asking"
  /\ picture' = (pass.strategy = "visual_page" \/ (request.shot /\ config.vision))
  /\ UNCHANGED <<config, request, history, pass>>

Answer ==
  /\ Is("asking")
  /\ \E status \in Status : Resolve(status, Cost(request, pass))
  /\ picture' = FALSE
  /\ UNCHANGED <<config, request, pass>>

(* _should_retry_without_images: once, and any other error is the caller's. *)
RetryWithoutPicture ==
  /\ Is("asking") /\ picture
  /\ picture' = FALSE
  /\ UNCHANGED <<config, request, history, pass, at>>

Unanswered ==
  /\ Is("asking")
  /\ at' = "unanswered" /\ picture' = FALSE
  /\ UNCHANGED <<config, request, history, pass>>

Validate == Choose \/ Unreadable \/ Unasked \/ Match \/ Ask \/ Answer \/ RetryWithoutPicture
            \/ Unanswered

---------------------------------------------------------------------------
(* Properties.                                                             *)

(* BudgetKept: whatever the passes escalate to, the pages a validation has *)
(* read in its windows never exceed the page budget of its request.        *)
BudgetKept == Consumed(history) <= request.limit

(* PassesEscalate: a pass is never repeated and never followed by a        *)
(* cheaper one, and every pass but the last one asked for more: a verdict  *)
(* ends the validation.                                                    *)
PassesEscalate == \A i, j \in DOMAIN history : i < j =>
  /\ Level[history[i].strategy] < Level[history[j].strategy]
  /\ RequestsMore(history[i])

(* ValidationAnswers: only a model that fails leaves a validation without  *)
(* a verdict; escalating never does.                                       *)
ValidationAnswers == at # "unreadable"
=============================================================================
