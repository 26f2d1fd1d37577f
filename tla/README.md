# A verification development for Graph Mapper

Graph Mapper (`graph_mapper_agent/`) is a research agent.  Given an entry URL
and a goal it explores a web site: it inspects pages, keeps what it saw in a
graph of nodes and edges, lets a decider (a language model behind guardrails, or
a heuristic) choose an action at a node, executes it through browser, download
and perception ports, reduces the outcome into the state of the run, and decides
where to continue.  The run ends when every condition of the goal has evidence
or when nothing is left to try.

Around a run there is a service: planning conversations, jobs in a pool of
threads and a page that polls them, all writing one SQLite ledger.

This directory holds TLA+ modules translated from that code, TLC configurations
that check them on small sites and few requests, and TLAPS proofs for all sizes.
They form three layers.  The service runs explorations: what it calls `Explore` is a
whole behaviour of `GraphMapper`.  An exploration sees, judges and asks: what
`GraphMapper` takes as one answer of the environment is a whole perception,
validation or model call, and `Perception` and `ModelCall` model those from the inside.
`Exploration` states what a run promises without any of this, and `GraphMapper` is
shown to implement it.

    tlc -workers 2 -config Web.cfg MCGraphMapper.tla     # one run of the explorer
    tlc -workers 2 -config Jobs.cfg MCResearchService.tla  # one of the service
    tlc -workers 2 -config Perception.cfg MCPerception.tla # seeing and judging a node
    tlc -workers 2 -config Calls.cfg MCModelCall.tla       # calls to the models
    tlapm GraphMapper_proofs.tla                         # the proofs of one module

## 1. The system

Paths are relative to `src/graph_mapper_agent/`.

| component | state | operations | who calls it |
|---|---|---|---|
| graph memory (`domain/graph.py`, `graph_merge.py`) | nodes by id, URL index, edges, pending edges of a node, inspected and exhausted flags | `register_node`, `ensure_node`, `merge`, mark inspected, exhausted, useful, failed | node steps, graph updater |
| path, choice points, anchors (`domain/path.py`, `runtime/state/models.py`, `runtime/nodes/choice_points.py`) | active path, open choice points with a priority, strategic anchors, arrival context | seed, consume, reprioritise, register and resume an anchor, rebuild the path | `decide_action`, `advance_branch`, graph updater |
| scope policy (`exploration_scope_policy.py`, `advance_branch.py`) | the single exploration scope | `decide_next`: continue, anchor, choice point, root, stop | `advance_branch` |
| run engine (`navigation/runtime/engine.py`, `runtime/transitions.py`) | current state, step index | run the step of a state, follow the transition table, bound the steps, raise | runner |
| node steps (`runtime/nodes/`) | the dictionary of the engine | inspect, classify, build view, decide, execute, update, advance, success, fail | engine |
| decision layer (`application/services/decision/`) | none | propose an action, run the guards in order, fall back | `decide_action` |
| executor (`application/services/execution/`) | last download | follow with probe, download, open, validate, search | `execute_action` |
| graph updater (`graph_updater.py`) | all registers of a run | one reducer per action, findings, goal evaluation, priorities | `update_graph` |
| goals (`application/services/goals/`, `finding_extractor.py`) | conditions and the findings that match them | plan, extract, count, satisfy, align by year | graph updater, perception |
| navigation perception (`navigation_perception.py`, `adapters/perception`) | one result per node, dropped by a search | run once per node, ask the model, again without screenshot, recover candidates it points at, fall back to heuristics, correct the advice, validate a recognised node | `build_node_view` |
| local perception, goal validation, evidence extraction (`application/local_perception`, `goal_validation`, `evidence_extraction`, `adapters/document_validation`) | the passes of one validation | judge content against conditions, in growing passes within a page budget | executor, perception, chat |
| run bootstrap (`bootstrap/runner.py`) | none | record the session, build, start, run, record completion or failure | chat use case, menu |
| ledger (`ledger/`) | SQLite tables: sessions, messages, runs, events, steps, LLM calls, evidence, evaluations | append an event with its projections, upsert a session, query | everyone |
| HTTP jobs, chat, planning (`interfaces/http`, `interfaces/chat`, `application/use_cases`) | `_jobs` and `_sessions` in memory under locks, a pool of two threads | create a job, poll it, plan a turn, load a session, open an artifact | HTTP clients, concurrently |
| LLM runtime (`adapters/llm`, `platform/llm`, `bootstrap/builders/llm.py`) | one runtime per subtask; a pool of threads for the whole process | inherit and resolve configurations, build, invoke, time out | decider, perception, validation, planner |
| LLM calls with ledger (`invoke_llm_with_ledger_use_case.py`) | a row of `llm_calls` per call | record, invoke, record | the same, the planner and the coverage check excepted |
| web tooling (`adapters/web_browser`, `adapters/tooling`) | one browser | inspect, probe, download, search | ports of the run |

How they interact.  A run is one thread: the engine calls one step, the step
calls services, the services call ports and wait for them.  Nothing else touches
the state of the run, so the interleaving inside a run is that of *answers*:
what a page, a redirect, a search or a model returns, in an order the code did
not choose.  Between runs and HTTP requests there is real concurrency: two worker
threads, the request threads, and the ledger file they share.

What is hard in it:

* **Redundant state.**  A pending edge is an edge with status `discovered` and
  also an id in the node's tuple; a node is in a table and in a URL index; the
  current node is in the runtime and in the scope; the origin of the current
  content, the arrival and the path each name a node.  They are written by
  different functions, and read by functions that believe them equal.
* **Stale state at a resumption.**  `advance_branch` moves the focus to a node
  seen long ago, with an edge, a path step, priorities and a content owner
  recorded under circumstances that no longer hold.
* **Nothing may be lost.**  Candidates are divided between pending edges and at
  most three choice points; exhausted nodes, failed edges, the scan budget of 12
  and the anchors each may hide a candidate that was never tried.
* **Endings.**  A run ends through the decider, the policy, the guard against
  exhausted nodes, an exception or the bound of the engine, and all must agree
  with the goal.
* **Calls that outlive their caller.**  A model call handed to the pool cannot be stopped: it
  holds its thread after the timeout, and its answer comes when its caller already waits for
  the next one.
* **One node, several contents.**  What the browser shows, what a search left, what was
  inspected, what the model was shown and what is judged are five registers.
* **Retries and escalation**: a call without its screenshot, a recovery pass, a pass over more
  pages, each of which starts from what the one before left behind.
* **Concurrency outside the run**: a poll that reads the status of a job, leaves
  the lock and then declares it aborted; two planning turns that start from the
  same plan; a job that overwrites the context of the session it belongs to; a
  write that fails, or a process that stops, between two records of a run.

## 2. Modules

| module | models | content |
|---|---|---|
| `GraphMemory` | `domain/graph.py`, `domain/graph_merge.py`, the edge marks of `graph_updater.py` | the graph as a record, its operations as operators |
| `ScopePolicy` | `exploration_scope_policy.py`, `choice_points.py`, registers of `models.py`, `goals/alignment.py` | seeding, ranking and resumption as operators that return the *set* of possible answers |
| `GraphMapper` | engine, node steps, executor, updater, perception, decision guards | the state machine of a run, composed of the two above |
| `Exploration` | what `run_graph_mapper` returns | what a run promises: places, candidates, tries, evidence, an outcome |
| `GraphMapperProperties` | | what the runs check, and the refinement mapping to `Exploration` |
| `MCGraphMapper` | | the sites |
| `RuntimePlan` | `platform/llm`, `runtime_factory.py`, `bootstrap/builders/llm.py` | from a profile to the runtime of each subtask, as operators |
| `ModelCall` | `invoke_llm_with_ledger_use_case.py`, `adapters/llm/runtimes` | building the runtimes, and calls by many threads through the pool and the ledger |
| `MCModelCall` | | profiles |
| `GoalValidation` | `application/goal_validation`, `adapters/document_validation` | the passes of one validation |
| `Perception` | `navigation_perception.py`, `adapters/perception`, `local_perception` | a node that is inspected, searched, perceived and judged |
| `MCPerception` | | contents of a node, settings |
| `Ledger` | `ledger/adapters`, the readers in `planning_service.py` | the rows that somebody reads back, as a record; the writer's operations as operators |
| `RunService` | `interfaces/http/services.py` (jobs), `interfaces/chat/service.py`, `chat_with_research.py`, `bootstrap/runner.py` | the table of jobs, the pool, the polls, and a worker from its first record to its last |
| `PlanService` | `interfaces/http/planning_service.py`, the `/plan` routes, `record_plan_*` | conversations in memory, turns, loads, the screen of the client |
| `ResearchService` | the process and the page `index.html` | both over one ledger, launches, restarts; properties |
| `MCResearchService` | | one session |
| `*_proofs` | | theorems |

**`GraphMemory`.**  A node id is opaque in the code; the model names it by the
URL it was first registered under, which keeps "an id whose node was replaced by
another" expressible.  An edge is the pair of origin and target URL, because
`_find_existing_edge` never lets a second one appear.  `register_node` *replaces*
the object of an id and leaves edges and index entries of the old one.

**`ScopePolicy`.**  Ids of choice points and anchors are random; where a sort
falls back to the id, any of the equals may be first.  `PointChoices` is the scan
of `_next_viable_choice_point` with its budget; `AnchorChoices` keeps the early
`None` of `_strategic_restart_decision_if_available`.  `Priority` is the bonus of
100 for every pending year plus the base score; scores stay below 100.  The root
is not excluded when it is the current node: in that case it is exhausted and
not available anyway.

**`GraphMapper`.**  `pc` is the state of the engine, and each state of
`transitions.py` is one action (`InspectNode`, `ClassifyNode`, `BuildNodeView`,
`DecideAction`, `ExecuteAction`, `UpdateGraph`, `AdvanceBranch`, `Finish`), split
into its cases:

| code | definitions |
|---|---|
| `bootstrap` | `Init` (the bootstrap has no choice; it counts as step one) |
| `inspect_node` | `InspectSnapshot`, `InspectPage` |
| `build_node_view`, perception | `ViewKnownNode`, `ViewPerceivedNode`, `Register` |
| `decide_action` and the guards | `DecideEdge` ... `DecideSuccess`, with `Seed` |
| executor | `ExecuteFollow` ... `ExecuteRefine`, `FollowResults` with `Fetched`, `Visited`, `Persisted`, `Delivered` |
| graph updater | `UpdateFailed`, `UpdateFollow` ... `UpdateExhausted`, `Validated`, `Reprioritized`, `Arrive` |
| `decide_next`, `advance_branch` | `Advanced`, `UsedUp`, `Continue`, `ResumeAnchor`, `ResumePoint`, `RestartRoot`, `Stop` |
| engine | `At`, `StepLimit`, `PortFailure`, `Finish` |

The environment is given by constants: what a page links to (`Links`), what only
a search result or perception shows (`Revealed`, `Visual`), where a request ends
(`Landing`), what validation may say (`Verdicts`), and so on.  The decider may
choose anything the guards let through.  The content of pages, the wording of
prompts, page types, scores and confidence are data no property looks at.
Abstractions a reader should know:

* `judged` stands for "the node has a validation payload"; the comparison of
  evidence signatures in `validation.py` is not modelled.
* `Evidence` stands for the matching of a finding with a condition (family, host,
  carrier, year); a condition carries its target kind.
* The statuses `blocked` and `uncertain` of a result are `failed`: the updater
  treats the three alike.
* `status` of path steps and the trace of the scope are read by nothing.
* A search that finds nothing is a result like another page.  The branch of `_apply_search_with_text`
  that ignores a search without effect is never reached: `_resolve_search_outcome`
  (`execution/search.py`) reports each of its conditions as a failure before the reducer runs.
* The base score of a target is fixed (`Score`).  `_enrich_edge` may raise the score of an edge that is
  observed again, after a choice point was seeded with the lower one.
* An accepted page that looks like a file may be downloaded at once (`Persisted`).  No reducer reads
  that download; it is what a later `open_artifact` of the same URL finds.

**`Ledger`.**  Every operation of `SqliteLedgerWriter` ends in one commit, so one
operation is one step and is either in the database or not; `LedgerMayFail` lets
any of them raise (locked database, full disk).  `RecordSession` *replaces* the
context; `RecordEvaluation` makes the row of a run that is not there, with the
default status of the table.  A plan is known by the turn that set its goal and by
whether it could be launched, which stands for structure, goal, entry URL and
model (`launch_ready_effective`).

**`RunService`.**  `thread[j]` is where the worker of job `j` is; there is one stage
for each record and one for each stretch of code between records:

| code | actions |
|---|---|
| `create_chat_job`, executor | `CreateJob`, `TakeJob` |
| `run_chat_job` | `StartJob`, `PublishCompleted`, `PublishFailed` |
| `process_chat_turn` | `Validate`, `RecordChatSession`, `RecordChatInput`, `RecordChatOutput` |
| `run_graph_mapper` | `Build`, `RecordRunSession`, `RecordRunInput`, `RecordRunStarted`, `Explore`, `RecordRunCompleted`, `RecordResult`, `Evaluate` |
| its exception handler | `RecordRunFailed`, `RecordFailure`, `EvaluateFailure` |
| `chat_with_research` | `Answer` |
| `job_snapshot` | `TakeSnapshot` (under the lock), `JudgeSnapshot` (after it) |

`raised[j]` is the exception on its way out of the worker; `Abort` is one that is
not an `Exception` and that no handler catches.  The return of `run_chat_job` and
the moment its future is done are one step with the last `update_job`; a poll
between them sees nothing that it does not see before or after.

**`PlanService`.**  A turn takes the copy of its conversation (`ReadConversation`),
thinks without the lock, commits (`Converse`, `UpdatePlan`) and writes four times
(`SaveSession` ... `SaveReply`); a load reads the row and the messages in two
selects and then replaces the conversation; `GET /plan` looks and creates in two
steps.  `OneTab` states how the page behaves: `state.busy` lets one turn or load go at a
time.  Without it any request may overlap any other.

**`ResearchService`.**  The screen of the client decides what can be launched, and
survives, like the ledger, a `Restart`, which takes the memory of the process.
It is assumed that a ledger is configured, as the routes always do.

**`Exploration`.**  A run as its caller sees it: places reached, candidates offered and
tried, evidence, and an outcome.  The mapping in `GraphMapperProperties` reads them from the
graph (`Reached`, `Offered`, `Tried`), the findings and `pc`; scope, path, choice points, anchors,
snapshots and decisions are hidden.  The steps of the loop that only move those are
stutters; looking at a node, trying a candidate and searching are one step each.

**`RuntimePlan`, `ModelCall`.**  A configuration is reduced to what the resolution tells
apart: backend, output mode, and the presence of a key, of vision, reasoning,
effort and routing.  `Source` is the chain of `run_graph_mapper`, by which a subtask
without a configuration uses another's.

| code | definitions |
|---|---|
| `config.py`, `provider_policies.py`, `resolve_runtime_plan.py`, `output_resolution.py` | `FromProfile`, `PolicyOf`, `Policy`, `Runtime` with `EffectiveMode`, `Effort` |
| `run_graph_mapper`, `build_llm_runtime_bundle`, factory | `Source`, `Wanted`, `Resolvable`, `Build` |
| `InvokeLlmWithLedgerUseCase.execute` | `Ask`, `AskFails`, `Record`, `RecordFails` |
| adapters: message check, `_run_agent` | `Refuse`, `Direct`, `Submit`, `DirectAnswer` |
| `_run_agent_in_thread`, `executor_pool.py` | `Start`, `Finish`, `Timeout` |

The pool belongs to the process, so that callers of different jobs share it.  `Timeout` may
happen at any moment of the wait.  A task that a thread has begun may never end: the
provider is not obliged to answer, and a caller that gave up does not reach it.  Only calls of
an Ollama runtime, and of threads without an event loop, are made by the caller itself;
their HTTP clients bound them in time.

**`GoalValidation`.**  `NextPass` is `GoalValidationPolicy.next_pass`; a pass is executed by
the executor that asks a model (`Ask`, `Answer`, `RetryWithoutPicture`, `Unanswered`, or `Unasked`
when there is nothing to ask) or by the one that matches patterns (`Match`).  `Requests` are all
the requests the executor of a run builds: an opened file, a downloaded one, an inspected
page.  Text is present or absent.  A file is what it was when it was downloaded; one that cannot be
opened at all is not modelled.

**`Perception`.**  One node of a run and its registers: what the browser shows (`live`), what the
last search left (`found`), what was inspected (`seen`), what was handed to the model (`handed`), the
perception that is remembered (`result`) and whether the node has a verdict (`judged`).

| code | definitions |
|---|---|
| `resolve_node_observation`, `inspect_edge`, `_apply_search_with_text` | `Observation`, `Inspect`, `Revisit`, `Search` |
| `NavigationPerceptionCoordinator.run_if_needed` | `MayPerceive`, `MustPerceive`, `Skip`, `Handed`, `JudgeMatch` |
| `LlmNavigationPerceptionExecutor.perceive` | `Perceive`, `PayloadArrives`, `RefuseScreenshot`, `Recovered`, `FinalPayloadArrives`, `Degrade`, `Break`, `Steered`, `Unblocked`, `Perceived` |
| `recommend_next_step`, the browser's executor | `Recommended`, `Heuristic`, `PerceiveByRule` |
| `maybe_validate_*`, `update_document_validation_node_state` | `Act`, `Step`, `Conclusion`, `Raise` |

The page behind a URL is assumed not to change during a run (`live` is never written).  So the inspection
that `validate_current_content` repeats for a node without a screenshot brings nothing new, and `Act` leaves
`seen` alone.  The
recovery pass is taken to be enabled, its default.  Every branch of
`update_document_validation_node_state` that a status of the modelled validations reaches
sets `can_revalidate` to False, so that its signatures reduce to `judged`.  A repeated perception
(`refine_navigation_perception`) is in `GraphMapper`.

## 3. Runs

Sites are small on purpose: each hazard needs two or three pages in the right
relation, and every site has a page for each relation its properties talk about.
`DotPdf`, the URLs that end in `.pdf`, need not be those that serve a PDF: in `Tree` one of them is a page.
`MaxSteps` is the engine's own 256 (`orchestrator.py:27`) wherever runs end by
themselves; `Portal` uses 40, enough for five full rounds of the loop, because
its decider may go on for ever.  `ScanBudget` 12 is the code's; `BranchingFactor`
is the code's 3, and 2 in `Tree` to make candidates compete for choice points.
The number of inspections (`clock`) is bounded by the number of steps.

| run | question | answer |
|---|---|---|
| `Tree` | is anything lost, is what is opened at a PDF leaf the leaf itself, does the loop implement `Exploration` | yes, where every page has one origin and no more than `BranchingFactor + 1` candidates |
| `Web` | is the graph consistent and the policy right where pages link to each other | yes |
| `Dated` | are priorities current, is the verdict that of the goal, are 256 steps enough | yes |
| `Portal` | types, index and pending edges with searches and redirects; is what was accepted recorded; does the run end | yes (without PDFs) |
| `Jobs` | is a job's end in the ledger, whatever fails; is every job answered; is the pool respected | yes |
| `Sessions` | can an answered plan be loaded again after jobs and restarts | yes, in one tab exactly as shown |
| `Calls` | do ledger, caller and pool agree on every call of a model; is anything sent that a provider does not take; does every call end | yes |
| `Perception` | is what is remembered, judged and advised of a node true of what it shows; do validations escalate within their budget and end | yes |
| `DatedOwner` | is a file filed under the node it came from | no |
| `JobAborted` | is "aborted unexpectedly" only said of a thread that died | no |
| `TurnLost` | does a turn continue the conversation it replaces | no, with two tabs |
| `OnePagePdf` | does only a failing model leave a validation without a verdict | no |

Bounds of the service.  `Jobs` has two jobs and one worker, so that one must wait
while the other fails, dies or finishes, and one turn, which is what it takes to
make a plan that can be launched.  Every write may fail.  `Sessions` has two
turns, a job that resets the context between and during their saves, and one
restart, at any point, which covers a turn that was saved in part; a failed write
leaves the same rows as a restart at that point.  One session is enough, for sessions
share nothing but the table of jobs.  Both runs may stop: the user may send nothing more
(`CHECK_DEADLOCK FALSE`).

Bounds of `Calls`: two callers with an event loop on a pool of one thread, two calls each, so that a
call can wait behind one that was given up, and its caller can ask again before the
late answer comes.  The five profiles use each provider, give it settings it does not have, leave
subtasks to inherit, and two are rejected.  It may stop: nobody must ask.

Bounds of `Perception`: four contents (more candidates than the prompt takes, a search form, a
document with a way on and one without), two searches, files of up to four pages, one more than the
largest window, and three settings: all on, no vision, all by rule.  With two searches a second
one can meet what the first left.  `OnePagePdf` needs one content and no search.

What the passing runs say:

* `NothingForgotten` (Tree): a run fails only when every candidate of every node
  not given up was tried, with one candidate more than the choice points seeded at a page.  `UniquePoints`, `NoPointLeft` (Web): no two choice points wait
  for one target, and failing means none was viable.
* `PendingInSync`, `IndexConsistent` (Web), `OneNodePerUrl`, `PendingSound`
  (Portal): the redundant representations of the graph.  The first two have the
  precondition that a URL always lands at the same place; without it they do
  not hold (section 6).
* `NoExhaustedFocus`, `FailedStaysFailed` (Web): no work on a node that was given
  up, no second attempt on a failed edge, whatever was open when it failed.
* `LeafOpensItself` (Tree): the arrival context, which a resumption leaves alone, is
  used by `guard_pdf_leaf` at its own node only.  Elsewhere an `open_artifact` may name any
  edge of the graph (`DecideOpenLeaf`, section 6).
* `PrioritiesCurrent`, `PendingYearFirst` (Dated): the choice points are ranked by the years that
  are still missing, and those are resumed first.
* `VerdictMatchesGoals` (Dated): one condition wants two sources (`DatedPieces`), a file and a
  page, so that the same file filed twice, under two nodes, must count once.  The property
  counts sources by itself (`Sources`, `Met`) and does not use the evaluator of the model.
* `StepBudget` (Dated): the budget of the engine does not decide a run.
* `AcceptedIsRecorded`, `Termination` (Portal).
* `CompletedIsRecorded`, `FailureIsRecorded`, `RunClosesOnce` (Jobs): what a client
  is told of a job agrees with the ledger, though every record is a commit of
  its own.  Only a failed write leaves a run open, and then the job says so.
* `PoolBounded`, `EveryJobAnswered` (Jobs): no job waits twice or is lost, and none
  stays "running" for ever, even if its thread died.
* `AnsweredPlanLoadable` (Sessions): a job erases the plan from the context of the
  session, and a load then finds it in the newest plan message; in one tab it is the very
  plan on the screen.
* `ImplementsExploration` (Tree): seen from outside, the loop tries one candidate at a time, and
  only one that a known place offered, takes nothing back, and ends with the verdict of its
  evidence, or raises.
* `NothingUnsupported` (Calls): what a subtask inherits or a profile asks for reaches a provider only
  if its policy has it.
* `LedgerAgrees`, `RowFrozen`, `OwnAnswer` (Calls): a call that failed for its caller is never
  completed in the ledger, even if its answer comes later or the ledger failed, and that answer is not
  taken for the one of the next call.
* `NoOrphanQueued`, `EveryCallEnds` (Calls): giving up costs at most the thread that had begun, and
  with all threads lost every further call still ends, by its timeout.
* `ResultCurrent`, `JudgesWhatItSaw` (Perception): neither searches, nor revisits, nor redirections
  make the prompt show, or the run judge, another content than the node's.
* `AdviceSound`, `ScreenshotDropped` (Perception): the corrections of an answer hold together, and the
  retry without a screenshot holds for the recovery pass, too.
* `BudgetKept`, `PassesEscalate`, `PerceptionEnds` (Perception): overlapping windows stay within the
  page budget, no pass is repeated, and every perception and validation comes to an end.

`NoPointLeft` also covers the scan budget of the policy: with `ScanBudget` = 1 in `Web.cfg` TLC finds a
run that fails with a live choice point behind a dead one.  With the 12 of the code this takes more
than twelve open choice points of exhausted parents, more than the sites of these runs have.

**Fairness.**  `FairSpec` adds `WF_vars(Next)`: the engine is a loop in one thread,
and every port returns or raises (they carry timeouts), so a run that can take a step
takes one.  No fairness is assumed of any choice: `Termination` holds for a
decider that asks for refinement of a page again and again, and it holds only
thanks to the bound of the engine.

In the service, the threads of the pool run, hence `WF` of `Work(j)`; and the
page polls its job every two seconds until a final status or an error comes back,
hence `WF` of both halves of a poll.  It follows that `EveryJobAnswered` is for a
client that keeps its page open; a job whose thread died and that nobody polls stays
"running" in the table.  A run is assumed to return (`Termination` of `Portal`).
Nothing is assumed of turns, loads, launches, failures and restarts.

In `Calls`, a caller goes on with the call it began, a free thread of the pool takes a task, direct calls
are bounded by their HTTP client and `future.result` by its timeout; each of these is a `WF` of its
own.  Nothing obliges a task of the pool to end, so `EveryCallEnds` rests on the timeout alone.
In `Perception`, `WF` of `Answers` says that a model call ends, which is what `EveryCallEnds`
gives, and `WF` of `Judges` that the thread of the run goes on; nothing obliges the decider.

## 4. Proofs

All theorems are for any set of URLs, any site, decider and budget that satisfy
the assumptions of the modules.

| theorem | statement |
|---|---|
| `TypeCorrect` | `Spec => []TypeOK` |
| `NodesAreUnique` | `Spec => []OneNodePerUrl`, no precondition on landing |
| `PendingTupleSound` | `Spec => []PendingSound`, likewise |
| `FocusInvariant` | scope and runtime name the same registered node |
| `LiveFocus` | `Spec => []NoExhaustedFocus` |
| `VerdictCorrect` | `Spec => []VerdictMatchesGoals`, in terms of distinct sources |

`ScopePolicy_proofs` shows of every graph operation that it keeps the type and the
soundness of the graph, and that what the policy returns is a
choice point that is open, an anchor that is open and not exhausted, or the root
only when it is available.  `GraphMapper_proofs` combines them in one inductive
invariant:

    IInv == TypeOK /\ Sound(graph) /\ Known /\ FocusAgrees
            /\ DecisionReady /\ ResultReady /\ FocusLive /\ EndsRight

None of the theorems is inductive alone.  `OneNodePerUrl` survives `UpdateFollow`
only if the child of an edge, which is offered as the id of the new node, is
`Known` to be registered; `NoExhaustedFocus` survives `AdvanceBranch` because
`FocusAgrees` makes the scope, which is what `mark_exhausted` writes, the node
that the loop works on; `FocusLive` carries this over the update, where the node may
be exhausted for a moment; `DecisionReady` and `ResultReady` say which edge and
page the executor and the reducer may rely on.  `EndsRight` ties each terminal state to the
conditions.  There is one step for each action, and under it one for each conjunct
it can disturb.

For the service, for any number of sessions, jobs, turns, threads and restarts,
and with a ledger that fails whenever it likes (`ResearchService_proofs`):

| theorem | statement |
|---|---|
| `ServiceTypeCorrect` | `Spec => []TypeOK` |
| `CompletedJobsRecorded` | `Spec => []CompletedIsRecorded` |
| `FailedJobsRecorded` | `Spec => []FailureIsRecorded` |
| `PoolIsBounded` | `Spec => []PoolBounded` |
| `RunsCloseOnce` | `Spec => RunClosesOnce` |
| `AnsweredPlansLoadable` | `Spec => []AnsweredPlanLoadable` (`PlanLoad_proofs`) |

    IInv == TypeInv /\ InLine /\ PoolSize /\ \A j \in Job : Chain(j)

`Chain(j)` says what the row of a run and the messages of its job are at each
stage of the worker (`RowAgrees`, `MessagesAgree`) and what a published status implies
(`OutcomeAgrees`): the properties only look at the end of a job, and are preserved
only because each record finds those before it in place.  `InLine` ties the queue to
the stages; without it a job could be taken that does not wait, and `RowAgrees` would
be lost.  `TypeInv` adds to the types that a turn that saves has a conversation to
save.  One lemma says that no job touches the rows of another
(`OthersUntouched`), one that no planning request touches a job
(`PlanStepsLeaveJobs`), and one lemma with a step for each stage does the rest
(`WorkKeepsChain`).

`PlanLoad_proofs` needs a second invariant, `PlanInv`: a turn past its second write has
left a plan in the ledger (`Kept`); and, where a session is open in one tab, at
most one request of it is in flight (`Alone`), between requests ledger and
screen agree up to a context erased by a job (`Shown`), a turn in the middle of its
writes has written its own plan (`Saved`), and what a load has read so far is
the plan on the screen (`Loaded`).

For the promise of a run (`Exploration_proofs`), on top of the invariant of `GraphMapper_proofs`:

| theorem | statement |
|---|---|
| `RunKeepsPromise` | `Spec => ImplementsExploration` |
| `OnePointPerTarget` | `Spec => []UniquePoints` |
| `FailedEdgesStay` | `FromCandidates => (Spec => FailedStaysFailed)` |
| `FailsOnlyWhenDone` | `LongScan => (Spec => []NoPointLeft)` |

The mapping is proved step by step: `InitPromise`, and in `NextPromise` one lemma for each kind of
step (`LookStep`, `FailedTries`, `FollowTries`, `ArtifactTries`, `ValidateLooks`, `SearchReaches`,
`EndingConcludes`, and stutters).  It needs one invariant more, `Options`: what the loop may
come back to, as a choice point, an arrival, a content owner or a decision, was offered or
reached before.  `FromCandidates` says that the decider does not open files: with `open_artifact`
among its decisions, a node without candidates may be left by any edge of the graph, which may be closed
already and whose outcome would then reopen the question.  TLC checks `FailedStaysFailed` on `Web`, where nothing
is opened.  `LongScan` is `Cardinality(Url) <= ScanBudget`: by `OnePointPerTarget` there are at most as many
choice points as URLs (`FewPoints`, an injection), so that a scan that gives up has looked at
all of them (`ScanFinds`), and a resumption never meets an exhausted node (`ResumesAlive`).  The scan of
the code ends after 12 choice points, and on a larger site dead ones in front can hide a live one.

Some properties need something of the site or of the decider.  `Site_proofs` proves them for every site
that has it, on top of the invariants above; each condition is a definition of its own, and the site of
the run that checks the property satisfies it:

| theorem | statement | run |
|---|---|---|
| `TupleIsComplete` | `StableLanding => (Spec => []PendingInSync)` | `Web` |
| `IndexLeadsHome` | `StableLanding => (Spec => []IndexConsistent)` | `Web` |
| `PdfLeafOpensItself` | `StableLanding /\ PdfBare => (Spec => []LeafOpensItself)` | `Tree` |
| `FailsWithNothingLeft` | `StableLanding /\ NoSearch /\ OneOrigin /\ FewCandidates /\ LongScan => (Spec => []NothingForgotten)` | `Tree` |
| `AcceptedGetsRecorded` | `FollowsNoFile => (Spec => AcceptedIsRecorded)` | `Portal` |
| `RanksStayCurrent` | `PerceivesNoYear => (Spec => []PrioritiesCurrent)` | `Dated` |
| `YearsGoFirst` | `PerceivesNoYear /\ SmallScores => (Spec => PendingYearFirst)` | `Dated` |
| `StepsSuffice` | `StableLanding /\ NoSearch /\ NoRefine /\ Conclusive /\ LongRun => (Spec => []StepBudget)` | `Dated` |

* `StableLanding` says that a request for a URL always ends at the same URL, which redirects no further.
  Then a second request by an edge leads to a page that is registered already, so that `register_node`
  never replaces a node that has edges, and the index never keeps the name of a replaced one.  The invariant is

      Stable == Tight(graph) /\ Pages /\ Children /\ Answer

  `Tight` is the property for the graph, with "only registered nodes have edges"; `Pages` bounds where
  a snapshot may come from; `Children` says that the child of an edge is where its target ends; `Answer`
  that a result still holds when it is applied, after the graph has changed.
* `PdfBare`: what ends in `.pdf` shows no candidates.  `Arrivals` adds that the arrival context names the last
  edge followed and its child, and that no node whose URL ends in `.pdf` is worked on but the one arrived
  at.  A resumption leaves the context stale, but resumes only where something is pending, which no
  such node has.
* `NothingForgotten` has the longest list of conditions because the code does lose candidates otherwise: the
  seeding takes the `BranchingFactor` best, skips a target that another point holds, and the scan is
  bounded.  The invariant `Held` says where a candidate is kept meanwhile:

      Held == Waiting /\ Leaving /\ (pc = "fail" => current \in graph.exhausted) /\ ...

  A choice point holds every pending edge of every node that was left (`Waiting`), and of the node about
  to be left all but the edge being followed (`Leaving`).  The root is excepted: it is resumed as the
  last resort (`RootAvailable`).  With `NoPointLeft` it follows that a run that fails has nothing pending.
* `FollowsNoFile`: there are no PDFs, or they may not be downloaded.  `_apply_follow_edge` drops the download of a PDF followed
  as a link (section 6).  `Delivery` says which of page and download each action delivers, and
  `OpenedIsDownloaded` that an opened artifact is the file downloaded for its node, without
  which a validation could record another file than the one it judged.
* `PerceivesNoYear`: navigation perception is off or finds no evidence for a dated condition, for it does not
  reprioritise (section 6).  `Ranked` says that every choice point carries the priority of the years
  pending now, for as long as one is; it survives evidence that covers a year because every other
  way to register it reprioritises in the same step.  `SmallScores`: base scores stay below 100.
* `LongRun` is `MaxSteps > 10 * edges + 14 * pages + 7`, where the edges are the candidates the site shows.
  The measure `Todo` counts the edges not closed yet, those that are or may get a choice point, the
  nodes not exhausted and the nodes not judged.  None of the four ever grows (`Shrinks`): an edge stays closed,
  a registered node is not registered again, and a choice point is seeded only for an
  edge that is pending.  A turn of the loop has seven steps and takes seven off the measure: it closes an edge,
  gives up a node or judges one (`UpdatePays`), except that an opened artifact exhausts its node only in
  `advance_branch` (`Opening`); a resumed choice point whose edge was closed meanwhile starts a turn of
  three and takes three off.  The invariant `Paced` adds up the steps taken, the measure and what the current
  turn may still use:  `steps + Todo + 2 <= Most + n`, with `n` by the state of the engine.
  The hypotheses are needed: a `refine_navigation_perception` changes nothing and may be repeated
  (`NoRefine`), as may a validation that comes to no verdict (`Conclusive`), and there only
  the budget ends the run; a search resets what was seen.  With the 256 steps of the code the theorem
  covers sites of ten pages and ten candidates; on a larger one the budget may end a run that still has
  something to try.

For the calls (`ModelCall_proofs`), for any number of callers, threads and calls, and any profiles:

| theorem | statement |
|---|---|
| `LedgerAlwaysAgrees` | `Spec => []LedgerAgrees` |
| `RowsStayFrozen` | `Spec => RowFrozen` |
| `AnswersAreOwn` | `Spec => OwnAnswer` |
| `OnlySupported` | `Spec => []NothingUnsupported` |
| `NothingAbandonedWaits` | `Spec => []NoOrphanQueued` |
| `WellTyped` | `Spec => []TypeOK` |

    IInv == CallTypes /\ InFlight /\ Unasked /\ LedgerAgrees

`InFlight` gives a call under way an open row, or none if it is not recorded, and no end; `Unasked` keeps the
numbers not used yet free of rows.  Without them `LedgerAgrees` is not kept when a call ends.
`OnlySupported` needs only what `Runtime` makes of a configuration (`PlannedIsSupported`).

    Pool == PoolTypes /\ Begun /\ Queued

`NoOrphanQueued` is kept by a timeout only if `future.cancel()` removes all there is of the call: `Queued` says that a
task is queued once, for a caller that waits for it, and not begun as well, and `Begun` that what a thread
has begun was handed over, so that the next call of the same caller is a new task.  With it the
types follow, the number of busy threads among them.

For a node (`Perception_proofs`), for any contents, settings, files and searches:

| theorem | statement |
|---|---|
| `ResultStaysCurrent` | `Spec => []ResultCurrent` |
| `OnlyTheSeenIsJudged` | `Spec => []JudgesWhatItSaw` |
| `DroppedForGood` | `Spec => []ScreenshotDropped` |
| `AdviceAlwaysSound` | `Spec => []AdviceSound` |
| `AlwaysEscalates` | `Spec => []PassesEscalate` |
| `BudgetAlwaysKept` | `Spec => []BudgetKept` |
| `WellTyped` | `Spec => []TypeOK` |

    IInv == Shown /\ Exchange

`Shown` relates the registers of the node at each stage: after a search the inspection and the result of
the search agree except while the node is about to be inspected, and without one the node
shows its page.  `Exchange` ties what was handed over to what was inspected as long as an answer is
out.  `AlwaysEscalates` has an invariant of its own, `Escalating`: the pass that is chosen is a level
above all those before it, each of which asked for more.

    Budgeted == request \in Request /\ history \in Seq(Result(Nat)) /\ BudgetKept /\ Affordable

`BudgetKept` is kept when a pass resolves only because the pass was affordable when it was chosen: `Affordable`
says that what the pass under way costs still fits.  A window is no wider than what is left of the
budget (`WindowAffords`), pattern and visual passes cost nothing, and a first page fits into any budget.
What the passes have read so far, `Consumed`, is a recursive function over the history.  That it
is a sum at all, and grows by what is appended, is shown by taking the least place at which it would
not be (`SumsExist`, `SumsAgree`, `ConsumedGrows`, from `LeastNumber`), for an induction theorem cannot be
cited.  `WellTyped` rests on both invariants: as the levels of the passes rise strictly, there
are at most four (`FewPasses`).

Only model-checked: the liveness properties (`EveryJobAnswered`, `Termination`, `EveryCallEnds`,
`PerceptionEnds`), which no installed prover takes.  Every invariant and every action property of the
passing runs is also stated by a theorem.

## 5. Plan

1. `DecisionGuards` (the order of the guards and the fallback against the relation used in
   `DecideAction`) and `GoalEvaluator` (counting with `min_count` and duplicate evidence), each
   against a reference definition over bounded inputs.
2. `GoalPlanner` (`application/services/goals/planner.py`: proposals, their versions and
   revisions, as the planning service uses them) and `Download`
   (`adapters/web_browser/content_probe.py`, `tool.py`: probe, redirect, download).
3. A refinement of the constants of `GraphMapper` by the modules behind them: `Verdicts` by
   `GoalValidation`, `Visual` and `ReturnHints` by `Perception`.

## 6. Where the code and its documents disagree

Four runs end in a counterexample; `PROJECT.json` quotes the lines.

* `_resolve_content_owner_node` returns the last owner, which no resumption
  resets: a file opened from another node is filed under the wrong one (`DatedOwner`).
* `job_snapshot` judges a copy of the row against a future it looks at later: a job
  that completes in between is marked as aborted, and its result is not shown (`JobAborted`).
* `process_plan_turn` commits a copy taken before the model was asked: a turn of
  another tab that committed meanwhile is forgotten, in memory and, for the plan, in
  the ledger (`TurnLost`).
* The window of a validation takes no account of the pages a file has.  A PDF of one page without
  text (a scan) is judged inconclusive on its first page, the window asks for the second, and the
  `ValueError` of the reader ends the run, with either executor (`OnePagePdf`).

Four more were found in the same way.  Two of them contradict a property of section 3 on a site
where the run of that property does not go, and the actions that show them are in `GraphMapper`.

* `_apply_follow_edge` reads only the inspection: the download and the verdict of a PDF that
  was followed as a link are dropped (`AcceptedIsRecorded` with the site of `Dated`).
* Navigation perception registers evidence without reprioritising, so that choice points go
  on being ranked by a year already covered (`PrioritiesCurrent` on pages that perception may accept).
* `safe_rebuild_path` keeps a path that does not contain the origin: after a resumption its tip is
  another node than the current one, and the prompt shows the URL of the tip.
* `guard_no_candidates` passes an `open_artifact` with any edge the model names (`fail.py:63`), and
  `resolve_edge_guardrail` asks only that the graph has it.  The prompt shows edges of other nodes as
  recoverable choice points and says "Never choose edge_id from RECOVERABLE CHOICE POINTS."
  (`prompts.py:350`), but at a node without candidates nothing enforces it, and the artifact of another
  node is opened without any navigation.  TLC reaches such a step on the site of `Tree`:
  `open_artifact` with an edge neither from nor to the current node.  The properties of `Tree` hold
  of these runs, too.

Other limits met while modelling, kept here and not as runs of their own.  A
choice point whose edge proved useful meanwhile is executed once more.  Only the best
open anchor is examined, so an anchor with pending edges can remain when a run
fails.  A failed search leaves no trace and may be repeated.  A candidate that was not
seeded, because another node holds a choice point for its target, is lost when
its node is exhausted and that point turns out unusable.  A page other than the root with
more than `branching_factor + 1` candidates loses the rest once its choice points are
used up: no choice point leads back to the page itself.  An edge followed again
that lands at a new URL re-registers the old child, whose former URL stays in the index.

Of perception and validation.  A node that has its verdict is not validated again when a search has
replaced its content: the search keeps that memory on purpose (`graph_updater.py:953`), although the
key it compares is of the evidence, and the reason it gives is `same_context_blocked`.
`_recover_candidates_from_visual_hints` leaves out the first candidates of the page, while the prompt shows
those that a ranking selects: a candidate that is hinted at, is among the first and was not
selected is never recovered.  The heuristics that stand in for a model may recommend the validation
of a judged node, which only the answer of a model is corrected for.  An opened scan uses up its budget
of three pages in the first two passes (1 + 2), so neither the patterns nor the picture of a page
are ever tried, while a downloaded file gets both.  With `document_validation_mode` deterministic an
inspected page, whose budget is one page, is never accepted.  A downloaded file that is no PDF is asked
about without any text.  A model that fails in a validation ends the run, where
`docs/decider_vs_perception.md:494` says that one capability can degrade "without losing the full
workflow".

Of the runtimes.  Only the builder of Ollama passes the configured timeout on; the ones of LM Studio and
OpenRouter leave 180 and 250 seconds, where `docs/llm_runtime.md:734` says "in the OpenAI-compatible base
runtime it is used for execution timeout handling".  Two of the backends a profile may name have no policy and reject
the run.  `resolve_defaults` drops the output mode chosen for LM Studio.  The runtimes for visual
extraction and OCR are built and never called.  The calls of the planner and of the coverage check are not in the
ledger, and a failing coverage check is swallowed.

Of the service: a run that was cut off, by a restart, by an exception that is not
an `Exception` or by a failed write, keeps the status `running` in the ledger, and nothing
closes it later.  A turn sent after a restart without loading the session starts from the profile.
The evaluation of a run knows a label `partial` for an exhausted exploration, but
`final_status` is only ever `success` or `fail`, so a run that failed is rated `unknown`
with a score of 0.75.  `_extract_validated_evidence` uses the name `request`, which is
not defined there, inside a `try` that hides it.

## 7. Not modelled

Page classification and ranking (the model allows any score), the node view and
prompts (projections to text), the adapters of the browser (their outcomes are constants),
the encoding of requests and the parsing of answers of language models (an answer is good or not), the
extraction of evidence after a validation (its result is only reported), the MCP interface and the
interactive menu (thin callers of the runner), the goal planner (its answer is a plan with or without
structure), the tables of the ledger that the program never reads back (evidence, run
steps, and of LLM calls all but their status), and the summary and synthesis of an answer.
