----------------------------- MODULE GraphMapper -----------------------------
(***************************************************************************)
(* The exploration loop of one run: the state machine of                   *)
(* runtime/transitions.py driven by navigation/runtime/engine.py, with one *)
(* action per step of runtime/nodes/graph_mapper_nodes.py, the executor of *)
(* application/services/execution/ and the reducer of graph_updater.py.    *)
(*                                                                         *)
(*   inspect_node -> classify_node -> build_node_view -> decide_action     *)
(*        ^                              ^  refine |          |            *)
(*        |                              +---------+   execute_action      *)
(*   advance_branch <- update_graph <--------------------+  |              *)
(*        |  +-- choice point: execute_action directly      v              *)
(*        +-------------------------------> fail          success          *)
(*                                                                         *)
(* The web, the perception models and the decider are the environment:     *)
(* they answer with anything the constants below allow.                    *)
(***************************************************************************)
EXTENDS ScopePolicy, Sequences

CONSTANTS
  Links,           \* Url -> targets an inspection of the page shows
  Revealed,        \* Url -> further targets shown when the page is a search result
  Visual,          \* Url -> targets only navigation perception sees
  Landing,         \* Url -> URLs a request for it may end at
  Pdf,             \* URLs that serve a PDF
  DotPdf,          \* URLs that end in .pdf, whatever they serve
  Opaque,          \* URLs whose kind the probe cannot tell
  Direct,          \* candidates that look like a direct artifact
  Readable,        \* URLs whose inspection yields text or a screenshot
  SearchTo,        \* Url -> pages a search from the page may end at
  Query,           \* search queries the decider knows
  Verdicts,        \* Url -> outcomes of validating the content found there
  Evidence,        \* Url -> conditions a positive verdict on the content matches
  MinCount,        \* Cond -> max(1, min_count)
  ReturnHints,     \* strategic returns navigation perception may suggest (see Hint)
  Decisions,       \* the actions the decider uses
  AllowDownload,   \* allow_artifact_download
  MaxSteps         \* max_steps of the engine

Actions == {"follow_edge", "download_artifact", "open_artifact",
            "validate_current_content", "search_with_text",
            "refine_navigation_perception", "mark_exhausted", "success"}

(* A NavigationPerceptionResult: back is strategic_return_suggested.        *)
Hint   == [back : BOOLEAN, prio : Nat]
NoHint == [back |-> FALSE, prio |-> 0]

Verdict == {"none", "negative", "positive"}  \* none: local perception did not run

ASSUME GraphMapperAssumption ==
  /\ Links \in [Url -> SUBSET Url] /\ Revealed \in [Url -> SUBSET Url]
  /\ Visual \in [Url -> SUBSET Url]
  /\ Landing \in [Url -> SUBSET Url] /\ \A u \in Url : Landing[u] # {}
  /\ SearchTo \in [Url -> SUBSET Url]
  /\ Pdf \subseteq Url /\ DotPdf \subseteq Url /\ Opaque \subseteq Url \ Pdf
  /\ Direct \subseteq Url /\ Readable \subseteq Url
  /\ Verdicts \in [Url -> SUBSET Verdict] /\ \A u \in Url : Verdicts[u] # {}
  /\ Evidence \in [Url -> SUBSET Cond]
  /\ MinCount \in [Cond -> Nat \ {0}]
  /\ ReturnHints \subseteq Hint
  /\ Decisions \subseteq Actions
  /\ AllowDownload \in BOOLEAN /\ MaxSteps \in Nat \ {0}

(* A page as an inspection or a search delivers it.                         *)
Page   == [url : Url, revealed : BOOLEAN]
NoPage == [url |-> NoUrl, revealed |-> FALSE]
Candidates(page) ==
  Links[page.url] \cup (IF page.revealed THEN Revealed[page.url] ELSE {})

Finding == [cond : Cond, src : Url, node : Node]

(* DynamicGoalEvaluator: a condition needs enough distinct evidence keys.   *)
Satisfied_PerRecord(findings) ==  \* mutant: evidence filed twice counts twice
  {c \in Cond : Cardinality({g \in findings : g.cond = c}) >= MinCount[c]}
Satisfied(findings) ==
  {c \in Cond : Cardinality({f.src : f \in {g \in findings : g.cond = c}}) >= MinCount[c]}

Decision   == [action : Actions, edge : Edge \cup {NoEdge}, query : Query \cup {NoUrl}]
NoDecision == [action |-> "mark_exhausted", edge |-> NoEdge, query |-> NoUrl]

Result   == [status : {"ok", "failed"}, page : Page \cup {NoPage}, download : MaybeUrl,
             verdict : Verdict, create : BOOLEAN]
NoResult == [status |-> "ok", page |-> NoPage, download |-> NoUrl,
             verdict |-> "none", create |-> FALSE]
Failure  == [NoResult EXCEPT !.status = "failed"]

VARIABLES
  pc,           \* state of the engine
  steps,        \* its step_index
  clock,        \* runtime.step_count: inspections so far
  graph,        \* runtime.graph
  inspection,   \* inspection_result_by_node
  searched,     \* search_result_by_node (a key here is a frozen DOM snapshot too)
  queries,      \* search_history_by_node
  download,     \* download_result_by_node, as the URL of the file
  artifact,     \* artifact_result_by_node, likewise
  lastDownload, \* last_download_result when it has a local file
  judged,       \* nodes with a payload in goal_validation_payload_by_node
  perception,   \* navigation_perception_by_node, {} or {hint}
  current,      \* runtime.current_node_id
  scope,        \* scope.current_node_id of the single scope
  arrival,      \* scope.current_arrival_context_id: node and via_edge
  owner,        \* current_content_owner_node_id
  path,         \* active_path.steps
  points,       \* open choice points
  anchors,      \* strategic_anchor_points
  findings,     \* findings that match a condition
  decision,     \* last_decision
  result        \* _action_result

memory  == <<inspection, searched, queries, download, artifact, lastDownload, judged>>
focus   == <<current, scope, arrival, owner, path>>
options == <<points, anchors>>
vars == <<pc, steps, clock, graph, memory, perception, focus, options, findings, decision, result>>

Working  == {"inspect_node", "classify_node", "build_node_view", "decide_action",
             "execute_action", "update_graph", "advance_branch"}
Terminal == {"success", "fail"}
Ended    == {"ended_success", "ended_fail", "raised"}

TypeOK ==
  /\ pc \in Working \cup Terminal \cup Ended
  /\ steps \in 0..MaxSteps /\ clock \in Nat
  /\ graph \in GraphType
  /\ inspection \in [Node -> Page \cup {NoPage}] /\ searched \in [Node -> Page \cup {NoPage}]
  /\ queries \in [Node -> SUBSET Query]
  /\ download \in [Node -> MaybeUrl] /\ artifact \in [Node -> MaybeUrl]
  /\ lastDownload \in MaybeUrl /\ judged \subseteq Node
  /\ perception \in [Node -> SUBSET Hint]
  /\ current \in Node /\ scope \in Node /\ owner \in MaybeUrl
  /\ arrival \in [node : Node, edge : Edge \cup {NoEdge}]
  /\ path \in Seq(Step)
  /\ points \subseteq Point /\ anchors \in [Node -> Anchor]
  /\ findings \subseteq Finding
  /\ decision \in Decision /\ result \in Result

(* The state after bootstrap, which is the engine's first step: the entry   *)
(* URL is the root node, the current node and the first path step.          *)
Init ==
  /\ pc = "inspect_node" /\ steps = 1 /\ clock = 0
  /\ graph = RegisterNode(EmptyGraph, EntryUrl, EntryUrl)
  /\ inspection = [n \in Node |-> NoPage] /\ searched = [n \in Node |-> NoPage]
  /\ queries = [n \in Node |-> {}]
  /\ download = [n \in Node |-> NoUrl] /\ artifact = [n \in Node |-> NoUrl]
  /\ lastDownload = NoUrl /\ judged = {}
  /\ perception = [n \in Node |-> {}]
  /\ current = EntryUrl /\ scope = EntryUrl /\ owner = NoUrl
  /\ arrival = [node |-> EntryUrl, edge |-> NoEdge]
  /\ path = << <<EntryUrl, 0>> >>
  /\ points = {} /\ anchors = [n \in Node |-> NoAnchor]
  /\ findings = {} /\ decision = NoDecision /\ result = NoResult

(* One iteration of StateMachineEngine.execute: the bound is tested before  *)
(* the step of the state runs.                                              *)
At_Unbounded(state) == pc = state /\ steps' = steps + 1  \* mutant
At(state) == pc = state /\ steps < MaxSteps /\ steps' = steps + 1

Overrun_OffByOne == steps > MaxSteps  \* mutant
Overrun == steps >= MaxSteps

StepLimit ==
  /\ pc \in Working \cup Terminal /\ Overrun
  /\ pc' = "raised"
  /\ UNCHANGED <<steps, clock, graph, memory, perception, focus, options, findings,
                 decision, result>>

(* A port call that raises ends the run: the engine re-raises.              *)
PortFailure ==
  /\ \E s \in {"inspect_node", "build_node_view", "decide_action", "execute_action"} : At(s)
  /\ pc' = "raised"
  /\ UNCHANGED <<clock, graph, memory, perception, focus, options, findings, decision, result>>

Conditions == Satisfied(findings)
Tip(steps_) == IF steps_ = <<>> THEN <<NoUrl, 0>> ELSE steps_[Len(steps_)]

(* resolve_node_observation_snapshot: a search result hides an inspection.  *)
Snapshot(n) == IF searched[n] # NoPage THEN searched[n] ELSE inspection[n]

---------------------------------------------------------------------------
(* inspect_node: reuse the snapshot of the node, else inspect its URL; the  *)
(* candidates become edges.                                                 *)
Observe(page) ==
  /\ clock' = clock + 1
  /\ inspection' = [inspection EXCEPT ![current] = page]
  /\ graph' = MarkInspected(Merge(graph, current, Candidates(page)), current)

InspectSnapshot == Snapshot(current) # NoPage /\ Observe(Snapshot(current))

InspectPage ==
  /\ Snapshot(current) = NoPage /\ current \notin graph.inspected
  /\ \E v \in Landing[graph.url[current]] : Observe([url |-> v, revealed |-> FALSE])

InspectNode ==
  /\ At("inspect_node") /\ pc' = "classify_node"
  /\ InspectSnapshot \/ InspectPage
  /\ UNCHANGED <<searched, queries, download, artifact, lastDownload, judged, perception,
                 focus, options, findings, decision, result>>

(* classify_node writes page_type only, which no property depends on.       *)
ClassifyNode ==
  /\ At("classify_node") /\ pc' = "build_node_view"
  /\ UNCHANGED <<clock, graph, memory, perception, focus, options, findings, decision, result>>

(***************************************************************************)
(* build_node_view: navigation perception runs at most once per node (a    *)
(* search resets it); it may see further targets, propose the node as a    *)
(* strategic anchor and validate the inspected content.  The node is       *)
(* registered as an anchor on every view, from the stored result.          *)
(***************************************************************************)
MayPerceive(n)  == perception[n] = {} /\ (searched[n] # NoPage \/ PendingEdges(graph, n) # {})
MustPerceive(n) == perception[n] = {} /\ searched[n] # NoPage

Register(n, hints, g) ==
  IF hints = {} \/ \A h \in hints : ~ h.back THEN anchors
  ELSE RegisterAnchor(anchors, g, n, (CHOOSE h \in hints : TRUE).prio, Tip(path))

Matches(src, n, verdict) ==
  IF verdict = "positive" THEN {[cond |-> c, src |-> src, node |-> n] : c \in Evidence[src]}
  ELSE {}

ViewKnownNode ==
  /\ ~ MustPerceive(current)
  /\ anchors' = Register(current, perception[current], graph)
  /\ UNCHANGED <<graph, perception, judged, findings>>

(* _handle_current_node_match: at most one validation per node, and unlike  *)
(* the reducer it does not reprioritise the choice points.                  *)
PerceivedVerdicts(n) ==
  IF n \in judged \/ inspection[n].url \notin Readable THEN {"none"}
  ELSE Verdicts[inspection[n].url]

ViewPerceivedNode ==
  /\ MayPerceive(current)
  /\ \E hint \in ReturnHints, extra \in SUBSET Visual[graph.url[current]],
        verdict \in PerceivedVerdicts(current) :
       /\ perception' = [perception EXCEPT ![current] = {hint}]
       /\ graph' = Merge(graph, current, extra)
       /\ anchors' = Register(current, {hint}, graph')
       /\ judged' = judged \cup {n \in {current} : verdict # "none"}
       /\ findings' = findings \cup Matches(inspection[current].url, current, verdict)

BuildNodeView ==
  /\ At("build_node_view") /\ pc' = "decide_action"
  /\ ViewKnownNode \/ ViewPerceivedNode
  /\ UNCHANGED <<clock, inspection, searched, queries, download, artifact, lastDownload, focus,
                 points, decision, result>>

(***************************************************************************)
(* decide_action.  The decider (an LLM behind the guards of                *)
(* decision/llm_pipeline.py, or the heuristic engine) may choose any       *)
(* action those guards let through for the node view.                      *)
(***************************************************************************)
(* build_validation_target_for_node: artifact, else download, else page.    *)
Target(n) ==
  IF artifact[n] # NoUrl THEN artifact[n]
  ELSE IF download[n] # NoUrl THEN download[n]
  ELSE IF inspection[n].url \in Readable THEN inspection[n].url ELSE NoUrl

(* current_node_validation_capability: a node with a recorded verdict is    *)
(* not validated again.                                                     *)
CanValidate(n) == Target(n) # NoUrl /\ n \notin judged

(* current_node_looks_like_pdf_leaf: such a node is opened by its arrival   *)
(* edge (guard_pdf_leaf) unless the decider asked to fail (guard_fail).     *)
PdfLeaf(n) ==
  /\ graph.url[n] \in DotPdf /\ PendingEdges(graph, n) = {}
  /\ ~ CanValidate(n) /\ arrival.edge # NoEdge

EdgeDecisions(n) ==
  ({"follow_edge"} \X PendingEdges(graph, n))
  \cup ({"download_artifact", "open_artifact"} \X (PendingEdges(graph, n) \cap Direct))

(* The reducer's view of a decision: finalize_decision_payload.             *)
Decide(action, edge, query) ==
  /\ action \in Decisions
  /\ decision' = [action |-> action, edge |-> edge, query |-> query]

(* seed_choice_points_from_non_selected_candidates                          *)
Seed(chosen) ==
  \E S \in SeedChoices(points, PendingEdges(graph, current), chosen, PendingYears(Conditions)) :
    points' = points \cup SeedPoints(scope, S, Tip(path), PendingYears(Conditions))

DecideEdge ==
  /\ ~ PdfLeaf(current)
  /\ \E d \in EdgeDecisions(current) :
       Decide(d[1], <<current, d[2]>>, NoUrl) /\ Seed(d[2])

(* Without candidates guard_no_candidates lets an open_artifact through     *)
(* with whatever edge the decider named; resolve_edge_guardrail only asks   *)
(* that the graph has it.  A PDF leaf, for which guard_pdf_leaf answers     *)
(* first, gets its arrival edge.                                            *)
DecideOpenLeaf ==
  /\ PendingEdges(graph, current) = {}
  /\ \E e \in Edge :
       /\ graph.edge[e] # "absent" /\ (PdfLeaf(current) => e = arrival.edge)
       /\ Decide("open_artifact", e, NoUrl)
  /\ UNCHANGED points

DecideValidate ==
  /\ CanValidate(current)
  /\ Decide("validate_current_content", NoEdge, NoUrl) /\ UNCHANGED points

DecideSearch ==
  /\ ~ PdfLeaf(current) /\ SearchTo[graph.url[current]] # {}
  /\ \E q \in Query \ queries[current] : Decide("search_with_text", NoEdge, q)
  /\ UNCHANGED points

DecideRefine ==
  /\ ~ PdfLeaf(current) /\ ReturnHints # {}
  /\ Decide("refine_navigation_perception", NoEdge, NoUrl) /\ UNCHANGED points

(* mark_exhausted is always possible: guard_fail, the guardrails of         *)
(* decide_helpers.py and several guards degrade a decision to it.           *)
DecideExhausted == Decide("mark_exhausted", NoEdge, NoUrl) /\ UNCHANGED points

(* guard_success passes only when every condition is satisfied.             *)
DecideSuccess ==
  /\ ~ PdfLeaf(current) /\ TerminalRoute(Conditions) = "success"
  /\ Decide("success", NoEdge, NoUrl) /\ UNCHANGED points

DecideAction ==
  /\ At("decide_action") /\ pc' = "execute_action"
  /\ \/ DecideEdge \/ DecideOpenLeaf \/ DecideValidate \/ DecideSearch
     \/ DecideRefine \/ DecideExhausted \/ DecideSuccess
  /\ UNCHANGED <<clock, graph, memory, perception, focus, anchors, findings, result>>

(***************************************************************************)
(* execute_action: the ports answer; an HTTP error, a blocked PDF and an   *)
(* ambiguous resource come back as failures, which the reducer handles.    *)
(***************************************************************************)
Execute(action) == At("execute_action") /\ decision.action = action

(* inspect_edge: the snapshot of a known node replaces the request.         *)
Fetched(u, v) ==
  LET known == IF graph.index[v] # NoUrl THEN graph.index[v] ELSE graph.index[u]
  IN  IF known # NoUrl /\ Snapshot(known) # NoPage THEN Snapshot(known)
      ELSE [url |-> v, revealed |-> FALSE]

(* maybe_auto_persist_validated_artifact: a page that was accepted may be   *)
(* downloaded from the edge's target at once (by mode, and when edge or     *)
(* page looks like a file); no reducer reads this download.                 *)
Persisted(r) == AllowDownload /\ r.verdict = "positive"

(* What a delivered file, and a page reached by the edge to u, hand back.   *)
Delivered(u) == {[NoResult EXCEPT !.download = u, !.verdict = w] : w \in Verdicts[u]}

Inspections(page) ==
  {[NoResult EXCEPT !.page = page, !.verdict = w] :
     w \in IF page.url \in Readable THEN Verdicts[page.url] ELSE {"none"}}

Visited(u, page) ==
  Inspections(page) \cup {[r EXCEPT !.download = u] : r \in {s \in Inspections(page) : Persisted(s)}}

(* follow_edge_with_probe, for a request for u that ends at v.              *)
FollowResults(u, v) ==
  IF v \in Pdf THEN {Failure} \cup (IF AllowDownload THEN Delivered(v) ELSE {})
  ELSE IF v \in Opaque THEN {Failure} ELSE Visited(u, Fetched(u, v))

Responds(r) ==
  /\ result' = r /\ lastDownload' = r.download
  /\ UNCHANGED <<clock, graph, inspection, searched, queries, download, artifact, judged,
                 perception, focus, options, findings, decision>>

ExecuteFollow ==
  /\ Execute("follow_edge") /\ pc' = "update_graph"
  /\ \E v \in Landing[decision.edge[2]] : \E r \in FollowResults(decision.edge[2], v) : Responds(r)

(* download_artifact_for_edge and open_artifact_for_edge; opening reuses    *)
(* the file of the last download of the same URL and then cannot fail.      *)
ExecuteDownload ==
  /\ Execute("download_artifact") /\ pc' = "update_graph"
  /\ \E r \in {Failure} \cup Delivered(decision.edge[2]) : Responds(r)

ExecuteOpen ==
  /\ Execute("open_artifact") /\ pc' = "update_graph"
  /\ \E r \in Delivered(decision.edge[2])
           \cup {f \in {Failure} : lastDownload # decision.edge[2]} : Responds(r)

(* A verdict on a file hands the download result back.                      *)
ExecuteValidate ==
  /\ Execute("validate_current_content") /\ pc' = "update_graph"
  /\ \E w \in Verdicts[Target(current)] :
       Responds([NoResult EXCEPT !.verdict = w,
                                 !.download = IF w = "none" THEN NoUrl ELSE download[current]])

(* search_with_text; create is _search_should_create_new_node, which only a *)
(* result equal to the previous inspection can leave open.  A search        *)
(* without effect is a failure already here (_resolve_search_outcome), by   *)
(* every test for which the reducer would ignore it.                        *)
SearchResult(v, create) ==
  [NoResult EXCEPT !.page = [url |-> v, revealed |-> TRUE], !.create = create]

ExecuteSearch ==
  /\ Execute("search_with_text") /\ pc' = "update_graph"
  /\ \/ Responds(Failure)
     \/ \E v \in SearchTo[graph.url[current]], create \in BOOLEAN :
          /\ SearchResult(v, create).page # inspection[current] => create
          /\ Responds(SearchResult(v, create))

ExecuteExhausted ==
  /\ Execute("mark_exhausted") /\ pc' = "update_graph" /\ Responds(NoResult)

ExecuteSuccess ==
  /\ Execute("success") /\ pc' = "success" /\ Responds(NoResult)

(* execute_refine_navigation_perception: run_explicit is gated by the same  *)
(* trigger as the implicit run, so it never perceives again.                *)
ExecuteRefine ==
  /\ Execute("refine_navigation_perception") /\ pc' = "build_node_view" /\ Responds(NoResult)

(***************************************************************************)
(* update_graph: GraphUpdater.apply_action_result.                         *)
(***************************************************************************)
Update(action, status) ==
  /\ At("update_graph") /\ pc' = "advance_branch"
  /\ decision.action = action /\ result.status = status

(* _try_extract_and_register_finding: the payload is recorded for the node  *)
(* that owns the content; a registered finding reprioritises.               *)
Validated_Once(src, n) ==  \* mutant: a judged node takes no further verdict
  /\ judged' = judged \cup {m \in {n} : result.verdict # "none"}
  /\ findings' = findings \cup IF n \in judged THEN {} ELSE Matches(src, n, result.verdict)
Validated(src, n) ==
  /\ judged' = judged \cup {m \in {n} : result.verdict # "none"}
  /\ findings' = findings \cup Matches(src, n, result.verdict)

Reprioritized_Before == points' = Reprioritize(points, PendingYears(Conditions))  \* mutant
Reprioritized == points' = Reprioritize(points, PendingYears(Satisfied(findings')))

(* The arrival at a node becomes the focus and a path step.                 *)
Arrive_FirstContext(n, edge) ==  \* mutant: the first arrival is never replaced
  /\ current' = n /\ scope' = n /\ owner' = n
  /\ arrival' = IF arrival.edge = NoEdge THEN [node |-> n, edge |-> edge] ELSE arrival
  /\ path' = Append(path, <<n, clock>>)
Arrive(n, edge) ==
  /\ current' = n /\ scope' = n /\ owner' = n
  /\ arrival' = [node |-> n, edge |-> edge]
  /\ path' = Append(path, <<n, clock>>)

(* _apply_failed_action_result; only an edge can fail.                      *)
UpdateFailed ==
  /\ At("update_graph") /\ pc' = "advance_branch" /\ result.status = "failed"
  /\ graph' = IF decision.edge = NoEdge THEN graph ELSE MarkFailed(graph, decision.edge)
  /\ UNCHANGED <<clock, memory, perception, focus, options, findings, decision, result>>

(* _apply_follow_edge.  A PDF comes without an inspection: its download and *)
(* its verdict are dropped.                                                 *)
LandedUrl == IF result.page = NoPage THEN decision.edge[2] ELSE result.page.url

ProposedNode_Origin(e, u) == e[1]  \* mutant: the id of the origin is taken again
ProposedNode(e, u) == IF graph.child[e] = NoUrl THEN u ELSE graph.child[e]

UpdateFollow ==
  /\ Update("follow_edge", "ok")
  /\ LET e == decision.edge
         n == EnsuredNode(graph, ProposedNode(e, LandedUrl), LandedUrl)
         g == EnsureNode(graph, ProposedNode(e, LandedUrl), LandedUrl)
     IN  /\ graph' = MarkUseful([g EXCEPT !.child[e] = n], e)
         /\ Arrive(n, e)
         /\ IF result.page = NoPage
            THEN UNCHANGED <<inspection, judged, findings, points>>
            ELSE /\ inspection' = [inspection EXCEPT ![n] = result.page]
                 /\ Validated(result.page.url, n)
                 /\ IF result.verdict = "none" THEN UNCHANGED points ELSE Reprioritized
  /\ UNCHANGED <<clock, searched, queries, download, artifact, lastDownload, perception,
                 anchors, decision, result>>

(* _resolve_content_owner_node: the last content owner, not the edge's      *)
(* origin, receives the file.                                               *)
ContentOwner_Target == decision.edge[2]  \* mutant: a node that need not exist
ContentOwner == IF owner = NoUrl THEN current ELSE owner

(* _apply_download_artifact *)
UpdateDownload ==
  /\ Update("download_artifact", "ok")
  /\ graph' = MarkUseful(graph, decision.edge)
  /\ download' = [download EXCEPT ![ContentOwner] = result.download]
  /\ artifact' = [artifact EXCEPT ![ContentOwner] = NoUrl]
  /\ owner' = ContentOwner
  /\ Validated(result.download, ContentOwner) /\ Reprioritized
  /\ UNCHANGED <<clock, inspection, searched, queries, lastDownload, perception, current,
                 scope, arrival, path, anchors, decision, result>>

(* _apply_open_artifact *)
UpdateOpen ==
  /\ Update("open_artifact", "ok")
  /\ graph' = MarkUseful(graph, decision.edge)
  /\ download' = [download EXCEPT ![ContentOwner] = result.download]
  /\ artifact' = [artifact EXCEPT ![ContentOwner] = result.download]
  /\ owner' = ContentOwner
  /\ Validated(result.download, ContentOwner) /\ Reprioritized
  /\ UNCHANGED <<clock, inspection, searched, queries, lastDownload, perception, current,
                 scope, arrival, path, anchors, decision, result>>

(* _apply_validate_current_content: without a local perception nothing      *)
(* is recorded.                                                             *)
UpdateValidate ==
  /\ Update("validate_current_content", "ok")
  /\ owner' = IF result.verdict = "none" THEN owner ELSE current
  /\ Validated(Target(current), current)
  /\ IF result.verdict = "none" THEN UNCHANGED points ELSE Reprioritized
  /\ UNCHANGED <<clock, graph, inspection, searched, queries, download, artifact,
                 lastDownload, perception, current, scope, arrival, path, anchors,
                 decision, result>>

(* _apply_search_with_text: a result that differs from the page the node    *)
(* shows is a node of its own, found by its URL or new.                     *)
SearchNode ==
  IF result.create THEN EnsuredNode(graph, result.page.url, result.page.url) ELSE current

UpdateSearch ==
  /\ Update("search_with_text", "ok")
  /\ graph' = LET g == IF result.create THEN EnsureNode(graph, result.page.url, result.page.url)
                       ELSE graph
              IN  [g EXCEPT !.inspected = @ \ {SearchNode}]
  /\ inspection' = [inspection EXCEPT ![SearchNode] = result.page]
  /\ searched' = [searched EXCEPT ![SearchNode] = result.page]
  /\ queries' = [queries EXCEPT ![SearchNode] = @ \cup {decision.query}]
  /\ perception' = [perception EXCEPT ![SearchNode] = {}]
  /\ IF result.create THEN Arrive(SearchNode, NoEdge)
     ELSE owner' = current /\ UNCHANGED <<current, scope, arrival, path>>
  /\ UNCHANGED <<clock, download, artifact, lastDownload, judged, options, findings,
                 decision, result>>

(* _apply_mark_exhausted; that it also closes the path tip is not modelled, *)
(* nothing reads the status of a path step.                                 *)
UpdateExhausted ==
  /\ Update("mark_exhausted", "ok")
  /\ graph' = MarkExhausted(graph, scope)
  /\ UNCHANGED <<clock, memory, perception, focus, options, findings, decision, result>>

UpdateGraph ==
  \/ UpdateFailed \/ UpdateFollow \/ UpdateDownload \/ UpdateOpen \/ UpdateValidate
  \/ UpdateSearch \/ UpdateExhausted

(***************************************************************************)
(* advance_branch: decide_next of the policy and its application.  The     *)
(* single scope is always active, so the branches of the policy for a      *)
(* missing or terminal scope cannot be taken.                              *)
(***************************************************************************)
(* An opened artifact on a node without pending edges exhausts the node.    *)
Advanced ==
  IF decision.action = "open_artifact" /\ ~ HasPendingEdges(graph, scope)
  THEN MarkExhausted(graph, scope) ELSE graph

UsedUp == IF decision.action = "open_artifact" THEN ~ HasPendingEdges(graph, scope)
          ELSE scope \in graph.exhausted

Resumes(kind) ==
  {r \in Resumptions(points, anchors, Advanced, scope) : r.kind = kind}

(* safe_rebuild_path: an unknown origin leaves the path as it is.           *)
Rebuilt(origin) ==
  IF \E i \in 1..Len(path) : path[i] = origin
  THEN SubSeq(path, 1, CHOOSE i \in 1..Len(path) :
         path[i] = origin /\ \A j \in 1..(i - 1) : path[j] # origin)
  ELSE path

(* finalize_advance_branch refuses to inspect an exhausted node.            *)
InspectOrFail(n) == pc' = IF n \in graph'.exhausted THEN "fail" ELSE "inspect_node"

Focus(n) == current' = n /\ scope' = n /\ UNCHANGED <<arrival, owner>>

Continue ==
  /\ ~ UsedUp /\ InspectOrFail(scope) /\ Focus(scope)
  /\ UNCHANGED <<path, options, decision>>

ResumeAnchor ==
  /\ UsedUp
  /\ \E r \in Resumes("anchor") :
       /\ Focus(r.node) /\ InspectOrFail(r.node)
       /\ path' = Rebuilt(anchors[r.node].origin)
       /\ anchors' = [anchors EXCEPT ![r.node].status = "resumed"]
  /\ UNCHANGED <<points, decision>>

(* consume_choice_point *)
Consume_Keeps(p) == points  \* mutant
Consume(p) == points \ {p}

(* resume_via_choice_point: the saved edge is executed at once, whatever    *)
(* its status, unless it failed.                                            *)
ResumePoint ==
  /\ UsedUp
  /\ \E r \in Resumes("point") :
       /\ Focus(r.point.from)
       /\ points' = Consume(r.point)
       /\ path' = Rebuilt(r.point.origin)
       /\ IF graph.edge[<<r.point.from, r.point.to>>] = "failed"
          THEN InspectOrFail(r.point.from) /\ UNCHANGED decision
          ELSE /\ pc' = "execute_action"
               /\ decision' = [action |-> "follow_edge",
                               edge |-> <<r.point.from, r.point.to>>, query |-> NoUrl]
  /\ UNCHANGED anchors

RestartRoot ==
  /\ UsedUp /\ Resumes("root") # {}
  /\ Focus(EntryUrl) /\ InspectOrFail(EntryUrl)
  /\ path' = IF path = <<>> THEN path ELSE Rebuilt(path[1])
  /\ UNCHANGED <<options, decision>>

Stop ==
  /\ UsedUp /\ Resumes("stop") # {}
  /\ pc' = TerminalRoute(Conditions)
  /\ UNCHANGED <<focus, options, decision>>

AdvanceBranch ==
  /\ At("advance_branch")
  /\ graph' = Advanced
  /\ Continue \/ ResumeAnchor \/ ResumePoint \/ RestartRoot \/ Stop
  /\ UNCHANGED <<clock, memory, perception, findings, result>>

(* The terminal states run once; success re-evaluates the goals.            *)
Finish ==
  /\ \E s \in Terminal : At(s)
  /\ pc' = IF pc = "success" /\ (Cond = {} \/ TerminalRoute(Conditions) = "success")
           THEN "ended_success" ELSE "ended_fail"
  /\ UNCHANGED <<clock, graph, memory, perception, focus, options, findings, decision, result>>

(* A run that has ended stays so; anything else without a step is stuck.    *)
Terminated == pc \in Ended /\ UNCHANGED vars

ExecuteAction ==
  \/ ExecuteFollow \/ ExecuteDownload \/ ExecuteOpen \/ ExecuteValidate \/ ExecuteSearch
  \/ ExecuteExhausted \/ ExecuteSuccess \/ ExecuteRefine

Next ==
  \/ InspectNode \/ ClassifyNode \/ BuildNodeView \/ DecideAction \/ ExecuteAction
  \/ UpdateGraph \/ AdvanceBranch \/ Finish \/ StepLimit \/ PortFailure \/ Terminated

Spec == Init /\ [][Next]_vars

(* The engine is a loop in one thread: a run that can step does.            *)
FairSpec == Spec /\ WF_vars(Next)
=============================================================================
