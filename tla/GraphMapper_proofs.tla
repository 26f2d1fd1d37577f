------------------------- MODULE GraphMapper_proofs -------------------------
(***************************************************************************)
(* The exploration loop, for every site, decider and budget: its types,    *)
(* the agreement of the graph's redundant parts, that no exhausted node is *)
(* worked on, and that the verdict of a run is the verdict of its goals.   *)
(***************************************************************************)
EXTENDS GraphMapperProperties, ScopePolicy_proofs, WellFoundedInduction

EdgeActions == {"follow_edge", "download_artifact", "open_artifact"}

(* What a decision and a result must bring along for the step that reads    *)
(* them.                                                                    *)
DecisionReady ==
  /\ decision.action \in EdgeActions => decision.edge \in Edge
  /\ decision.action = "validate_current_content" => Target(current) # NoUrl
  /\ decision.action = "search_with_text" => decision.query \in Query
  /\ decision.action = "success" => TerminalRoute(Conditions) = "success"

ResultReady ==
  /\ decision.action \in {"download_artifact", "open_artifact"} => result.download \in Url
  /\ decision.action = "search_with_text" => result.page \in Page

(* No step between an inspection and the update of the graph runs at an     *)
(* exhausted node, and a node left by an opened artifact is exhausted only  *)
(* when it has nothing pending.                                             *)
FocusLive ==
  /\ pc \in Working \ {"advance_branch"} => current \notin graph.exhausted
  /\ pc = "advance_branch" /\ decision.action = "open_artifact"
       /\ scope \in graph.exhausted => ~ HasPendingEdges(graph, scope)

EndsRight ==
  /\ pc \in {"success", "ended_success"} => TerminalRoute(Conditions) = "success"
  /\ pc \in {"fail", "ended_fail"} => TerminalRoute(Conditions) = "fail"

(* Whatever exploration may resume at is a registered node. *)
Known(g, ps, as) ==
  /\ g.url[EntryUrl] # NoUrl
  /\ \A p \in ps : g.url[p.from] # NoUrl
  /\ \A n \in Node : as[n].status # "none" => g.url[n] # NoUrl

IInv ==
  /\ TypeOK
  /\ Sound(graph)
  /\ Known(graph, points, anchors)
  /\ FocusAgrees
  /\ pc \in {"execute_action", "update_graph"} => DecisionReady
  /\ pc = "update_graph" /\ result.status = "ok" => ResultReady
  /\ FocusLive
  /\ EndsRight

USE DEF Node

(* Options that are old or belong to the current node stay known while the  *)
(* graph keeps its nodes.                                                   *)
LEMMA KnownKept ==
  ASSUME IInv, NEW h, Keeps(graph, h), NEW ps \in SUBSET Point, NEW as \in AnchorsType,
         \A q \in ps : q.from = current \/ \E p \in points : p.from = q.from,
         \A n \in Node : as[n].status # "none" => n = current \/ anchors[n].status # "none"
  PROVE  Known(h, ps, as)
<1>1. \A q \in ps : q.from \in Node BY DEF Point
<1>2. graph.url[current] # NoUrl /\ current \in Node BY DEF IInv, FocusAgrees, TypeOK
<1> QED BY <1>1, <1>2, UrlAssumption DEF IInv, Known, Keeps

LEMMA InitIInv == Init => IInv
<1> SUFFICES ASSUME Init PROVE IInv
  OBVIOUS
<1> USE UrlAssumption, GraphMapperAssumption
<1>1. EmptyGraph.index[EntryUrl] = NoUrl BY DEF EmptyGraph
<1>2. Sound(graph) BY <1>1, EmptyGraphSound, RegisterNodeSound DEF Init
<1>3. graph.exhausted = {} /\ graph.url[EntryUrl] = EntryUrl
  BY DEF Init, RegisterNode, EmptyGraph
<1>4. TypeOK
  <2>1. path \in Seq(Step) BY DEF Init, Step, MaybeUrl
  <2>2. /\ NoDecision \in Decision /\ NoResult \in Result
        /\ NoAnchor \in Anchor
    BY DEF NoDecision, Decision, Actions, NoResult, Result, Verdict, NoPage, MaybeUrl,
           NoAnchor, Anchor, Step
  <2>3. graph \in GraphType BY <1>2 DEF Sound
  <2> QED BY <2>1, <2>2, <2>3 DEF Init, TypeOK, Working, MaybeUrl, NoEdge
<1>5. FocusAgrees /\ FocusLive /\ EndsRight
  BY <1>3 DEF Init, FocusAgrees, FocusLive, EndsRight
<1>6. Known(graph, points, anchors)
  BY <1>3 DEF Init, Known, NoAnchor
<1> QED BY <1>2, <1>4, <1>5, <1>6 DEF IInv, Init

LEMMA TipType == ASSUME NEW p \in Seq(Step) PROVE Tip(p) \in Step
BY UrlAssumption DEF Tip, Step, MaybeUrl

LEMMA SnapshotType == ASSUME TypeOK, NEW n \in Node PROVE Snapshot(n) \in Page \cup {NoPage}
BY DEF TypeOK, Snapshot

LEMMA CandidatesType == ASSUME NEW page \in Page PROVE Candidates(page) \subseteq Url
BY GraphMapperAssumption DEF Page, Candidates

StepsType == steps' \in 0..MaxSteps

LEMMA AtType == ASSUME TypeOK, NEW state, At(state) PROVE StepsType
BY GraphMapperAssumption DEF TypeOK, At, StepsType

(* Steps that only move the engine. *)
LEMMA EngineStep ==
  ASSUME IInv, ClassifyNode \/ StepLimit \/ PortFailure \/ Finish \/ Terminated
  PROVE  IInv'
<1> USE DEF memory, focus, options, vars
<1>1. TypeOK BY DEF IInv
<1>2. /\ UNCHANGED <<clock, graph, memory, perception, focus, options, findings, decision, result>>
      /\ StepsType /\ pc' \in Working \cup Terminal \cup Ended
  BY <1>1, AtType DEF ClassifyNode, StepLimit, PortFailure, Finish, Terminated, Working, Terminal,
                      Ended, StepsType, TypeOK
<1>3. TypeOK' BY <1>1, <1>2 DEF TypeOK, StepsType
<1>4. /\ Sound(graph') /\ Known(graph', points', anchors') /\ FocusAgrees'
      /\ Conditions' = Conditions
  BY <1>2 DEF IInv, FocusAgrees, Conditions
<1>5. FocusLive'
  BY <1>2 DEF ClassifyNode, StepLimit, PortFailure, Finish, Terminated, At, IInv, FocusLive,
              Working, Terminal, Ended
<1>6. EndsRight'
  BY <1>4 DEF ClassifyNode, StepLimit, PortFailure, Finish, Terminated, At, IInv, EndsRight,
              Terminal, Ended, TerminalRoute
<1>7. ~ (pc' \in {"execute_action", "update_graph"})
  BY DEF ClassifyNode, StepLimit, PortFailure, Finish, Terminated, Ended
<1> QED BY <1>3, <1>4, <1>5, <1>6, <1>7 DEF IInv

LEMMA InspectNodeStep == ASSUME IInv, InspectNode PROVE IInv'
<1> USE DEF memory, focus, options
<1>1. TypeOK /\ current \in Node /\ Sound(graph) BY DEF IInv, TypeOK
<1>2. PICK page \in Page : Observe(page)
  <2>1. CASE InspectSnapshot
    BY <2>1, <1>1, SnapshotType DEF InspectSnapshot
  <2>2. CASE InspectPage
    <3>1. graph.url[current] \in Url
      BY <1>1 DEF IInv, FocusAgrees, Sound, GraphType, MaybeUrl
    <3>2. Landing[graph.url[current]] \subseteq Url BY <3>1, GraphMapperAssumption
    <3> QED BY <2>2, <3>2 DEF InspectPage, Page
  <2> QED BY <2>1, <2>2 DEF InspectNode
<1>3. Sound(graph') /\ graph'.exhausted = graph.exhausted /\ graph'.url = graph.url
  BY <1>1, <1>2, CandidatesType, MergeSound, MarkNodeSound DEF Observe
<1>4. TypeOK'
  <2>1. StepsType BY <1>1, AtType DEF InspectNode
  <2>2. pc' \in Working BY DEF InspectNode, Working
  <2>3. inspection' \in [Node -> Page \cup {NoPage}] /\ clock' \in Nat
    BY <1>1, <1>2 DEF Observe, TypeOK
  <2> QED BY <1>1, <1>3, <2>1, <2>2, <2>3 DEF InspectNode, TypeOK, Sound, StepsType
<1>5. Known(graph', points', anchors')
  BY <1>3 DEF InspectNode, IInv, Known
<1> QED
  BY <1>3, <1>4, <1>5 DEF InspectNode, At, IInv, FocusAgrees, FocusLive, EndsRight, Working

LEMMA MatchesType ==
  ASSUME NEW src \in Url, NEW n \in Node, NEW w
  PROVE  Matches(src, n, w) \subseteq Finding
BY GraphMapperAssumption DEF Matches, Finding

LEMMA RegisterType ==
  ASSUME TypeOK, NEW hints \in SUBSET Hint, NEW g
  PROVE  /\ Register(current, hints, g) \in AnchorsType
         /\ \A m \in Node : Register(current, hints, g)[m].status # "none"
                            => m = current \/ anchors[m].status # "none"
<1>1. CASE hints = {} \/ \A h \in hints : ~ h.back
  BY <1>1 DEF Register, TypeOK, AnchorsType
<1>2. CASE ~ (hints = {} \/ \A h \in hints : ~ h.back)
  <2>1. (CHOOSE h \in hints : TRUE) \in Hint BY <1>2
  <2>2. (CHOOSE h \in hints : TRUE).prio \in Nat BY <2>1 DEF Hint
  <2>3. Tip(path) \in Step BY TipType DEF TypeOK
  <2>4. anchors \in AnchorsType /\ current \in Node BY DEF TypeOK, AnchorsType
  <2> HIDE DEF AnchorsType
  <2> QED BY <1>2, <2>2, <2>3, <2>4, RegisterAnchorType DEF Register
<1> QED BY <1>1, <1>2

LEMMA BuildNodeViewStep == ASSUME IInv, BuildNodeView PROVE IInv'
<1> USE DEF memory, focus, options
<1>1. TypeOK /\ current \in Node /\ Sound(graph) BY DEF IInv, TypeOK
<1>2. /\ Sound(graph') /\ graph'.exhausted = graph.exhausted /\ graph'.url = graph.url
      /\ anchors' \in AnchorsType /\ perception' \in [Node -> SUBSET Hint]
      /\ \A m \in Node : anchors'[m].status # "none" => m = current \/ anchors[m].status # "none"
      /\ judged' \subseteq Node /\ findings' \subseteq Finding
  <2>1. CASE ViewKnownNode
    <3>1. perception[current] \in SUBSET Hint BY <1>1 DEF TypeOK
    <3> QED BY <1>1, <2>1, <3>1, RegisterType DEF ViewKnownNode, TypeOK
  <2>2. CASE ViewPerceivedNode
    <3>1. PICK hint \in ReturnHints, extra \in SUBSET Visual[graph.url[current]],
               verdict \in PerceivedVerdicts(current) :
            /\ perception' = [perception EXCEPT ![current] = {hint}]
            /\ graph' = Merge(graph, current, extra)
            /\ anchors' = Register(current, {hint}, graph')
            /\ judged' = judged \cup {n \in {current} : verdict # "none"}
            /\ findings' = findings \cup Matches(inspection[current].url, current, verdict)
      BY <2>2 DEF ViewPerceivedNode
    <3>2. extra \in SUBSET Url
      BY <1>1, GraphMapperAssumption DEF IInv, FocusAgrees, Sound, GraphType, MaybeUrl
    <3>3. hint \in Hint BY GraphMapperAssumption
    <3>4. Matches(inspection[current].url, current, verdict) \subseteq Finding
      <4>1. CASE inspection[current].url \in Readable
        BY <1>1, <4>1, MatchesType, GraphMapperAssumption
      <4>2. CASE inspection[current].url \notin Readable
        BY <4>2 DEF PerceivedVerdicts, Matches
      <4> QED BY <4>1, <4>2
    <3>5. /\ anchors' \in AnchorsType
          /\ \A m \in Node : anchors'[m].status # "none"
                             => m = current \/ anchors[m].status # "none"
      BY <1>1, <3>1, <3>3, RegisterType
    <3>6. perception' \in [Node -> SUBSET Hint] BY <1>1, <3>1, <3>3 DEF TypeOK
    <3> QED BY <1>1, <3>1, <3>2, <3>4, <3>5, <3>6, MergeSound DEF TypeOK
  <2> QED BY <2>1, <2>2 DEF BuildNodeView
<1>3. StepsType BY <1>1, AtType DEF BuildNodeView
<1>4. TypeOK'
  BY <1>1, <1>2, <1>3 DEF BuildNodeView, TypeOK, Sound, StepsType, AnchorsType, Working
<1>5. Known(graph', points', anchors')
  <2>1. Keeps(graph, graph') /\ points' \in SUBSET Point
    BY <1>1, <1>2 DEF Keeps, BuildNodeView, TypeOK
  <2>2. \A q \in points' : \E p \in points : p.from = q.from BY DEF BuildNodeView
  <2> QED BY <1>2, <2>1, <2>2, KnownKept
<1> QED
  BY <1>2, <1>4, <1>5 DEF BuildNodeView, At, IInv, FocusAgrees, FocusLive, EndsRight, Working

LEMMA SeedType ==
  ASSUME TypeOK, FocusAgrees, NEW chosen, Seed(chosen)
  PROVE  /\ points' \subseteq Point
         /\ \A q \in points' : q.from = current \/ \E p \in points : p.from = q.from
<1> DEFINE years == PendingYears(Conditions)
<1>1. PICK S \in SeedChoices(points, PendingEdges(graph, current), chosen, years) :
        points' = points \cup SeedPoints(scope, S, Tip(path), years)
  BY DEF Seed
<1>2. S \in SUBSET Url BY DEF SeedChoices, Seedable, PendingEdges
<1>3. Tip(path) \in Step BY TipType DEF TypeOK
<1>4. \A q \in SeedPoints(scope, S, Tip(path), years) : q.from = scope BY DEF SeedPoints
<1>5. points' \subseteq Point BY <1>1, <1>2, <1>3, SeedPointsType DEF TypeOK
<1> QED BY <1>1, <1>4, <1>5 DEF FocusAgrees

LEMMA DecideActionStep == ASSUME IInv, DecideAction PROVE IInv'
<1> USE DEF memory, focus, options
<1>1. TypeOK /\ current \in Node BY DEF IInv, TypeOK
<1>2. /\ decision' \in Decision /\ points' \subseteq Point
      /\ \A q \in points' : q.from = current \/ \E p \in points : p.from = q.from
      /\ decision'.action \in EdgeActions => decision'.edge \in Edge
      /\ decision'.action = "validate_current_content" => Target(current) # NoUrl
      /\ decision'.action = "search_with_text" => decision'.query \in Query
      /\ decision'.action = "success" => TerminalRoute(Conditions) = "success"
  <2> USE DEF Decide, Decision, EdgeActions, Actions, NoEdge
  <2>1. CASE DecideEdge
    <3>1. PICK d \in EdgeDecisions(current) :
            Decide(d[1], <<current, d[2]>>, NoUrl) /\ Seed(d[2])
      BY <2>1 DEF DecideEdge
    <3>2. d[1] \in EdgeActions /\ d[2] \in Url BY DEF EdgeDecisions, PendingEdges
    <3>3. /\ points' \subseteq Point
          /\ \A q \in points' : q.from = current \/ \E p \in points : p.from = q.from
      BY <1>1, <3>1, SeedType DEF IInv
    <3> QED BY <1>1, <3>1, <3>2, <3>3 DEF Edge
  <2>2. CASE DecideOpenLeaf
    BY <1>1, <2>2 DEF DecideOpenLeaf, TypeOK
  <2>3. CASE DecideValidate
    BY <1>1, <2>3 DEF DecideValidate, CanValidate, TypeOK
  <2>4. CASE DecideSearch
    BY <1>1, <2>4 DEF DecideSearch, TypeOK
  <2>5. CASE DecideRefine \/ DecideExhausted
    BY <1>1, <2>5 DEF DecideRefine, DecideExhausted, TypeOK
  <2>6. CASE DecideSuccess
    BY <1>1, <2>6 DEF DecideSuccess, TypeOK
  <2> QED BY <2>1, <2>2, <2>3, <2>4, <2>5, <2>6 DEF DecideAction
<1>3. StepsType BY <1>1, AtType DEF DecideAction
<1>4. TypeOK' BY <1>1, <1>2, <1>3 DEF DecideAction, TypeOK, StepsType, Working
<1>5. DecisionReady'
  BY <1>2 DEF DecideAction, DecisionReady, Target, Conditions
<1>6. Known(graph', points', anchors')
  BY <1>1, <1>2, KnownKept DEF DecideAction, TypeOK, Keeps, AnchorsType
<1> QED
  BY <1>4, <1>5, <1>6 DEF DecideAction, At, IInv, FocusAgrees, FocusLive, EndsRight, Working

LEMMA FetchedType ==
  ASSUME TypeOK, NEW u \in Url, NEW v \in Url
  PROVE  Fetched(u, v) \in Page
<1> DEFINE known == IF graph.index[v] # NoUrl THEN graph.index[v] ELSE graph.index[u]
<1>1. known \in Node \cup {NoUrl} BY DEF TypeOK, GraphType
<1>2. CASE known # NoUrl /\ Snapshot(known) # NoPage
  <2>1. Fetched(u, v) = Snapshot(known) BY <1>2 DEF Fetched
  <2>2. known \in Node BY <1>1, <1>2
  <2> QED BY <1>2, <2>1, <2>2, SnapshotType
<1>3. CASE ~ (known # NoUrl /\ Snapshot(known) # NoPage)
  <2>1. Fetched(u, v) = [url |-> v, revealed |-> FALSE] BY <1>3 DEF Fetched
  <2> QED BY <2>1 DEF Page
<1> QED BY <1>2, <1>3

LEMMA ResultsType ==
  /\ NoResult \in Result /\ Failure \in Result
  /\ \A u \in MaybeUrl, w \in Verdict :
       [NoResult EXCEPT !.verdict = w, !.download = u] \in Result
  /\ \A u \in MaybeUrl, w \in Verdict :
       [NoResult EXCEPT !.download = u, !.verdict = w] \in Result
  /\ \A page \in Page, w \in Verdict : [NoResult EXCEPT !.page = page, !.verdict = w] \in Result
  /\ \A page \in Page, c \in BOOLEAN : [NoResult EXCEPT !.page = page, !.create = c] \in Result
BY DEF NoResult, Failure, Result, Verdict, MaybeUrl

LEMMA DeliveredType ==
  ASSUME NEW u \in Url, NEW r \in Delivered(u)
  PROVE  r \in Result /\ r.download = u
<1>1. PICK w \in Verdicts[u] : r = [NoResult EXCEPT !.download = u, !.verdict = w]
  BY DEF Delivered
<1>2. w \in Verdict BY GraphMapperAssumption
<1> QED BY <1>1, <1>2, ResultsType DEF MaybeUrl, NoResult

LEMMA FollowResultsType ==
  ASSUME TypeOK, NEW u \in Url, NEW v \in Url, NEW r \in FollowResults(u, v)
  PROVE  r \in Result
<1>1. CASE r = Failure BY <1>1, ResultsType
<1>2. CASE r \in Delivered(v) BY <1>2, DeliveredType
<1>3. CASE r \in Visited(u, Fetched(u, v))
  <2> DEFINE page == Fetched(u, v)
  <2>1. page \in Page BY FetchedType
  <2>2. ASSUME NEW s \in Inspections(page) PROVE s \in Result
    <3>1. PICK w \in IF page.url \in Readable THEN Verdicts[page.url] ELSE {"none"} :
            s = [NoResult EXCEPT !.page = page, !.verdict = w]
      BY <2>2 DEF Inspections
    <3>2. w \in Verdict BY <2>1, <3>1, GraphMapperAssumption DEF Page, Verdict
    <3> QED BY <2>1, <3>1, <3>2, ResultsType
  <2>3. ASSUME NEW s \in Result PROVE [s EXCEPT !.download = u] \in Result
    BY <2>3 DEF Result, MaybeUrl
  <2> QED BY <1>3, <2>2, <2>3 DEF Visited
<1> QED BY <1>1, <1>2, <1>3 DEF FollowResults

LEMMA TargetType == ASSUME TypeOK, NEW n \in Node PROVE Target(n) \in MaybeUrl
<1>1. inspection[n].url \in MaybeUrl BY DEF TypeOK, Page, NoPage, MaybeUrl
<1> QED BY <1>1, GraphMapperAssumption DEF TypeOK, Target, MaybeUrl

(* What an executed action hands to the reducer. *)
LEMMA ExecuteActionResult ==
  ASSUME IInv, ExecuteAction
  PROVE  \E r \in Result :
           /\ Responds(r)
           /\ pc' \in {"update_graph", "success", "build_node_view"}
           /\ pc' = "success" => decision.action = "success"
           /\ r.status = "ok" /\ decision.action \in {"download_artifact", "open_artifact"}
                => r.download \in Url
           /\ r.status = "ok" /\ decision.action = "search_with_text" => r.page \in Page
           /\ StepsType /\ pc = "execute_action"
<1>1. TypeOK /\ current \in Node BY DEF IInv, TypeOK
<1>2. pc = "execute_action" /\ StepsType /\ DecisionReady
  <2>1. At("execute_action")
    BY DEF ExecuteAction, ExecuteFollow, ExecuteDownload, ExecuteOpen, ExecuteValidate,
           ExecuteSearch, ExecuteExhausted, ExecuteSuccess, ExecuteRefine, Execute
  <2> QED BY <1>1, <2>1, AtType DEF At, IInv
<1> USE DEF Execute
<1>3. Failure \in Result /\ Failure.status = "failed" /\ NoResult \in Result
  BY ResultsType DEF Failure, NoResult
<1>4. decision.action \in EdgeActions => decision.edge[2] \in Url
  BY <1>2 DEF DecisionReady, Edge
<1>5. CASE ExecuteFollow
  <2>1. PICK v \in Landing[decision.edge[2]] :
          \E r \in FollowResults(decision.edge[2], v) : Responds(r)
    BY <1>5 DEF ExecuteFollow
  <2>2. decision.edge[2] \in Url BY <1>4, <1>5 DEF ExecuteFollow, EdgeActions
  <2>3. v \in Url BY <2>1, <2>2, GraphMapperAssumption
  <2> QED BY <1>1, <1>2, <1>5, <2>1, <2>2, <2>3, FollowResultsType DEF ExecuteFollow
<1>6. CASE ExecuteDownload
  <2>1. PICK r \in {Failure} \cup Delivered(decision.edge[2]) : Responds(r)
    BY <1>6 DEF ExecuteDownload
  <2>2. decision.edge[2] \in Url BY <1>4, <1>6 DEF ExecuteDownload, EdgeActions
  <2> QED BY <1>2, <1>3, <1>6, <2>1, <2>2, DeliveredType DEF ExecuteDownload
<1>7. CASE ExecuteOpen
  <2>1. PICK r \in {Failure} \cup Delivered(decision.edge[2]) : Responds(r)
    BY <1>7 DEF ExecuteOpen
  <2>2. decision.edge[2] \in Url BY <1>4, <1>7 DEF ExecuteOpen, EdgeActions
  <2> QED BY <1>2, <1>3, <1>7, <2>1, <2>2, DeliveredType DEF ExecuteOpen
<1>8. CASE ExecuteValidate
  <2>1. PICK w \in Verdicts[Target(current)] :
          Responds([NoResult EXCEPT !.verdict = w,
                                    !.download = IF w = "none" THEN NoUrl ELSE download[current]])
    BY <1>8 DEF ExecuteValidate
  <2>2. Target(current) \in Url
    BY <1>1, <1>2, <1>8, TargetType DEF ExecuteValidate, DecisionReady, MaybeUrl
  <2>3. w \in Verdict BY <2>1, <2>2, GraphMapperAssumption
  <2>4. (IF w = "none" THEN NoUrl ELSE download[current]) \in MaybeUrl
    BY <1>1 DEF TypeOK, MaybeUrl
  <2> QED BY <1>2, <1>8, <2>1, <2>3, <2>4, ResultsType DEF ExecuteValidate
<1>9. CASE ExecuteSearch
  <2>1. CASE Responds(Failure) BY <1>2, <1>3, <1>9, <2>1 DEF ExecuteSearch
  <2>2. ASSUME NEW v \in SearchTo[graph.url[current]], NEW create \in BOOLEAN,
               Responds(SearchResult(v, create))
        PROVE  SearchResult(v, create) \in Result /\ SearchResult(v, create).page \in Page
    <3>1. graph.url[current] \in Url
      BY <1>1 DEF TypeOK, GraphType, IInv, FocusAgrees, MaybeUrl
    <3>2. [url |-> v, revealed |-> TRUE] \in Page BY <3>1, GraphMapperAssumption DEF Page
    <3> QED BY <3>2, ResultsType DEF SearchResult, NoResult
  <2> QED BY <1>2, <1>9, <2>1, <2>2 DEF ExecuteSearch
<1>10. CASE ExecuteExhausted \/ ExecuteSuccess \/ ExecuteRefine
  BY <1>2, <1>3, <1>10 DEF ExecuteExhausted, ExecuteSuccess, ExecuteRefine
<1> QED BY <1>5, <1>6, <1>7, <1>8, <1>9, <1>10 DEF ExecuteAction

LEMMA ExecuteActionStep == ASSUME IInv, ExecuteAction PROVE IInv'
<1> USE DEF memory, focus, options
<1>1. PICK r \in Result :
        /\ Responds(r)
        /\ pc' \in {"update_graph", "success", "build_node_view"}
        /\ pc' = "success" => decision.action = "success"
        /\ r.status = "ok" /\ decision.action \in {"download_artifact", "open_artifact"}
             => r.download \in Url
        /\ r.status = "ok" /\ decision.action = "search_with_text" => r.page \in Page
        /\ StepsType /\ pc = "execute_action"
  BY ExecuteActionResult
<1>2. TypeOK'
  BY <1>1 DEF Responds, Result, IInv, TypeOK, StepsType, Working, Terminal
<1>3. DecisionReady' BY <1>1 DEF Responds, IInv, DecisionReady, Target, Conditions
<1>4. pc' = "update_graph" /\ result'.status = "ok" => ResultReady'
  BY <1>1 DEF Responds, ResultReady
<1>5. EndsRight'
  BY <1>1 DEF Responds, IInv, DecisionReady, EndsRight, Conditions
<1> QED
  BY <1>1, <1>2, <1>3, <1>4, <1>5 DEF Responds, IInv, FocusAgrees, FocusLive, Working

(* What a step of the reducer leaves behind. *)
UpdateEffect ==
  /\ TypeOK' /\ Sound(graph') /\ Keeps(graph, graph')
  /\ FocusAgrees'
  /\ \A q \in points' : \E p \in points : p.from = q.from
  /\ UNCHANGED <<anchors, decision>>
  /\ decision.action = "open_artifact" /\ scope' \in graph'.exhausted
       => ~ HasPendingEdges(graph', scope')

(* The facts every update starts from. *)
LEMMA UpdateStart ==
  ASSUME IInv, UpdateGraph
  PROVE  /\ TypeOK /\ Sound(graph) /\ FocusAgrees /\ DecisionReady
         /\ result.status = "ok" => ResultReady
         /\ current \notin graph.exhausted /\ StepsType
         /\ pc = "update_graph" /\ pc' = "advance_branch"
<1>1. At("update_graph") /\ pc' = "advance_branch"
  BY DEF UpdateGraph, UpdateFailed, UpdateFollow, UpdateDownload, UpdateOpen, UpdateValidate,
         UpdateSearch, UpdateExhausted, Update
<1>2. StepsType BY <1>1, AtType DEF IInv
<1> QED BY <1>1, <1>2 DEF IInv, FocusLive, At, Working

LEMMA ValidatedType ==
  ASSUME TypeOK, NEW src \in Url, NEW n \in Node, Validated(src, n)
  PROVE  judged' \subseteq Node /\ findings' \subseteq Finding
<1>1. Matches(src, n, result.verdict) \subseteq Finding BY MatchesType
<1> QED BY <1>1 DEF Validated, TypeOK

LEMMA ReprioritizedType ==
  ASSUME TypeOK, Reprioritized \/ UNCHANGED points
  PROVE  points' \subseteq Point /\ \A q \in points' : \E p \in points : p.from = q.from
BY ReprioritizeType DEF Reprioritized, TypeOK

LEMMA ArriveType ==
  ASSUME TypeOK, NEW n \in Node, NEW e \in Edge \cup {NoEdge}, Arrive(n, e)
  PROVE  /\ current' = n /\ scope' = n /\ owner' \in MaybeUrl
         /\ arrival' \in [node : Node, edge : Edge \cup {NoEdge}]
         /\ path' \in Seq(Step)
<1>1. <<n, clock>> \in Step BY DEF TypeOK, Step, MaybeUrl
<1>2. Append(path, <<n, clock>>) \in Seq(Step) BY <1>1 DEF TypeOK
<1> QED BY <1>2 DEF Arrive, MaybeUrl

LEMMA UpdateFailedEffect == ASSUME IInv, UpdateFailed PROVE UpdateEffect
<1> USE DEF memory, focus, options
<1>1. /\ TypeOK /\ Sound(graph) /\ FocusAgrees /\ current \notin graph.exhausted /\ StepsType
      /\ pc' = "advance_branch"
  BY UpdateStart DEF UpdateGraph
<1>2. decision.edge \in Edge \cup {NoEdge} BY <1>1 DEF TypeOK, Decision
<1>3. /\ Sound(graph') /\ graph'.url = graph.url
      /\ \A n \in Node : n \in graph'.exhausted \ graph.exhausted => ~ HasPendingEdges(graph', n)
  BY <1>1, <1>2, MarkFailedSound DEF UpdateFailed
<1>4. TypeOK' BY <1>1, <1>3 DEF UpdateFailed, TypeOK, Sound, StepsType, Working
<1> QED BY <1>1, <1>3, <1>4 DEF UpdateFailed, UpdateEffect, Keeps, FocusAgrees, TypeOK

LEMMA UpdateFollowEffect == ASSUME IInv, UpdateFollow PROVE UpdateEffect
<1> DEFINE e == decision.edge
           m == ProposedNode(e, LandedUrl)
           n == EnsuredNode(graph, m, LandedUrl)
           g == EnsureNode(graph, m, LandedUrl)
           h == [g EXCEPT !.child[e] = n]
<1>1. /\ TypeOK /\ Sound(graph) /\ DecisionReady /\ StepsType /\ pc' = "advance_branch"
  BY UpdateStart DEF UpdateGraph
<1>2. e \in Edge /\ decision.action = "follow_edge"
  BY <1>1 DEF UpdateFollow, Update, DecisionReady, EdgeActions
<1>3. LandedUrl \in Url /\ (result.page # NoPage => result.page \in Page /\ result.page.url \in Url)
  BY <1>1, <1>2 DEF LandedUrl, TypeOK, Result, Page, Edge
<1>4. m \in Node
  <2>1. graph.child[e] \in Node \cup {NoUrl} BY <1>1, <1>2 DEF TypeOK, GraphType
  <2> QED BY <1>3, <2>1 DEF ProposedNode
<1>5. /\ Sound(g) /\ n \in Node /\ Keeps(graph, g) /\ g.url[n] # NoUrl
  BY <1>1, <1>3, <1>4, EnsureNodeSound
<1>6. Sound(h) /\ h.url = g.url
  BY <1>2, <1>5, SideUpdatesSound
<1>7. /\ graph' = MarkUseful(h, e) /\ Arrive(n, e)
      /\ \/ UNCHANGED <<inspection, judged, findings, points>>
         \/ /\ result.page # NoPage
            /\ inspection' = [inspection EXCEPT ![n] = result.page]
            /\ Validated(result.page.url, n)
            /\ UNCHANGED points \/ Reprioritized
      /\ UNCHANGED <<clock, searched, queries, download, artifact, lastDownload, perception,
                     anchors, decision, result>>
  BY DEF UpdateFollow
<1> HIDE DEF e, m, n, g, h
<1>8. Sound(graph') /\ Keeps(graph, graph') /\ graph'.url[n] # NoUrl
  BY <1>2, <1>5, <1>6, <1>7, MarkUsefulSound DEF Keeps
<1>9. /\ inspection' \in [Node -> Page \cup {NoPage}]
      /\ judged' \subseteq Node /\ findings' \subseteq Finding
  BY <1>1, <1>3, <1>5, <1>7, ValidatedType DEF TypeOK
<1>10. points' \subseteq Point /\ \A q \in points' : \E p \in points : p.from = q.from
  BY <1>1, <1>7, ReprioritizedType
<1>11. /\ current' = n /\ scope' = n /\ owner' \in MaybeUrl
       /\ arrival' \in [node : Node, edge : Edge \cup {NoEdge}]
       /\ path' \in Seq(Step)
  BY <1>1, <1>2, <1>5, <1>7, ArriveType
<1>12. TypeOK'
  BY <1>1, <1>5, <1>7, <1>8, <1>9, <1>10, <1>11 DEF TypeOK, Sound, StepsType, Working
<1> QED
  BY <1>2, <1>7, <1>8, <1>10, <1>11, <1>12 DEF UpdateEffect, FocusAgrees

LEMMA ArtifactEffect == ASSUME IInv, UpdateDownload \/ UpdateOpen PROVE UpdateEffect
<1>1. /\ TypeOK /\ Sound(graph) /\ FocusAgrees /\ DecisionReady /\ StepsType
      /\ current \notin graph.exhausted /\ pc' = "advance_branch"
      /\ result.status = "ok" => ResultReady
  BY UpdateStart DEF UpdateGraph
<1>2. decision.edge \in Edge /\ result.download \in Url
  BY <1>1 DEF UpdateDownload, UpdateOpen, Update, DecisionReady, ResultReady, EdgeActions
<1>3. ContentOwner \in Node BY <1>1 DEF ContentOwner, TypeOK, MaybeUrl
<1>4. /\ graph' = MarkUseful(graph, decision.edge)
      /\ download' = [download EXCEPT ![ContentOwner] = result.download]
      /\ artifact' \in {[artifact EXCEPT ![ContentOwner] = x] : x \in {NoUrl, result.download}}
      /\ owner' = ContentOwner
      /\ Validated(result.download, ContentOwner) /\ Reprioritized
      /\ UNCHANGED <<clock, inspection, searched, queries, lastDownload, perception, current,
                     scope, arrival, path, anchors, decision, result>>
  BY DEF UpdateDownload, UpdateOpen
<1>5. Sound(graph') /\ graph'.url = graph.url /\ graph'.exhausted = graph.exhausted
  BY <1>1, <1>2, <1>4, MarkUsefulSound
<1>6. /\ judged' \subseteq Node /\ findings' \subseteq Finding
      /\ points' \subseteq Point /\ \A q \in points' : \E p \in points : p.from = q.from
  BY <1>1, <1>2, <1>3, <1>4, ValidatedType, ReprioritizedType
<1>7. /\ download' \in [Node -> MaybeUrl] /\ artifact' \in [Node -> MaybeUrl]
      /\ owner' \in MaybeUrl
  BY <1>1, <1>2, <1>3, <1>4 DEF TypeOK, MaybeUrl
<1>8. TypeOK' BY <1>1, <1>4, <1>5, <1>6, <1>7 DEF TypeOK, Sound, StepsType, Working
<1> QED BY <1>1, <1>4, <1>5, <1>6, <1>8 DEF UpdateEffect, FocusAgrees, Keeps

LEMMA UpdateValidateEffect == ASSUME IInv, UpdateValidate PROVE UpdateEffect
<1>1. /\ TypeOK /\ Sound(graph) /\ FocusAgrees /\ DecisionReady /\ StepsType
      /\ current \notin graph.exhausted /\ pc' = "advance_branch"
  BY UpdateStart DEF UpdateGraph
<1>2. Target(current) \in Url /\ current \in Node
  BY <1>1, TargetType DEF UpdateValidate, Update, DecisionReady, MaybeUrl, TypeOK
<1>3. /\ judged' \subseteq Node /\ findings' \subseteq Finding
      /\ points' \subseteq Point /\ \A q \in points' : \E p \in points : p.from = q.from
  BY <1>1, <1>2, ValidatedType, ReprioritizedType DEF UpdateValidate
<1>4. owner' \in MaybeUrl BY <1>1, <1>2 DEF UpdateValidate, TypeOK, MaybeUrl
<1>5. TypeOK' BY <1>1, <1>3, <1>4 DEF UpdateValidate, TypeOK, StepsType, Working
<1> QED BY <1>1, <1>3, <1>5 DEF UpdateValidate, UpdateEffect, FocusAgrees, Keeps

LEMMA UpdateSearchEffect == ASSUME IInv, UpdateSearch PROVE UpdateEffect
<1> USE DEF options
<1>1. /\ TypeOK /\ Sound(graph) /\ FocusAgrees /\ DecisionReady /\ StepsType
      /\ pc' = "advance_branch"
      /\ result.status = "ok" => ResultReady
  BY UpdateStart DEF UpdateGraph
<1>2. /\ decision.action = "search_with_text" /\ decision.query \in Query
      /\ result.page \in Page /\ result.page.url \in Url
  BY <1>1 DEF UpdateSearch, Update, DecisionReady, ResultReady, Page
<1> DEFINE u == result.page.url
           g == IF result.create THEN EnsureNode(graph, u, u) ELSE graph
<1>3. /\ Sound(g) /\ SearchNode \in Node /\ Keeps(graph, g) /\ g.url[SearchNode] # NoUrl
  <2>1. CASE result.create BY <1>1, <1>2, <2>1, EnsureNodeSound DEF SearchNode
  <2>2. CASE ~ result.create BY <1>1, <2>2 DEF SearchNode, TypeOK, FocusAgrees, Keeps
  <2> QED BY <2>1, <2>2
<1>4. graph' = [g EXCEPT !.inspected = @ \ {SearchNode}] BY DEF UpdateSearch
<1> HIDE DEF g
<1>5. Sound(graph') /\ graph'.url = g.url
  <2>1. {SearchNode} \in SUBSET Node BY <1>3
  <2>2. <<SearchNode, result.page.url>> \in Edge BY <1>3, <1>2 DEF Edge
  <2> QED BY <1>3, <1>4, <2>1, <2>2, SideUpdatesSound
<1>6. /\ inspection' \in [Node -> Page \cup {NoPage}] /\ searched' \in [Node -> Page \cup {NoPage}]
      /\ queries' \in [Node -> SUBSET Query] /\ perception' \in [Node -> SUBSET Hint]
  BY <1>1, <1>2, <1>3 DEF UpdateSearch, TypeOK
<1>7. /\ current' = SearchNode /\ scope' = SearchNode /\ owner' \in MaybeUrl
      /\ arrival' \in [node : Node, edge : Edge \cup {NoEdge}]
      /\ path' \in Seq(Step)
  <2>1. CASE result.create BY <1>1, <1>3, <2>1, ArriveType DEF UpdateSearch
  <2>2. CASE ~ result.create
    BY <1>1, <2>2 DEF UpdateSearch, TypeOK, SearchNode, FocusAgrees, MaybeUrl
  <2> QED BY <2>1, <2>2
<1>8. UNCHANGED <<clock, download, artifact, lastDownload, judged, points, anchors, findings,
                  decision, result>>
  BY DEF UpdateSearch
<1>9. TypeOK'
  BY <1>1, <1>3, <1>5, <1>6, <1>7, <1>8 DEF TypeOK, Sound, StepsType, Working
<1> QED BY <1>2, <1>3, <1>5, <1>7, <1>8, <1>9 DEF UpdateEffect, FocusAgrees, Keeps

LEMMA UpdateExhaustedEffect == ASSUME IInv, UpdateExhausted PROVE UpdateEffect
<1> USE DEF memory, focus, options
<1>1. TypeOK /\ Sound(graph) /\ FocusAgrees /\ StepsType /\ pc' = "advance_branch"
  BY UpdateStart DEF UpdateGraph
<1>2. Sound(graph') /\ graph'.url = graph.url
  BY <1>1, MarkNodeSound DEF UpdateExhausted, TypeOK
<1>3. TypeOK' BY <1>1, <1>2 DEF UpdateExhausted, TypeOK, Sound, StepsType, Working
<1> QED BY <1>1, <1>2, <1>3 DEF UpdateExhausted, Update, UpdateEffect, FocusAgrees, Keeps

LEMMA UpdateGraphStep == ASSUME IInv, UpdateGraph PROVE IInv'
<1>1. UpdateEffect
  BY UpdateFailedEffect, UpdateFollowEffect, ArtifactEffect, UpdateValidateEffect,
     UpdateSearchEffect, UpdateExhaustedEffect DEF UpdateGraph
<1>2. pc' = "advance_branch" BY UpdateStart
<1>3. Known(graph', points', anchors')
  BY <1>1, KnownKept DEF UpdateEffect, TypeOK, AnchorsType
<1> QED BY <1>1, <1>2, <1>3 DEF UpdateEffect, IInv, FocusLive, EndsRight, Working

LEMMA RebuiltType == ASSUME TypeOK, NEW origin PROVE Rebuilt(origin) \in Seq(Step)
<1>1. path \in Seq(Step) BY DEF TypeOK
<1>2. CASE \E i \in 1..Len(path) : path[i] = origin
  <2> DEFINE k == CHOOSE i \in 1..Len(path) :
                    path[i] = origin /\ \A j \in 1..(i - 1) : path[j] # origin
             First(i) == \A j \in 1..(i - 1) : path[j] # origin
  <2>1. \E i \in 1..Len(path) : path[i] = origin /\ First(i)
    <3> DEFINE T == {i \in Nat : i \in 1..Len(path) /\ path[i] = origin}
    <3>1. T \subseteq Nat /\ T # {} BY <1>1, <1>2
    <3>2. PICK i \in T : \A j \in T : ~ (<<j, i>> \in OpToRel(<, Nat))
      BY <3>1, WFMin, NatLessThanWellFounded, Zenon
    <3>3. \A j \in T : ~ (j < i) BY <3>2 DEF OpToRel
    <3> QED BY <1>1, <3>3
  <2>2. k \in 1..Len(path) BY <2>1
  <2>3. Rebuilt(origin) = SubSeq(path, 1, k) BY <1>2 DEF Rebuilt
  <2> HIDE DEF k
  <2> QED BY <1>1, <2>2, <2>3
<1>3. CASE ~ \E i \in 1..Len(path) : path[i] = origin
  BY <1>1, <1>3 DEF Rebuilt
<1> QED BY <1>2, <1>3

(* What a step of advance_branch leaves behind. *)
AdvanceEffect ==
  /\ current' \in Node /\ scope' = current' /\ UNCHANGED <<arrival, owner>>
  /\ graph.url[current'] # NoUrl
  /\ path' \in Seq(Step) /\ points' \subseteq points
  /\ anchors' \in AnchorsType
  /\ \A n \in Node : anchors'[n].status # "none" => anchors[n].status # "none"
  /\ \/ /\ pc' = "inspect_node" /\ current' \notin graph'.exhausted
        /\ UNCHANGED decision
     \/ /\ pc' = "execute_action" /\ current' \notin graph'.exhausted
        /\ decision' \in Decision /\ decision'.action = "follow_edge" /\ decision'.edge \in Edge
     \/ pc' = TerminalRoute(Conditions) /\ UNCHANGED decision

LEMMA AdvancedSound ==
  ASSUME IInv, pc = "advance_branch"
  PROVE  /\ Sound(Advanced) /\ Advanced.url = graph.url /\ Advanced.edge = graph.edge
         /\ ~ UsedUp => Advanced = graph /\ scope \notin graph.exhausted
<1>1. Sound(graph) /\ scope \in Node BY DEF IInv, TypeOK
<1>2. MarkExhausted(graph, scope).edge = graph.edge
  BY <1>1 DEF MarkExhausted, Sound, GraphType
<1>3. ~ UsedUp => Advanced = graph /\ scope \notin graph.exhausted
  BY DEF UsedUp, Advanced, IInv, FocusLive
<1> QED BY <1>1, <1>2, <1>3, MarkNodeSound DEF Advanced

LEMMA ContinueEffect ==
  ASSUME IInv, pc = "advance_branch", graph' = Advanced, Continue
  PROVE  AdvanceEffect
<1> USE DEF focus, options
<1>1. Advanced = graph /\ scope \notin graph.exhausted BY AdvancedSound DEF Continue
<1> QED
  BY <1>1 DEF Continue, Focus, InspectOrFail, AdvanceEffect, IInv, FocusAgrees, TypeOK,
              AnchorsType

LEMMA ResumeAnchorEffect ==
  ASSUME IInv, pc = "advance_branch", graph' = Advanced, ResumeAnchor
  PROVE  AdvanceEffect
<1>1. PICK r \in Resumes("anchor") :
        /\ Focus(r.node) /\ InspectOrFail(r.node)
        /\ path' = Rebuilt(anchors[r.node].origin)
        /\ anchors' = [anchors EXCEPT ![r.node].status = "resumed"]
  BY DEF ResumeAnchor
<1>2. UNCHANGED <<points, decision>> BY DEF ResumeAnchor
<1>3. r.node \in Node \ Advanced.exhausted /\ anchors[r.node].status = "open"
  BY <1>1, ResumptionsLive DEF Resumes, Live
<1>4. graph.url[r.node] # NoUrl BY <1>3 DEF IInv, Known
<1>5. path' \in Seq(Step) BY <1>1, RebuiltType DEF IInv
<1>6. /\ anchors' \in AnchorsType
      /\ \A n \in Node : anchors'[n].status # "none" => anchors[n].status # "none"
  BY <1>1, <1>3 DEF IInv, TypeOK, AnchorsType, Anchor
<1>7. pc' = "inspect_node" /\ current' = r.node /\ scope' = r.node /\ UNCHANGED <<arrival, owner>>
  BY <1>1, <1>3 DEF InspectOrFail, Focus
<1> QED BY <1>2, <1>3, <1>4, <1>5, <1>6, <1>7 DEF AdvanceEffect

LEMMA ResumePointEffect ==
  ASSUME IInv, pc = "advance_branch", graph' = Advanced, ResumePoint
  PROVE  AdvanceEffect
<1>1. PICK r \in Resumes("point") :
        /\ Focus(r.point.from)
        /\ points' = Consume(r.point)
        /\ path' = Rebuilt(r.point.origin)
        /\ IF graph.edge[<<r.point.from, r.point.to>>] = "failed"
           THEN InspectOrFail(r.point.from) /\ UNCHANGED decision
           ELSE /\ pc' = "execute_action"
                /\ decision' = [action |-> "follow_edge",
                                edge |-> <<r.point.from, r.point.to>>, query |-> NoUrl]
  BY DEF ResumePoint
<1>2. UNCHANGED anchors BY DEF ResumePoint
<1>3. r.point \in Viable(points, Advanced, scope)
  BY <1>1, ResumptionsLive DEF Resumes, Live
<1>4. /\ r.point \in points /\ r.point \in Point
      /\ graph.edge[<<r.point.from, r.point.to>>] # "failed"
      /\ r.point.from \notin Advanced.exhausted
  BY <1>3, AdvancedSound DEF Viable, IInv, TypeOK
<1>5. r.point.from \in Node /\ graph.url[r.point.from] # NoUrl
  BY <1>4 DEF Point, IInv, Known
<1>6. <<r.point.from, r.point.to>> \in Edge BY <1>4 DEF Point, Edge
<1>7. /\ pc' = "execute_action" /\ decision' \in Decision
      /\ decision'.action = "follow_edge" /\ decision'.edge \in Edge
  BY <1>1, <1>4, <1>6 DEF Decision, Actions
<1>8. path' \in Seq(Step) BY <1>1, RebuiltType DEF IInv
<1>9. /\ anchors' \in AnchorsType /\ points' \subseteq points
      /\ current' = r.point.from /\ scope' = r.point.from /\ UNCHANGED <<arrival, owner>>
  BY <1>1, <1>2 DEF IInv, TypeOK, AnchorsType, Consume, Focus
<1> QED BY <1>2, <1>4, <1>5, <1>7, <1>8, <1>9 DEF AdvanceEffect

LEMMA RestartRootEffect ==
  ASSUME IInv, pc = "advance_branch", graph' = Advanced, RestartRoot
  PROVE  AdvanceEffect
<1> USE DEF options
<1>1. PICK r \in Resumes("root") : TRUE BY DEF RestartRoot
<1>2. RootAvailable(Advanced) BY <1>1, ResumptionsLive DEF Resumes, Live
<1>3. EntryUrl \in Node /\ graph.url[EntryUrl] # NoUrl BY UrlAssumption DEF IInv, Known
<1>4. path' \in Seq(Step) BY RebuiltType DEF RestartRoot, IInv, TypeOK
<1> QED
  BY <1>2, <1>3, <1>4
  DEF RestartRoot, RootAvailable, Focus, InspectOrFail, AdvanceEffect, IInv, TypeOK, AnchorsType

LEMMA StopEffect ==
  ASSUME IInv, Stop
  PROVE  AdvanceEffect
BY DEF Stop, AdvanceEffect, IInv, TypeOK, FocusAgrees, AnchorsType, focus, options

LEMMA AdvanceBranchStep == ASSUME IInv, AdvanceBranch PROVE IInv'
<1> USE DEF memory, options
<1>1. TypeOK /\ pc = "advance_branch" /\ StepsType /\ graph' = Advanced
  BY AtType DEF AdvanceBranch, At, IInv
<1>2. AdvanceEffect
  BY <1>1, ContinueEffect, ResumeAnchorEffect, ResumePointEffect, RestartRootEffect, StopEffect
  DEF AdvanceBranch
<1>3. Sound(graph') /\ graph'.url = graph.url BY <1>1, AdvancedSound
<1>4. UNCHANGED <<clock, memory, perception, findings, result>> BY DEF AdvanceBranch
<1>5. pc' \in {"inspect_node", "execute_action", "success", "fail"} /\ decision' \in Decision
  BY <1>1, <1>2 DEF AdvanceEffect, TerminalRoute, TypeOK
<1>6. TypeOK'
  BY <1>1, <1>2, <1>3, <1>4, <1>5
  DEF AdvanceEffect, TypeOK, Sound, StepsType, AnchorsType, Working, Terminal
<1>7. Known(graph', points', anchors')
  BY <1>1, <1>2, <1>3 DEF AdvanceEffect, IInv, Known
<1>8. pc' = "execute_action" => DecisionReady'
  BY <1>2, <1>5 DEF AdvanceEffect, DecisionReady, TerminalRoute
<1>9. Conditions' = Conditions BY <1>4 DEF Conditions
<1>10. FocusAgrees' /\ FocusLive' /\ EndsRight'
  BY <1>2, <1>3, <1>5, <1>9
  DEF AdvanceEffect, FocusAgrees, FocusLive, EndsRight, TerminalRoute, Working
<1> QED BY <1>3, <1>5, <1>6, <1>7, <1>8, <1>10 DEF IInv

LEMMA NextIInv == IInv /\ [Next]_vars => IInv'
<1> SUFFICES ASSUME IInv, [Next]_vars PROVE IInv'
  OBVIOUS
<1>1. CASE UNCHANGED vars
  BY <1>1 DEF vars, memory, focus, options, IInv, TypeOK, Known, FocusAgrees, DecisionReady,
              ResultReady, FocusLive, EndsRight, Target, Conditions
<1>2. CASE InspectNode BY <1>2, InspectNodeStep
<1>3. CASE ClassifyNode \/ StepLimit \/ PortFailure \/ Finish \/ Terminated BY <1>3, EngineStep
<1>4. CASE BuildNodeView BY <1>4, BuildNodeViewStep
<1>5. CASE DecideAction BY <1>5, DecideActionStep
<1>6. CASE ExecuteAction BY <1>6, ExecuteActionStep
<1>7. CASE UpdateGraph BY <1>7, UpdateGraphStep
<1>8. CASE AdvanceBranch BY <1>8, AdvanceBranchStep
<1> QED BY <1>1, <1>2, <1>3, <1>4, <1>5, <1>6, <1>7, <1>8 DEF Next

LEMMA SpecIInv == Spec => []IInv
BY InitIInv, NextIInv, PTL DEF Spec

(* Every variable keeps its type: the reducer, which is the only writer of  *)
(* most of them, never stores a URL, node, edge or page that does not exist *)
(* (GraphUpdater.apply_action_result and the resume functions).             *)
THEOREM TypeCorrect == Spec => []TypeOK
<1>1. IInv => TypeOK BY DEF IInv
<1> QED BY <1>1, SpecIInv, PTL

(* No two nodes carry one URL, whatever the site does: every handler looks  *)
(* a URL up in url_to_node_id before it registers a node, even when         *)
(* requests for one URL land at different ones.                             *)
THEOREM NodesAreUnique == Spec => []OneNodePerUrl
<1>1. IInv => OneNodePerUrl BY DEF IInv, Sound, Unique, Tidy, OneNodePerUrl
<1> QED BY <1>1, SpecIInv, PTL

(* No pending tuple offers an edge that was already closed: the redundancy  *)
(* between GraphNodeState and EdgeState is sound, whatever the site does.   *)
THEOREM PendingTupleSound == Spec => []PendingSound
<1>1. IInv => PendingSound BY DEF IInv, Sound, Unique, Tidy, PendingSound
<1> QED BY <1>1, SpecIInv, PTL

(* The scope and the runtime never name different nodes, and the node they  *)
(* name is registered.                                                      *)
THEOREM FocusInvariant == Spec => []FocusAgrees
<1>1. IInv => FocusAgrees BY DEF IInv
<1> QED BY <1>1, SpecIInv, PTL

(* No step of the loop works at an exhausted node: the policy never resumes *)
(* one, and nothing exhausts the current node before the update.            *)
THEOREM LiveFocus == Spec => []NoExhaustedFocus
<1>1. IInv => NoExhaustedFocus BY DEF IInv, FocusLive, NoExhaustedFocus, Working
<1> QED BY <1>1, SpecIInv, PTL

(* A run never succeeds before every condition has its number of distinct   *)
(* sources and never fails when all have, whichever of the three ways to a  *)
(* terminal state it takes: the decider's success, the policy's terminal    *)
(* decision, or the refusal to inspect an exhausted node.                   *)
THEOREM VerdictCorrect == Spec => []VerdictMatchesGoals
<1>1. IInv => VerdictMatchesGoals
  BY DEF IInv, EndsRight, TerminalRoute, Conditions, Satisfied, Sources, Met,
         VerdictMatchesGoals
<1> QED BY <1>1, SpecIInv, PTL
=============================================================================
