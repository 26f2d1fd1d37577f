------------------------- MODULE Exploration_proofs -------------------------
(***************************************************************************)
(* The exploration loop implements Exploration, for every site, decider    *)
(* and budget.  What the loop may resume, open or file evidence under was  *)
(* offered or reached before (Options), so that each of its steps is one   *)
(* step of the promise or none.                                            *)
(***************************************************************************)
EXTENDS GraphMapper_proofs, FiniteSetTheorems

ReachedIn(g) == {n \in Node : g.url[n] # NoUrl}
OfferedIn(g) == {e \in Edge : g.edge[e] # "absent"}
TriedIn(g)   == {e \in Edge : g.edge[e] \in {"useful", "failed"}}

(* Whatever the loop may come back to is in the graph.                      *)
Options ==
  /\ owner # NoUrl => owner \in Reached
  /\ arrival.edge # NoEdge => arrival.edge \in Offered
  /\ \A p \in points : <<p.from, p.to>> \in Offered
  /\ pc \in {"execute_action", "update_graph"} /\ decision.edge # NoEdge
       => decision.edge \in Offered

USE DEF Node

(* A node that is looked at offers what it shows, and settles nothing.      *)
LEMMA MergeOffers ==
  ASSUME NEW g, Sound(g), NEW n \in Node, NEW T \in SUBSET Url
  PROVE  /\ OfferedIn(Merge(g, n, T)) = OfferedIn(g) \cup ({n} \X T)
         /\ TriedIn(Merge(g, n, T)) = TriedIn(g)
         /\ ReachedIn(Merge(g, n, T)) = ReachedIn(g)
<1> DEFINE h == Merge(g, n, T)
<1>1. g.edge \in [Edge -> EdgeStatus] BY DEF Sound, GraphType
<1>2. h.edge = MergedEdges(g, n, T) BY DEF Merge, Sound, GraphType
<1>3. \A e \in Edge : h.edge[e] = IF e[1] = n /\ e[2] \in T /\ g.edge[e] = "absent"
                                  THEN "discovered" ELSE g.edge[e]
  BY <1>2 DEF MergedEdges
<1>4. \A e \in Edge : e \in {n} \X T <=> e[1] = n /\ e[2] \in T
  BY DEF Edge
<1>5. {n} \X T \subseteq Edge BY DEF Edge
<1>6. OfferedIn(h) = OfferedIn(g) \cup ({n} \X T)
  BY <1>3, <1>4, <1>5 DEF OfferedIn
<1>7. TriedIn(h) = TriedIn(g) BY <1>3 DEF TriedIn
<1> QED BY <1>6, <1>7, MergeSound DEF ReachedIn

(* An edge that is closed has been tried, and was offered if it was before. *)
LEMMA MarkTries ==
  ASSUME NEW g, Sound(g), NEW e \in OfferedIn(g), NEW h, h \in {MarkUseful(g, e), MarkFailed(g, e)}
  PROVE  /\ OfferedIn(h) = OfferedIn(g)
         /\ TriedIn(h) = TriedIn(g) \cup {e}
         /\ ReachedIn(h) = ReachedIn(g)
<1>1. e \in Edge BY DEF OfferedIn
<1>2. g.edge \in [Edge -> EdgeStatus] BY DEF Sound, GraphType
<1>3. h.edge \in {[g.edge EXCEPT ![e] = s] : s \in {"useful", "failed"}}
  BY DEF MarkUseful, MarkFailed, Sound, GraphType
<1>4. h.url = g.url BY <1>1, MarkUsefulSound, MarkFailedSound
<1>5. PICK s \in {"useful", "failed"} : h.edge = [g.edge EXCEPT ![e] = s] BY <1>3
<1>6. \A x \in Edge : h.edge[x] = IF x = e THEN s ELSE g.edge[x] BY <1>1, <1>2, <1>5
<1> QED BY <1>1, <1>4, <1>6 DEF OfferedIn, TriedIn, ReachedIn

(* At most one node is registered, and no edge changes.                     *)
LEMMA EnsureReaches ==
  ASSUME NEW g, Sound(g), NEW n \in Node, NEW u \in Url
  PROVE  /\ OfferedIn(EnsureNode(g, n, u)) = OfferedIn(g)
         /\ TriedIn(EnsureNode(g, n, u)) = TriedIn(g)
         /\ ReachedIn(EnsureNode(g, n, u)) \in {ReachedIn(g), ReachedIn(g) \cup {n}}
<1>1. CASE g.index[u] = NoUrl
  <2> DEFINE h == RegisterNode(g, n, u)
  <2>1. EnsureNode(g, n, u) = h BY <1>1 DEF EnsureNode
  <2>2. h.url = [g.url EXCEPT ![n] = u] /\ h.edge = g.edge
    BY DEF RegisterNode, Sound, GraphType
  <2>3. \A m \in Node : h.url[m] = IF m = n THEN u ELSE g.url[m]
    BY <2>2 DEF Sound, GraphType
  <2>4. u # NoUrl BY UrlAssumption
  <2>5. ReachedIn(h) = ReachedIn(g) \cup {n} BY <2>3, <2>4 DEF ReachedIn
  <2> QED BY <2>1, <2>2, <2>5 DEF OfferedIn, TriedIn
<1>2. CASE g.index[u] # NoUrl BY <1>2 DEF EnsureNode
<1> QED BY <1>1, <1>2

---------------------------------------------------------------------------
(* The steps of the promise.                                               *)

SameGraph == graph'.url = graph.url /\ graph'.edge = graph.edge

LEMMA RunningOutcome == pc \in Working \cup Terminal => Outcome = "running"
BY DEF Working, Terminal, Outcome

LEMMA Silent ==
  ASSUME SameGraph, UNCHANGED findings, Outcome' = Outcome
  PROVE  UNCHANGED Promise!vars
BY DEF SameGraph, Promise!vars, Reached, Offered, Tried

(* Steps of the engine that leave nodes, edges and findings alone.          *)
LEMMA QuietStep ==
  ASSUME IInv, ClassifyNode \/ DecideAction \/ ExecuteAction \/ AdvanceBranch
  PROVE  UNCHANGED Promise!vars
<1> USE DEF options, memory, focus
<1>1. pc \in Working BY DEF Working, ClassifyNode, DecideAction, ExecuteAction, AdvanceBranch, At,
    ExecuteFollow, ExecuteDownload, ExecuteOpen, ExecuteValidate, ExecuteSearch, ExecuteExhausted,
    ExecuteSuccess, ExecuteRefine, Execute
<1>2. CASE ClassifyNode
  BY <1>1, <1>2, Silent, RunningOutcome DEF ClassifyNode, SameGraph, Outcome, Working
<1>3. CASE DecideAction
  BY <1>1, <1>3, Silent, RunningOutcome DEF DecideAction, SameGraph, Outcome, Working
<1>4. CASE ExecuteAction
  <2>1. PICK r \in Result : Responds(r) /\ pc' \in {"update_graph", "success", "build_node_view"}
    BY <1>4, ExecuteActionResult
  <2> QED BY <1>1, <2>1, Silent, RunningOutcome DEF Responds, SameGraph, Outcome, Working
<1>5. CASE AdvanceBranch
  <2>1. pc = "advance_branch" /\ graph' = Advanced /\ UNCHANGED findings
    BY <1>5 DEF AdvanceBranch, At
  <2>2. SameGraph BY <2>1, AdvancedSound DEF SameGraph
  <2>3. pc' \in {"inspect_node", "execute_action", "success", "fail"}
    BY <1>5, <2>1, ContinueEffect, ResumeAnchorEffect, ResumePointEffect, RestartRootEffect,
       StopEffect
    DEF AdvanceBranch, AdvanceEffect, TerminalRoute
  <2>4. Outcome = "running" /\ Outcome' = "running" BY <2>1, <2>3 DEF Outcome
  <2> QED BY <2>1, <2>2, <2>4, Silent
<1> QED BY <1>2, <1>3, <1>4, <1>5

(* Evidence is learned from one source at one place.                        *)
LEMMA MatchesLearn ==
  ASSUME NEW src \in Url, NEW n \in Reached', NEW w,
         findings' = findings \cup Matches(src, n, w)
  PROVE  Promise!Learn
<1> DEFINE C == IF w = "positive" THEN Evidence[src] ELSE {}
<1>1. C \subseteq Cond BY GraphMapperAssumption
<1>2. Matches(src, n, w) = {[cond |-> c, src |-> src, node |-> n] : c \in C}
  BY DEF Matches
<1> QED BY <1>1, <1>2 DEF Promise!Learn

LEMMA NothingLearned ==
  ASSUME UNCHANGED findings, NEW n \in Reached'
  PROVE  Promise!Learn
<1>1. findings' = findings \cup Matches(EntryUrl, n, "none") BY DEF Matches
<1> QED BY <1>1, UrlAssumption, MatchesLearn

LEMMA LookStep ==
  ASSUME IInv, InspectNode \/ BuildNodeView
  PROVE  Promise!Next
<1> USE DEF options, memory, focus
<1>1. /\ Sound(graph) /\ current \in Node /\ current \in Reached /\ TypeOK
      /\ Outcome = "running" /\ Outcome' = "running"
  BY DEF IInv, TypeOK, FocusAgrees, Reached, InspectNode, BuildNodeView, At, Outcome
<1>2. PICK T \in SUBSET Url :
        \/ graph' = MarkInspected(Merge(graph, current, T), current)
        \/ graph' = Merge(graph, current, T)
        \/ graph' = graph /\ T = {}
  <2>1. CASE InspectNode
    <3>1. PICK page \in Page : Observe(page)
      <4>1. CASE InspectSnapshot BY <1>1, <4>1, SnapshotType DEF InspectSnapshot
      <4>2. CASE InspectPage
        BY <1>1, <4>2, GraphMapperAssumption
        DEF InspectPage, Page, IInv, FocusAgrees, TypeOK, GraphType, MaybeUrl
      <4> QED BY <2>1, <4>1, <4>2 DEF InspectNode
    <3> QED BY <3>1, CandidatesType DEF Observe
  <2>2. CASE BuildNodeView
    <3>1. CASE ViewKnownNode BY <3>1 DEF ViewKnownNode
    <3>2. CASE ViewPerceivedNode
      <4>1. PICK extra \in SUBSET Visual[graph.url[current]] : graph' = Merge(graph, current, extra)
        BY <3>2 DEF ViewPerceivedNode
      <4>2. Visual[graph.url[current]] \subseteq Url
        BY <1>1, GraphMapperAssumption DEF Reached, TypeOK, GraphType, MaybeUrl
      <4> QED BY <4>1, <4>2
    <3> QED BY <2>2, <3>1, <3>2 DEF BuildNodeView
  <2> QED BY <2>1, <2>2
<1>3. /\ Offered' = Offered \cup ({current} \X T) /\ Tried' = Tried /\ Reached' = Reached
  <2> DEFINE h == Merge(graph, current, T)
  <2>1. CASE graph' = graph /\ T = {} BY <2>1 DEF Offered, Tried, Reached
  <2>2. CASE graph' \in {h, MarkInspected(h, current)}
    <3>1. graph'.edge = h.edge /\ graph'.url = h.url
      BY <1>1, <2>2, MergeSound DEF MarkInspected, Sound, GraphType
    <3> QED BY <1>1, <3>1, MergeOffers
            DEF Offered, Tried, Reached, OfferedIn, TriedIn, ReachedIn
  <2> QED BY <1>2, <2>1, <2>2
<1>4. Promise!Learn
  <2>1. CASE UNCHANGED findings BY <1>1, <1>3, <2>1, NothingLearned
  <2>2. CASE BuildNodeView /\ ViewPerceivedNode
    <3>1. PICK verdict \in PerceivedVerdicts(current) :
            findings' = findings \cup Matches(inspection[current].url, current, verdict)
      BY <2>2 DEF ViewPerceivedNode
    <3>2. CASE inspection[current].url \in Url
      BY <1>1, <1>3, <3>1, <3>2, MatchesLearn
    <3>3. CASE inspection[current].url \notin Url
      <4>1. verdict = "none" BY <3>1, <3>3, GraphMapperAssumption DEF PerceivedVerdicts
      <4>2. UNCHANGED findings BY <3>1, <4>1 DEF Matches
      <4> QED BY <2>1, <4>2
    <3> QED BY <3>2, <3>3
  <2> QED BY <2>1, <2>2 DEF InspectNode, BuildNodeView, ViewKnownNode
<1> QED BY <1>1, <1>3, <1>4 DEF Promise!Next, Promise!Explore, Promise!Look

LEMMA EdgeIsReal == ASSUME NEW e \in Edge PROVE e # NoEdge
BY UrlAssumption DEF Edge, NoEdge

LEMMA UpdateRuns == ASSUME IInv, UpdateGraph PROVE Outcome = "running" /\ Outcome' = "running"
BY UpdateStart DEF Outcome

LEMMA FailedTries ==
  ASSUME IInv, Options, UpdateFailed
  PROVE  Promise!Next \/ UNCHANGED Promise!vars
<1> USE DEF options, memory, focus
<1>1. /\ Outcome = "running" /\ Outcome' = "running" /\ UNCHANGED findings
      /\ pc = "update_graph" /\ Sound(graph) /\ current \in Reached
  BY UpdateRuns, UpdateStart
  DEF UpdateGraph, UpdateFailed, FocusAgrees, IInv, TypeOK, Reached
<1>2. CASE decision.edge = NoEdge
  <2>1. graph' = graph BY <1>2 DEF UpdateFailed
  <2> QED BY <1>1, <2>1, Silent DEF SameGraph
<1>3. CASE decision.edge # NoEdge
  <2>1. decision.edge \in OfferedIn(graph) BY <1>1, <1>3 DEF Options, Offered, OfferedIn
  <2>2. graph' = MarkFailed(graph, decision.edge) BY <1>3 DEF UpdateFailed
  <2>3. /\ Offered' = Offered /\ Tried' = Tried \cup {decision.edge} /\ Reached' = Reached
    BY <1>1, <2>1, <2>2, MarkTries
    DEF Offered, Tried, Reached, OfferedIn, TriedIn, ReachedIn
  <2>4. Promise!Learn BY <1>1, <2>3, NothingLearned
  <2>5. Promise!Reach BY <2>3, UrlAssumption DEF Promise!Reach
  <2>6. decision.edge \in Offered BY <2>1 DEF Offered, OfferedIn
  <2> QED BY <1>1, <2>3, <2>4, <2>5, <2>6 DEF Promise!Next, Promise!Explore, Promise!Try
<1> QED BY <1>2, <1>3

LEMMA FollowTries ==
  ASSUME IInv, Options, UpdateFollow
  PROVE  Promise!Next
<1> DEFINE e == decision.edge
           m == ProposedNode(e, LandedUrl)
           n == EnsuredNode(graph, m, LandedUrl)
           g == EnsureNode(graph, m, LandedUrl)
           h == [g EXCEPT !.child[e] = n]
<1>1. /\ TypeOK /\ Sound(graph) /\ DecisionReady /\ pc = "update_graph"
      /\ Outcome = "running" /\ Outcome' = "running"
  BY UpdateStart, UpdateRuns DEF UpdateGraph
<1>2. e \in Edge /\ e \in Offered
  BY <1>1, EdgeIsReal DEF UpdateFollow, Update, DecisionReady, EdgeActions, Options
<1>3. LandedUrl \in Url /\ (result.page # NoPage => result.page.url \in Url)
  BY <1>1, <1>2 DEF LandedUrl, TypeOK, Result, Page, Edge
<1>4. m \in Node
  <2>1. graph.child[e] \in Node \cup {NoUrl} BY <1>1, <1>2 DEF TypeOK, GraphType
  <2> QED BY <1>3, <2>1 DEF ProposedNode
<1>5. Sound(g) /\ n \in Node /\ g.url[n] # NoUrl BY <1>1, <1>3, <1>4, EnsureNodeSound
<1>6. Sound(h) /\ h.url = g.url /\ h.edge = g.edge
  BY <1>2, <1>5, SideUpdatesSound DEF Sound, GraphType
<1>7. graph' = MarkUseful(h, e)
  BY DEF UpdateFollow
<1>8. \/ UNCHANGED findings
      \/ /\ result.page # NoPage
         /\ findings' = findings \cup Matches(result.page.url, n, result.verdict)
  BY DEF UpdateFollow, Validated
<1> HIDE DEF e, m, n, g, h
<1>9. /\ OfferedIn(h) = Offered /\ TriedIn(h) = Tried
      /\ ReachedIn(h) \in {Reached, Reached \cup {m}}
  <2>1. /\ OfferedIn(h) = OfferedIn(g) /\ TriedIn(h) = TriedIn(g) /\ ReachedIn(h) = ReachedIn(g)
    BY <1>6 DEF OfferedIn, TriedIn, ReachedIn
  <2> QED BY <1>1, <1>3, <1>4, <2>1, EnsureReaches
          DEF g, Offered, Tried, Reached, OfferedIn, TriedIn, ReachedIn
<1>10. Offered' = Offered /\ Tried' = Tried \cup {e} /\ Reached' = ReachedIn(h)
  BY <1>2, <1>6, <1>7, <1>9, MarkTries
  DEF Offered, Tried, Reached, OfferedIn, TriedIn, ReachedIn
<1>11. n \in Reached' BY <1>5, <1>6, <1>10 DEF ReachedIn
<1>12. Promise!Learn BY <1>3, <1>8, <1>11, MatchesLearn, NothingLearned
<1>13. Promise!Reach
  <2>1. Reached' \in {Reached, Reached \cup {m}} BY <1>9, <1>10
  <2> QED BY <1>4, <2>1 DEF Promise!Reach
<1> QED BY <1>1, <1>2, <1>10, <1>12, <1>13 DEF Promise!Next, Promise!Explore, Promise!Try

LEMMA ContentOwnerReached ==
  ASSUME IInv, Options PROVE ContentOwner \in Reached
BY DEF ContentOwner, Options, IInv, FocusAgrees, TypeOK, Reached

LEMMA ArtifactTries ==
  ASSUME IInv, Options, UpdateDownload \/ UpdateOpen
  PROVE  Promise!Next
<1>1. /\ TypeOK /\ Sound(graph) /\ DecisionReady /\ pc = "update_graph"
      /\ Outcome = "running" /\ Outcome' = "running"
      /\ result.status = "ok" => ResultReady
  BY UpdateStart, UpdateRuns DEF UpdateGraph
<1>2. /\ decision.edge \in Edge /\ decision.edge \in Offered /\ result.download \in Url
  BY <1>1, EdgeIsReal
  DEF UpdateDownload, UpdateOpen, Update, DecisionReady, ResultReady, EdgeActions, Options
<1>3. /\ graph' = MarkUseful(graph, decision.edge)
      /\ findings' = findings \cup Matches(result.download, ContentOwner, result.verdict)
  BY DEF UpdateDownload, UpdateOpen, Validated
<1>4. Offered' = Offered /\ Tried' = Tried \cup {decision.edge} /\ Reached' = Reached
  BY <1>1, <1>2, <1>3, MarkTries DEF Offered, Tried, Reached, OfferedIn, TriedIn, ReachedIn
<1>5. Promise!Learn BY <1>2, <1>3, <1>4, ContentOwnerReached, MatchesLearn
<1>6. Promise!Reach BY <1>4, UrlAssumption DEF Promise!Reach
<1> QED BY <1>1, <1>2, <1>4, <1>5, <1>6 DEF Promise!Next, Promise!Explore, Promise!Try

LEMMA ValidateLooks ==
  ASSUME IInv, UpdateValidate
  PROVE  Promise!Next
<1>1. /\ TypeOK /\ FocusAgrees /\ DecisionReady
      /\ Outcome = "running" /\ Outcome' = "running"
  BY UpdateStart, UpdateRuns DEF UpdateGraph
<1>2. Target(current) \in Url /\ current \in Reached
  BY <1>1, TargetType
  DEF UpdateValidate, Update, DecisionReady, MaybeUrl, TypeOK, FocusAgrees, Reached
<1>3. /\ findings' = findings \cup Matches(Target(current), current, result.verdict)
      /\ Offered' = Offered /\ Tried' = Tried /\ Reached' = Reached
  BY DEF UpdateValidate, Validated, Offered, Tried, Reached
<1>4. Promise!Learn BY <1>2, <1>3, MatchesLearn
<1>5. Offered' = Offered \cup ({current} \X {}) BY <1>3
<1> QED BY <1>1, <1>2, <1>3, <1>4, <1>5 DEF Promise!Next, Promise!Explore, Promise!Look

LEMMA SearchReaches ==
  ASSUME IInv, UpdateSearch
  PROVE  Promise!Next
<1> DEFINE u == result.page.url
           g == IF result.create THEN EnsureNode(graph, u, u) ELSE graph
<1>1. /\ TypeOK /\ Sound(graph) /\ DecisionReady
      /\ Outcome = "running" /\ Outcome' = "running"
      /\ result.status = "ok" => ResultReady
  BY UpdateStart, UpdateRuns DEF UpdateGraph
<1>2. u \in Url BY <1>1 DEF UpdateSearch, Update, ResultReady, Page
<1>3. /\ Sound(g)
      /\ OfferedIn(g) = Offered /\ TriedIn(g) = Tried
      /\ ReachedIn(g) \in {Reached, Reached \cup {u}}
  <2>1. OfferedIn(graph) = Offered /\ TriedIn(graph) = Tried /\ ReachedIn(graph) = Reached
    BY DEF Offered, Tried, Reached, OfferedIn, TriedIn, ReachedIn
  <2>2. CASE result.create
    <3>1. g = EnsureNode(graph, u, u) BY <2>2
    <3> HIDE DEF g
    <3> QED BY <1>1, <1>2, <2>1, <3>1, EnsureReaches, EnsureNodeSound
  <2>3. CASE ~ result.create
    <3>1. g = graph BY <2>3
    <3> HIDE DEF g
    <3> QED BY <1>1, <2>1, <3>1
  <2> QED BY <2>2, <2>3
<1>4. graph' = [g EXCEPT !.inspected = @ \ {SearchNode}] /\ UNCHANGED findings
  BY DEF UpdateSearch
<1> HIDE DEF g
<1>5. graph'.edge = g.edge /\ graph'.url = g.url BY <1>3, <1>4 DEF Sound, GraphType
<1>6. Offered' = Offered /\ Tried' = Tried /\ Reached' \in {Reached, Reached \cup {u}}
  BY <1>3, <1>5 DEF Offered, Tried, Reached, OfferedIn, TriedIn, ReachedIn
<1>7. Promise!Reach BY <1>2, <1>6 DEF Promise!Reach
<1> QED BY <1>1, <1>4, <1>6, <1>7 DEF Promise!Next, Promise!Explore, Promise!Search

LEMMA ExhaustedIsSilent ==
  ASSUME IInv, UpdateExhausted
  PROVE  UNCHANGED Promise!vars
<1>1. Sound(graph) /\ Outcome' = Outcome BY UpdateStart, UpdateRuns DEF UpdateGraph
<1>2. SameGraph
  BY <1>1 DEF UpdateExhausted, SameGraph, MarkExhausted, Sound, GraphType
<1> QED BY <1>1, <1>2, Silent DEF UpdateExhausted

(* The three ways a run ends, and the state in which it stays.              *)
LEMMA EndingConcludes ==
  ASSUME IInv, StepLimit \/ PortFailure \/ Finish \/ Terminated
  PROVE  Promise!Next \/ UNCHANGED Promise!vars
<1> USE DEF options, memory, focus
<1>1. CASE Terminated
  BY <1>1, Silent DEF Terminated, vars, SameGraph, Outcome
<1>2. SUFFICES ASSUME StepLimit \/ PortFailure \/ Finish PROVE Promise!Next
  BY <1>1
<1>3. /\ SameGraph /\ UNCHANGED findings /\ Outcome = "running"
  BY <1>2 DEF StepLimit, PortFailure, Finish, At, SameGraph, Outcome, Working, Terminal
<1>4. UNCHANGED <<Reached, Offered, Tried, findings>>
  BY <1>3 DEF SameGraph, Reached, Offered, Tried
<1>5. CASE StepLimit \/ PortFailure
  <2>1. Outcome' = "raised" BY <1>5 DEF StepLimit, PortFailure, Outcome
  <2> QED BY <1>3, <1>4, <2>1 DEF Promise!Next, Promise!Abandon
<1>6. CASE Finish
  <2>1. Outcome' = IF Cond # {} /\ Conditions = Cond THEN "success" ELSE "fail"
    BY <1>6 DEF Finish, At, Outcome, IInv, EndsRight, TerminalRoute, Terminal
  <2> QED BY <1>3, <1>4, <2>1 DEF Promise!Next, Promise!Conclude, Conditions
<1> QED BY <1>2, <1>5, <1>6

LEMMA InitPromise == Init => Promise!Init /\ Options
<1> SUFFICES ASSUME Init PROVE Promise!Init /\ Options
  OBVIOUS
<1>1. \A n \in Node : graph.url[n] = IF n = EntryUrl THEN EntryUrl ELSE NoUrl
  BY UrlAssumption DEF Init, RegisterNode, EmptyGraph
<1>2. \A e \in Edge : graph.edge[e] = "absent" BY DEF Init, RegisterNode, EmptyGraph
<1>3. Reached = {EntryUrl} BY <1>1, UrlAssumption DEF Reached
<1>4. Offered = {} /\ Tried = {} BY <1>2 DEF Offered, Tried
<1>5. Outcome = "running" BY DEF Init, Outcome
<1> QED BY <1>3, <1>4, <1>5 DEF Init, Promise!Init, Options

LEMMA NextPromise ==
  ASSUME IInv, Options, [Next]_vars
  PROVE  [Promise!Next]_Promise!vars
<1>1. CASE UNCHANGED vars
  BY <1>1, Silent DEF vars, SameGraph, Outcome
<1>2. CASE ClassifyNode \/ DecideAction \/ ExecuteAction \/ AdvanceBranch BY <1>2, QuietStep
<1>3. CASE InspectNode \/ BuildNodeView BY <1>3, LookStep
<1>4. CASE UpdateGraph
  BY <1>4, FailedTries, FollowTries, ArtifactTries, ValidateLooks, SearchReaches, ExhaustedIsSilent
  DEF UpdateGraph
<1>5. CASE StepLimit \/ PortFailure \/ Finish \/ Terminated BY <1>5, EndingConcludes
<1> QED BY <1>1, <1>2, <1>3, <1>4, <1>5 DEF Next

(* Nothing reached or offered is ever taken back.                           *)
LEMMA PromiseGrows ==
  ASSUME [Promise!Next]_Promise!vars
  PROVE  Reached \subseteq Reached' /\ Offered \subseteq Offered'
BY DEF Promise!Next, Promise!vars, Promise!Explore, Promise!Look, Promise!Try, Promise!Search,
       Promise!Reach, Promise!Conclude, Promise!Abandon

(* Choice points are seeded from the candidates of the current node, and    *)
(* reprioritising or consuming them makes no new ones.                      *)
LEMMA SeedTargets ==
  ASSUME NEW chosen, Seed(chosen)
  PROVE  \A q \in points' : q \in points \/ (q.from = scope /\ q.to \in PendingEdges(graph, current))
<1>1. PICK S \in SeedChoices(points, PendingEdges(graph, current), chosen,
                             PendingYears(Conditions)) :
        points' = points \cup SeedPoints(scope, S, Tip(path), PendingYears(Conditions))
  BY DEF Seed
<1>2. S \subseteq PendingEdges(graph, current) BY DEF SeedChoices, Seedable
<1> QED BY <1>1, <1>2 DEF SeedPoints

LEMMA ReprioritizeTargets ==
  ASSUME NEW ps \in SUBSET Point, NEW years
  PROVE  \A q \in Reprioritize(ps, years) : \E p \in ps : q.from = p.from /\ q.to = p.to
<1>1. \A p \in ps : LET q == [p EXCEPT !.prio = Priority(p.to, years)]
                    IN  q.from = p.from /\ q.to = p.to
  BY DEF Point
<1> QED BY <1>1 DEF Reprioritize

PointsKept == \A q \in points' : \E p \in points : q.from = p.from /\ q.to = p.to

(* What a step may do to the options without leaving the graph.             *)
LEMMA OptionsKept ==
  ASSUME Options, [Promise!Next]_Promise!vars,
         owner' = owner \/ owner' \in Reached',
         arrival'.edge \in {arrival.edge, NoEdge} \/ arrival'.edge \in Offered',
         \A q \in points' : \/ <<q.from, q.to>> \in Offered'
                            \/ \E p \in points : q.from = p.from /\ q.to = p.to,
         pc' \in {"execute_action", "update_graph"}
           => \/ decision'.edge \in {NoEdge} \cup Offered'
              \/ pc \in {"execute_action", "update_graph"} /\ UNCHANGED decision
  PROVE  Options'
BY PromiseGrows DEF Options

LEMMA DecideOptions ==
  ASSUME IInv, Options, DecideAction
  PROVE  Options'
<1> USE DEF options, memory, focus
<1>1. /\ UNCHANGED <<graph, focus>> /\ pc' = "execute_action" /\ TypeOK /\ scope = current
      /\ current \in Node
  BY DEF DecideAction, IInv, FocusAgrees, TypeOK
<1>2. Offered' = Offered BY <1>1 DEF Offered
<1>3. \A u \in PendingEdges(graph, current) : <<current, u>> \in Offered
  BY <1>1 DEF PendingEdges, Offered, Edge
<1>4. CASE DecideEdge
  <2>1. PICK d \in EdgeDecisions(current) :
          Decide(d[1], <<current, d[2]>>, NoUrl) /\ Seed(d[2])
    BY <1>4 DEF DecideEdge
  <2>2. d[2] \in PendingEdges(graph, current) BY DEF EdgeDecisions
  <2>3. decision'.edge = <<current, d[2]>> BY <2>1 DEF Decide
  <2>4. \A q \in points' : <<q.from, q.to>> \in Offered
    BY <1>1, <1>3, <2>1, SeedTargets DEF Options
  <2> QED BY <1>1, <1>2, <1>3, <2>2, <2>3, <2>4, NextPromise, OptionsKept DEF Next
<1>5. CASE DecideOpenLeaf
  <2>1. decision'.edge \in Offered /\ UNCHANGED points
    BY <1>5 DEF DecideOpenLeaf, Decide, Offered
  <2> QED BY <1>1, <1>2, <2>1, NextPromise, OptionsKept DEF Next
<1>6. CASE ~ DecideEdge /\ ~ DecideOpenLeaf
  <2>1. decision'.edge = NoEdge /\ UNCHANGED points
    BY <1>6 DEF DecideAction, DecideValidate, DecideSearch, DecideRefine, DecideExhausted,
                DecideSuccess, Decide
  <2> QED BY <1>1, <1>2, <2>1, NextPromise, OptionsKept DEF Next
<1> QED BY <1>4, <1>5, <1>6

LEMMA UpdateOptions ==
  ASSUME IInv, Options, UpdateGraph
  PROVE  Options'
<1> USE DEF options, memory, focus
<1>1. TypeOK /\ pc = "update_graph" /\ pc' = "advance_branch" BY UpdateStart
<1>2. [Promise!Next]_Promise!vars BY NextPromise DEF Next
<1>3. PointsKept
  <2>1. Reprioritized \/ UNCHANGED points
    BY DEF UpdateGraph, UpdateFailed, UpdateFollow, UpdateDownload, UpdateOpen, UpdateValidate,
           UpdateSearch, UpdateExhausted
  <2> QED BY <1>1, <2>1, ReprioritizeTargets DEF Reprioritized, PointsKept, TypeOK
<1>4. CASE UpdateFailed \/ UpdateExhausted
  BY <1>1, <1>2, <1>3, <1>4, OptionsKept DEF UpdateFailed, UpdateExhausted, PointsKept
<1>5. CASE UpdateFollow
  <2> DEFINE n == EnsuredNode(graph, ProposedNode(decision.edge, LandedUrl), LandedUrl)
  <2>1. Arrive(n, decision.edge) BY <1>5 DEF UpdateFollow
  <2>2. decision.edge \in Offered
    BY <1>1, <1>5, UpdateStart, EdgeIsReal
    DEF UpdateFollow, Update, DecisionReady, EdgeActions, Options
  <2>3. current' \in Reached' /\ owner' = current'
    <3>1. UpdateEffect /\ FocusAgrees' /\ TypeOK'
      BY <1>5, UpdateGraphStep, UpdateFollowEffect DEF UpdateGraph, IInv
    <3> QED BY <2>1, <3>1 DEF FocusAgrees, TypeOK, Reached, Arrive
  <2>4. decision.edge \in Offered' /\ arrival'.edge = decision.edge
    BY <1>2, <2>1, <2>2, PromiseGrows DEF Arrive
  <2> QED BY <1>1, <1>2, <1>3, <2>3, <2>4, OptionsKept DEF PointsKept
<1>6. CASE UpdateDownload \/ UpdateOpen
  <2>1. owner' \in Reached' /\ UNCHANGED arrival
    BY <1>2, <1>6, ContentOwnerReached, PromiseGrows DEF UpdateDownload, UpdateOpen
  <2> QED BY <1>1, <1>2, <1>3, <2>1, OptionsKept DEF PointsKept
<1>7. CASE UpdateValidate
  <2>1. (owner' = owner \/ owner' \in Reached') /\ UNCHANGED arrival
    <3>1. current \in Reached BY DEF IInv, FocusAgrees, TypeOK, Reached
    <3> QED BY <1>2, <1>7, <3>1, PromiseGrows DEF UpdateValidate
  <2> QED BY <1>1, <1>2, <1>3, <2>1, OptionsKept DEF PointsKept
<1>8. CASE UpdateSearch
  <2>1. owner' = current' /\ arrival'.edge \in {arrival.edge, NoEdge}
    BY <1>8 DEF UpdateSearch, Arrive
  <2>2. current' \in Reached'
    BY UpdateGraphStep DEF IInv, FocusAgrees, TypeOK, Reached
  <2> QED BY <1>1, <1>2, <1>3, <2>1, <2>2, OptionsKept DEF PointsKept
<1> QED BY <1>4, <1>5, <1>6, <1>7, <1>8 DEF UpdateGraph

LEMMA AdvanceOptions ==
  ASSUME IInv, Options, AdvanceBranch
  PROVE  Options'
<1> USE DEF options, memory, focus
<1>1. /\ pc = "advance_branch" /\ graph' = Advanced /\ [Promise!Next]_Promise!vars
  BY NextPromise DEF AdvanceBranch, At, Next
<1>2. AdvanceEffect
  BY <1>1, ContinueEffect, ResumeAnchorEffect, ResumePointEffect, RestartRootEffect, StopEffect
  DEF AdvanceBranch
<1>3. UNCHANGED <<arrival, owner>> /\ points' \subseteq points BY <1>2 DEF AdvanceEffect
<1>4. pc' = "execute_action" => decision'.edge \in Offered
  <2>1. SUFFICES ASSUME pc' = "execute_action" PROVE decision'.edge \in Offered
    OBVIOUS
  <2>2. ResumePoint
    BY <1>1, <2>1 DEF AdvanceBranch, Continue, ResumeAnchor, RestartRoot, Stop, InspectOrFail,
                      TerminalRoute
  <2>3. PICK r \in Resumes("point") :
          decision'.edge = <<r.point.from, r.point.to>>
    BY <2>1, <2>2 DEF ResumePoint, InspectOrFail
  <2>4. r.point \in points BY <2>3, ResumptionsLive DEF Resumes, Live, Viable
  <2> QED BY <2>3, <2>4 DEF Options
<1>5. pc' # "update_graph" BY <1>2 DEF AdvanceEffect, TerminalRoute
<1> QED BY <1>1, <1>3, <1>4, <1>5, PromiseGrows, OptionsKept

LEMMA NextOptions ==
  ASSUME IInv, Options, [Next]_vars
  PROVE  Options'
<1> USE DEF options, memory, focus
<1>1. [Promise!Next]_Promise!vars BY NextPromise
<1>2. CASE UNCHANGED vars BY <1>1, <1>2, OptionsKept DEF vars
<1>3. CASE InspectNode \/ ClassifyNode \/ BuildNodeView \/ StepLimit \/ PortFailure \/ Finish
           \/ Terminated
  BY <1>1, <1>3, OptionsKept
  DEF InspectNode, ClassifyNode, BuildNodeView, StepLimit, PortFailure, Finish, Terminated, vars
<1>4. CASE DecideAction BY <1>4, DecideOptions
<1>5. CASE ExecuteAction
  <2>1. PICK r \in Result : Responds(r) BY <1>5, ExecuteActionResult
  <2>2. pc = "execute_action"
    BY <1>5 DEF ExecuteAction, ExecuteFollow, ExecuteDownload, ExecuteOpen, ExecuteValidate,
                ExecuteSearch, ExecuteExhausted, ExecuteSuccess, ExecuteRefine, Execute, At
  <2> QED BY <1>1, <2>1, <2>2, OptionsKept DEF Responds
<1>6. CASE UpdateGraph BY <1>6, UpdateOptions
<1>7. CASE AdvanceBranch BY <1>7, AdvanceOptions
<1> QED BY <1>2, <1>3, <1>4, <1>5, <1>6, <1>7 DEF Next

(* A run, for whatever site, decider and budget, keeps the promise of       *)
(* Exploration: it tries only what was offered, one candidate a step, takes *)
(* no place, try or finding back, files findings under places it reached,   *)
(* and ends with the verdict of its evidence (GraphUpdater, the resume      *)
(* functions of exploration_scope_policy.py and the terminal nodes).        *)
THEOREM RunKeepsPromise == Spec => ImplementsExploration
<1>1. Init => IInv /\ Options BY InitIInv, InitPromise
<1>2. IInv /\ Options /\ [Next]_vars => (IInv /\ Options)' BY NextIInv, NextOptions
<1>3. Init => Promise!Init BY InitPromise
<1>4. IInv /\ Options /\ [Next]_vars => [Promise!Next]_Promise!vars BY NextPromise
<1> QED BY <1>1, <1>2, <1>3, <1>4, PTL DEF Spec, ImplementsExploration, Promise!Spec

---------------------------------------------------------------------------
(* Choice points.                                                          *)

LEMMA SeedUnique ==
  ASSUME UniquePoints, NEW chosen, Seed(chosen)
  PROVE  UniquePoints'
<1>1. PICK S \in SeedChoices(points, PendingEdges(graph, current), chosen,
                             PendingYears(Conditions)) :
        points' = points \cup SeedPoints(scope, S, Tip(path), PendingYears(Conditions))
  BY DEF Seed
<1>2. \A u \in S, p \in points : p.to # u BY DEF SeedChoices, Seedable
<1>3. \A p, q \in SeedPoints(scope, S, Tip(path), PendingYears(Conditions)) :
        p.to \in S /\ (p.to = q.to => p = q)
  BY DEF SeedPoints
<1> QED BY <1>1, <1>2, <1>3 DEF UniquePoints

LEMMA ReprioritizeUnique ==
  ASSUME UniquePoints, NEW years, points \subseteq Point
  PROVE  \A p, q \in Reprioritize(points, years) : p.to = q.to => p = q
<1>1. CASE years = {} BY <1>1 DEF Reprioritize, UniquePoints
<1>2. CASE years # {}
  <2> SUFFICES ASSUME NEW p \in Reprioritize(points, years), NEW q \in Reprioritize(points, years),
                      p.to = q.to
               PROVE  p = q
    OBVIOUS
  <2>1. PICK x \in points : p = [x EXCEPT !.prio = Priority(x.to, years)]
    BY <1>2 DEF Reprioritize
  <2>2. PICK y \in points : q = [y EXCEPT !.prio = Priority(y.to, years)]
    BY <1>2 DEF Reprioritize
  <2>3. x.to = y.to BY <2>1, <2>2 DEF Point
  <2> QED BY <2>1, <2>2, <2>3 DEF UniquePoints
<1> QED BY <1>1, <1>2

LEMMA NextUnique ==
  ASSUME IInv, UniquePoints, [Next]_vars
  PROVE  UniquePoints'
<1> USE DEF options, memory, focus
<1>1. CASE points' \subseteq points BY <1>1 DEF UniquePoints
<1>2. CASE DecideAction
  <2>1. CASE DecideEdge BY <2>1, SeedUnique DEF DecideEdge
  <2>2. CASE ~ DecideEdge
    BY <1>1, <1>2, <2>2 DEF DecideAction, DecideOpenLeaf, DecideValidate, DecideSearch,
                            DecideRefine, DecideExhausted, DecideSuccess
  <2> QED BY <2>1, <2>2
<1>3. CASE UpdateGraph
  <2>1. CASE Reprioritized
    BY <2>1, ReprioritizeUnique DEF Reprioritized, UniquePoints, IInv, TypeOK
  <2>2. CASE ~ Reprioritized
    BY <1>1, <1>3, <2>2
    DEF UpdateGraph, UpdateFailed, UpdateFollow, UpdateDownload, UpdateOpen, UpdateValidate,
        UpdateSearch, UpdateExhausted
  <2> QED BY <2>1, <2>2
<1>4. CASE AdvanceBranch
  BY <1>1, <1>4 DEF AdvanceBranch, Continue, ResumeAnchor, ResumePoint, RestartRoot, Stop, Consume
<1>5. CASE ExecuteAction
  <2>1. PICK r \in Result : Responds(r) BY <1>5, ExecuteActionResult
  <2> QED BY <1>1, <2>1 DEF Responds
<1>6. CASE InspectNode \/ ClassifyNode \/ BuildNodeView \/ StepLimit \/ PortFailure \/ Finish
           \/ Terminated \/ UNCHANGED vars
  BY <1>1, <1>6
  DEF InspectNode, ClassifyNode, BuildNodeView, StepLimit, PortFailure, Finish, Terminated, vars
<1> QED BY <1>2, <1>3, <1>4, <1>5, <1>6 DEF Next

(* Two open choice points never wait for the same target: seeding looks at  *)
(* the open ones, and reprioritising keeps the target of each               *)
(* (seed_choice_points_from_non_selected_candidates,                        *)
(* reprioritize_choice_points).                                             *)
THEOREM OnePointPerTarget == Spec => []UniquePoints
<1>1. Init => UniquePoints BY DEF Init, UniquePoints
<1>2. IInv /\ UniquePoints /\ [Next]_vars => UniquePoints' BY NextUnique
<1> QED BY <1>1, <1>2, SpecIInv, PTL DEF Spec

---------------------------------------------------------------------------
(* Failed edges, when the decider opens no file by the edge that led to it. *)

FromCandidates == "open_artifact" \notin Decisions

Untried == pc \in {"execute_action", "update_graph"} /\ decision.edge # NoEdge
             => decision.edge \in Edge /\ graph.edge[decision.edge] # "failed"

LEMMA AdvanceUntried ==
  ASSUME IInv, AdvanceBranch
  PROVE  Untried'
<1> USE DEF options, memory, focus
<1>1. pc = "advance_branch" /\ graph' = Advanced /\ graph'.edge = graph.edge
  BY AdvancedSound DEF AdvanceBranch, At
<1>2. CASE ResumePoint
  <2>1. PICK r \in Resumes("point") :
          IF graph.edge[<<r.point.from, r.point.to>>] = "failed"
          THEN InspectOrFail(r.point.from) /\ UNCHANGED decision
          ELSE /\ pc' = "execute_action"
               /\ decision' = [action |-> "follow_edge",
                               edge |-> <<r.point.from, r.point.to>>, query |-> NoUrl]
    BY <1>2 DEF ResumePoint
  <2>2. r.point \in points BY <2>1, ResumptionsLive DEF Resumes, Live, Viable
  <2>3. <<r.point.from, r.point.to>> \in Edge BY <2>2 DEF IInv, TypeOK, Point, Edge
  <2> QED BY <1>1, <2>1, <2>3 DEF Untried, InspectOrFail
<1>3. CASE ~ ResumePoint
  BY <1>1, <1>3 DEF AdvanceBranch, Continue, ResumeAnchor, RestartRoot, Stop, InspectOrFail,
                    TerminalRoute, Untried
<1> QED BY <1>2, <1>3

LEMMA NextUntried ==
  ASSUME IInv, Untried, FromCandidates, [Next]_vars
  PROVE  Untried'
<1> USE DEF options, memory, focus
<1>1. CASE DecideAction
  <2>1. UNCHANGED graph /\ current \in Node BY <1>1 DEF DecideAction, IInv, TypeOK
  <2>2. CASE DecideEdge
    <3>1. PICK d \in EdgeDecisions(current) : decision'.edge = <<current, d[2]>>
      BY <2>2 DEF DecideEdge, Decide
    <3>2. d[2] \in Url /\ graph.edge[<<current, d[2]>>] = "discovered"
      BY DEF EdgeDecisions, PendingEdges
    <3> QED BY <2>1, <3>1, <3>2 DEF Untried, Edge
  <2>3. CASE ~ DecideEdge
    BY <1>1, <2>3 DEF DecideAction, DecideOpenLeaf, DecideValidate, DecideSearch,
                      DecideRefine, DecideExhausted, DecideSuccess, Decide, Untried, FromCandidates
  <2> QED BY <2>2, <2>3
<1>2. CASE ExecuteAction
  <2>1. PICK r \in Result : Responds(r) BY <1>2, ExecuteActionResult
  <2>2. pc = "execute_action"
    BY <1>2 DEF ExecuteAction, ExecuteFollow, ExecuteDownload, ExecuteOpen, ExecuteValidate,
                ExecuteSearch, ExecuteExhausted, ExecuteSuccess, ExecuteRefine, Execute, At
  <2> QED BY <2>1, <2>2 DEF Responds, Untried
<1>3. CASE AdvanceBranch BY <1>3, AdvanceUntried
<1>4. CASE UpdateGraph BY <1>4, UpdateStart DEF Untried
<1>5. CASE InspectNode \/ ClassifyNode \/ BuildNodeView \/ StepLimit \/ PortFailure \/ Finish
           \/ Terminated \/ UNCHANGED vars
  BY <1>5 DEF InspectNode, ClassifyNode, BuildNodeView, StepLimit, PortFailure, Finish,
              Terminated, vars, Untried, Ended
<1> QED BY <1>1, <1>2, <1>3, <1>4, <1>5 DEF Next

FailuresKept == \A e \in Edge : graph.edge[e] = "failed" => graph'.edge[e] = "failed"

LEMMA FailedKept ==
  ASSUME IInv, Untried, [Next]_vars
  PROVE  FailuresKept
<1> USE DEF options, memory, focus
<1>1. /\ Sound(graph) /\ TypeOK /\ graph.edge \in [Edge -> EdgeStatus]
  BY DEF IInv, Sound, GraphType
<1>2. CASE graph'.edge = graph.edge BY <1>2 DEF FailuresKept
<1>3. ASSUME NEW n \in Node, NEW T \in SUBSET Url, graph'.edge = MergedEdges(graph, n, T)
      PROVE  FailuresKept
  BY <1>3 DEF MergedEdges, FailuresKept
<1>4. ASSUME NEW e \in Edge, graph.edge[e] # "failed" \/ graph'.edge[e] = "failed",
             \A x \in Edge : x # e => graph'.edge[x] = graph.edge[x]
      PROVE  FailuresKept
  BY <1>4 DEF FailuresKept
<1>5. CASE InspectNode \/ BuildNodeView
  <2>1. \E T \in SUBSET Url : graph'.edge \in {graph.edge, MergedEdges(graph, current, T)}
    <3>1. PICK T \in SUBSET Url :
            \/ graph' = MarkInspected(Merge(graph, current, T), current)
            \/ graph' = Merge(graph, current, T)
            \/ graph' = graph
      <4>1. CASE InspectNode
        <5>1. PICK page \in Page : Observe(page)
          BY <1>1, <4>1, SnapshotType, GraphMapperAssumption
          DEF InspectNode, InspectSnapshot, InspectPage, Page, IInv, FocusAgrees, TypeOK,
              GraphType, MaybeUrl
        <5> QED BY <5>1, CandidatesType DEF Observe
      <4>2. CASE BuildNodeView
        <5>1. graph.url[current] \in Url /\ current \in Node
          BY <1>1 DEF IInv, FocusAgrees, TypeOK, GraphType, MaybeUrl
        <5>2. Visual[graph.url[current]] \subseteq Url BY <5>1, GraphMapperAssumption
        <5> QED BY <4>2, <5>2 DEF BuildNodeView, ViewKnownNode, ViewPerceivedNode
      <4> QED BY <1>5, <4>1, <4>2
    <3>2. current \in Node BY <1>1 DEF TypeOK
    <3>3. Merge(graph, current, T).edge = MergedEdges(graph, current, T)
      BY <1>1 DEF Merge, Sound, GraphType
    <3>4. MarkInspected(Merge(graph, current, T), current).edge = MergedEdges(graph, current, T)
      BY <1>1, <3>2, <3>3, MergeSound DEF MarkInspected, Sound, GraphType
    <3> QED BY <3>1, <3>3, <3>4
  <2> QED BY <1>1, <1>2, <1>3, <2>1 DEF TypeOK
<1>6. CASE UpdateGraph
  <2>1. pc = "update_graph" /\ DecisionReady BY <1>6, UpdateStart
  <2>2. CASE UpdateFailed
    <3>1. decision.edge \in Edge \/ graph' = graph
      BY <2>1, <2>2 DEF UpdateFailed, Untried
    <3>2. graph' = graph \/ graph'.edge = [graph.edge EXCEPT ![decision.edge] = "failed"]
      BY <1>1, <2>2 DEF UpdateFailed, MarkFailed, Sound, GraphType
    <3> QED BY <1>1, <1>2, <1>4, <3>1, <3>2
  <2>3. CASE UpdateFollow \/ UpdateDownload \/ UpdateOpen
    <3>1. decision.edge \in Edge /\ graph.edge[decision.edge] # "failed"
      BY <2>1, <2>3, EdgeIsReal
      DEF UpdateFollow, UpdateDownload, UpdateOpen, Update, DecisionReady, EdgeActions, Untried
    <3>2. graph'.edge = [graph.edge EXCEPT ![decision.edge] = "useful"]
      <4>1. CASE UpdateFollow
        <5> DEFINE m == ProposedNode(decision.edge, LandedUrl)
                   n == EnsuredNode(graph, m, LandedUrl)
                   g == EnsureNode(graph, m, LandedUrl)
        <5>1. g.edge = graph.edge /\ g \in [DOMAIN graph -> {g[x] : x \in DOMAIN graph}]
          BY <1>1 DEF EnsureNode, RegisterNode, Sound, GraphType
        <5>2. graph' = MarkUseful([g EXCEPT !.child[decision.edge] = n], decision.edge)
          BY <4>1 DEF UpdateFollow
        <5> QED BY <1>1, <5>1, <5>2 DEF MarkUseful, Sound, GraphType
      <4>2. CASE UpdateDownload \/ UpdateOpen
        BY <1>1, <4>2 DEF UpdateDownload, UpdateOpen, MarkUseful, Sound, GraphType
      <4> QED BY <2>3, <4>1, <4>2
    <3> QED BY <1>1, <1>4, <3>1, <3>2
  <2>4. CASE UpdateValidate \/ UpdateSearch \/ UpdateExhausted
    <3>1. graph'.edge = graph.edge
      BY <1>1, <2>4 DEF UpdateValidate, UpdateSearch, UpdateExhausted, EnsureNode, RegisterNode,
                        MarkExhausted, Sound, GraphType
    <3> QED BY <1>2, <3>1
  <2> QED BY <1>6, <2>2, <2>3, <2>4 DEF UpdateGraph
<1>7. CASE ClassifyNode \/ DecideAction \/ ExecuteAction \/ AdvanceBranch
  <2>1. CASE ExecuteAction
    <3>1. PICK r \in Result : Responds(r) BY <2>1, ExecuteActionResult
    <3> QED BY <1>2, <3>1 DEF Responds
  <2>2. CASE AdvanceBranch BY <1>2, <2>2, AdvancedSound DEF AdvanceBranch, At
  <2> QED BY <1>2, <1>7, <2>1, <2>2 DEF ClassifyNode, DecideAction
<1>8. CASE StepLimit \/ PortFailure \/ Finish \/ Terminated \/ UNCHANGED vars
  BY <1>2, <1>8 DEF StepLimit, PortFailure, Finish, Terminated, vars
<1> QED BY <1>5, <1>6, <1>7, <1>8 DEF Next

(* A candidate that failed is never tried again, although a choice point    *)
(* may still wait for it and a later inspection of its page shows it again, *)
(* as long as the decider does not open files: guard_pdf_leaf hands out an  *)
(* edge that is closed already (_mark_edge_failed, _mark_edge_useful, the   *)
(* merge policy, resume_via_choice_point).                                  *)
THEOREM FailedEdgesStay == FromCandidates => (Spec => FailedStaysFailed)
<1> SUFFICES ASSUME FromCandidates PROVE Spec => FailedStaysFailed
  OBVIOUS
<1>1. Init => Untried BY DEF Init, Untried
<1>2. IInv /\ Untried /\ [Next]_vars => Untried' BY NextUntried
<1>3. IInv /\ Untried /\ [Next]_vars
        => [\A e \in Edge : graph.edge[e] = "failed" => graph'.edge[e] = "failed"]_vars
  BY FailedKept DEF FailuresKept
<1> QED BY <1>1, <1>2, <1>3, SpecIInv, PTL DEF Spec, FailedStaysFailed
---------------------------------------------------------------------------
(* The end of a run, when the scan may look at every choice point.          *)

LongScan == Cardinality(Url) <= ScanBudget

(* There is at most one choice point for each URL.                          *)
LEMMA FewPoints ==
  ASSUME UniquePoints, points \subseteq Point
  PROVE  IsFiniteSet(points) /\ Cardinality(points) <= Cardinality(Url)
<1> DEFINE target == [p \in points |-> p.to]
<1>1. target \in [points -> Url] BY DEF Point
<1>2. \A p, q \in points : target[p] = target[q] => p = q BY DEF UniquePoints
<1>3. target \in Injection(points, Url) BY <1>1, <1>2 DEF Injection, IsInjective
<1> QED BY <1>3, UrlAssumption, FS_Injection

(* Some of finitely many choice points have the highest priority: those with *)
(* the fewest above them.                                                    *)
LEMMA HighestPriority ==
  ASSUME NEW V, V \subseteq Point, IsFiniteSet(V), V # {}
  PROVE  \E p \in V : \A q \in V : q.prio <= p.prio
<1> DEFINE T == {k \in Nat : \E p \in V : k = Cardinality(Above(V, p))}
<1>1. \A p \in V : /\ IsFiniteSet(Above(V, p)) /\ Cardinality(Above(V, p)) \in Nat
  <2> TAKE p \in V
  <2>1. Above(V, p) \in SUBSET V BY DEF Above
  <2> QED BY <2>1, FS_Subset, FS_CardinalityType
<1>2. T \subseteq Nat /\ T # {} BY <1>1
<1>3. PICK k \in T : \A j \in T : ~ (<<j, k>> \in OpToRel(<, Nat))
  BY <1>2, WFMin, NatLessThanWellFounded, Zenon
<1>4. \A j \in T : ~ (j < k) BY <1>3 DEF OpToRel
<1>5. PICK p \in V : k = Cardinality(Above(V, p)) BY <1>3
<1>6. ASSUME NEW q \in V, ~ (q.prio <= p.prio) PROVE FALSE
  <2>1. p.prio \in Nat /\ q.prio \in Nat BY DEF Point
  <2>2. Above(V, q) \in SUBSET Above(V, p) BY <1>6, <2>1 DEF Above, Point
  <2>3. q \in Above(V, p) /\ q \notin Above(V, q) BY <1>6, <2>1 DEF Above
  <2>4. /\ Cardinality(Above(V, q)) <= Cardinality(Above(V, p))
        /\ Cardinality(Above(V, q)) # Cardinality(Above(V, p))
    BY <1>1, <2>2, <2>3, FS_Subset
  <2>5. Cardinality(Above(V, q)) \in T BY <1>1
  <2>6. Cardinality(Above(V, q)) < k BY <1>1, <1>5, <2>4
  <2> QED BY <1>4, <2>5, <2>6
<1> QED BY <1>6

(* A scan that may look at every choice point overlooks none.               *)
LEMMA ScanFinds ==
  ASSUME LongScan, UniquePoints, points \subseteq Point, NEW g, NEW n,
         NoPoint \in PointChoices(points, g, n)
  PROVE  Viable(points, g, n) = {}
<1> DEFINE viable == Viable(points, g, n)
           dead   == points \ viable
           first  == {p \in viable : \A q \in viable : q.prio <= p.prio}
<1>1. NoPoint \notin points BY UrlAssumption DEF NoPoint, Point
<1>2. viable \in SUBSET points BY DEF Viable
<1>3. IsFiniteSet(points) /\ Cardinality(points) <= Cardinality(Url) BY FewPoints
<1>4. \A q \in first : Cardinality(Above(dead, q) \cup Level(dead, q)) >= ScanBudget
  BY <1>1, <1>2 DEF PointChoices
<1> SUFFICES ASSUME viable # {} PROVE FALSE
  OBVIOUS
<1>5. PICK q \in first : TRUE
  <2>1. IsFiniteSet(viable) /\ viable \subseteq Point BY <1>2, <1>3, FS_Subset
  <2> HIDE DEF viable
  <2> QED BY <2>1, HighestPriority
<1> DEFINE before == Above(dead, q) \cup Level(dead, q)
<1>6. before \in SUBSET points /\ q \in points \ before
  BY <1>2, <1>5 DEF Above, Level
<1>7. /\ IsFiniteSet(before) /\ Cardinality(before) <= Cardinality(points)
      /\ Cardinality(before) # Cardinality(points)
  BY <1>3, <1>6, FS_Subset
<1>8. /\ Cardinality(before) \in Nat /\ Cardinality(points) \in Nat /\ Cardinality(Url) \in Nat
  BY <1>3, <1>7, UrlAssumption, FS_CardinalityType
<1>9. Cardinality(before) >= ScanBudget BY <1>4, <1>5
<1> HIDE DEF before
<1> QED BY <1>3, <1>7, <1>8, <1>9, PolicyAssumption DEF LongScan

LEMMA StopFinds ==
  ASSUME LongScan, IInv, UniquePoints, Stop, pc = "advance_branch", graph' = Advanced
  PROVE  NoPointLeft'
<1> USE DEF focus, options
<1>1. PICK r \in Resumes("stop") : TRUE BY DEF Stop
<1> DEFINE lower == IF RootAvailable(Advanced) THEN "root" ELSE "stop"
           Of(p) == IF p = NoPoint THEN [kind |-> lower, node |-> NoUrl, point |-> NoPoint]
                    ELSE [kind |-> "point", node |-> NoUrl, point |-> p]
           below == {Of(p) : p \in PointChoices(points, Advanced, scope)}
<1>2. r \in Resumptions(points, anchors, Advanced, scope) /\ r.kind = "stop"
  BY <1>1 DEF Resumes
<1>3. PICK a \in AnchorChoices(anchors, Advanced, scope) :
        r \in IF a = NoUrl THEN below
              ELSE {[kind |-> "anchor", node |-> a, point |-> NoPoint]}
  BY <1>2 DEF Resumptions
<1>4. PICK p \in PointChoices(points, Advanced, scope) : r = Of(p) BY <1>2, <1>3
<1>5. p = NoPoint /\ lower = "stop" BY <1>2, <1>4
<1>6. ~ RootAvailable(Advanced) BY <1>5
<1>7. Viable(points, Advanced, scope) = {} BY <1>4, <1>5, ScanFinds DEF IInv, TypeOK
<1>8. current' = scope /\ UNCHANGED points BY DEF Stop, IInv, FocusAgrees
<1> QED BY <1>6, <1>7, <1>8 DEF NoPointLeft

(* What the policy names can be resumed: the check for an exhausted node    *)
(* passes.                                                                  *)
LEMMA ResumesAlive ==
  ASSUME IInv, pc = "advance_branch", graph' = Advanced,
         Continue \/ ResumeAnchor \/ ResumePoint \/ RestartRoot
  PROVE  pc' # "fail"
<1> USE DEF InspectOrFail
<1>1. CASE Continue BY <1>1, AdvancedSound DEF Continue
<1>2. CASE ResumeAnchor
  <2>1. PICK r \in Resumes("anchor") : InspectOrFail(r.node) BY <1>2 DEF ResumeAnchor
  <2>2. r.node \notin Advanced.exhausted BY <2>1, ResumptionsLive DEF Resumes, Live
  <2> QED BY <2>1, <2>2
<1>3. CASE ResumePoint
  <2>1. PICK r \in Resumes("point") :
          InspectOrFail(r.point.from) \/ pc' = "execute_action"
    BY <1>3 DEF ResumePoint
  <2>2. r.point.from \notin Advanced.exhausted
    BY <2>1, ResumptionsLive DEF Resumes, Live, Viable
  <2> QED BY <2>1, <2>2
<1>4. CASE RestartRoot
  <2>1. PICK r \in Resumes("root") : TRUE BY <1>4 DEF RestartRoot
  <2>2. EntryUrl \notin Advanced.exhausted
    BY <2>1, ResumptionsLive DEF Resumes, Live, RootAvailable
  <2> QED BY <1>4, <2>2 DEF RestartRoot
<1> QED BY <1>1, <1>2, <1>3, <1>4

LEMMA NextFinds ==
  ASSUME LongScan, IInv, UniquePoints, NoPointLeft, [Next]_vars
  PROVE  NoPointLeft'
<1> USE DEF options, memory, focus
<1>1. CASE UNCHANGED vars BY <1>1 DEF vars, NoPointLeft
<1>2. CASE AdvanceBranch
  <2>1. pc = "advance_branch" /\ graph' = Advanced BY <1>2 DEF AdvanceBranch, At
  <2>2. CASE Stop BY <2>1, <2>2, StopFinds
  <2>3. CASE ~ Stop BY <1>2, <2>1, <2>3, ResumesAlive DEF AdvanceBranch, NoPointLeft
  <2> QED BY <2>2, <2>3
<1>3. CASE ~ AdvanceBranch /\ Next
  <2>1. CASE ExecuteAction
    <3>1. pc' \in {"update_graph", "success", "build_node_view"} BY <2>1, ExecuteActionResult
    <3> QED BY <3>1 DEF NoPointLeft
  <2>2. CASE UpdateGraph BY <2>2, UpdateStart DEF NoPointLeft
  <2>3. CASE InspectNode \/ ClassifyNode \/ BuildNodeView \/ DecideAction
    BY <2>3 DEF InspectNode, ClassifyNode, BuildNodeView, DecideAction, NoPointLeft
  <2>4. CASE StepLimit \/ PortFailure \/ Finish \/ Terminated
    BY <2>4 DEF StepLimit, PortFailure, Finish, Terminated, Ended, vars, NoPointLeft
  <2> QED BY <1>3, <2>1, <2>2, <2>3, <2>4 DEF Next
<1> QED BY <1>1, <1>2, <1>3

(* A run fails only when no choice point and not the root could be resumed, *)
(* provided the scan of _next_viable_choice_point is long enough for the    *)
(* choice points there are: in the code it ends after 12 (OnePointPerTarget *)
(* bounds their number).  finalize_advance_branch, which fails a run at an  *)
(* exhausted node, never does.                                              *)
THEOREM FailsOnlyWhenDone == LongScan => (Spec => []NoPointLeft)
<1> SUFFICES ASSUME LongScan PROVE Spec => []NoPointLeft
  OBVIOUS
<1>1. Init => NoPointLeft BY DEF Init, NoPointLeft
<1>2. IInv /\ UniquePoints /\ NoPointLeft /\ [Next]_vars => NoPointLeft' BY NextFinds
<1> QED BY <1>1, <1>2, SpecIInv, OnePointPerTarget, PTL DEF Spec
=============================================================================
