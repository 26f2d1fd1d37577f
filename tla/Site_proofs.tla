----------------------------- MODULE Site_proofs -----------------------------
(***************************************************************************)
(* What holds of the exploration loop under a condition on the site or on  *)
(* the decider, each named where it is first needed.                       *)
(***************************************************************************)
EXTENDS Exploration_proofs

USE DEF Node

---------------------------------------------------------------------------
(* Evidence and the years still pending.                                   *)

(* Evidence for undated conditions covers no year.                          *)
LEMMA UndatedEvidence ==
  ASSUME NEW F, NEW X, \A f \in X : CondYear[f.cond] = NoYear
  PROVE  PendingYears(Satisfied(F \cup X)) = PendingYears(Satisfied(F))
<1>1. ASSUME NEW c \in Cond, CondYear[c] # NoYear
      PROVE  c \in Satisfied(F \cup X) <=> c \in Satisfied(F)
  <2>1. {g \in F \cup X : g.cond = c} = {g \in F : g.cond = c} BY <1>1
  <2> QED BY <2>1 DEF Satisfied
<1> QED BY <1>1 DEF PendingYears

---------------------------------------------------------------------------
(* The ranking of choice points, when navigation perception, which does not *)
(* reprioritise, is off or finds no evidence for a dated condition.         *)

PerceivesNoYear ==
  \/ ReturnHints = {}
  \/ \A u \in Readable :
       "positive" \in Verdicts[u] => \A c \in Evidence[u] : CondYear[c] = NoYear

Ranked ==
  PendingYears(Conditions) # {} =>
    \A p \in points : p.prio = Priority(p.to, PendingYears(Conditions))

LEMMA RankKept ==
  ASSUME Ranked, points' \subseteq points, PendingYears(Conditions)' = PendingYears(Conditions)
  PROVE  Ranked'
BY DEF Ranked

LEMMA PerceptionKeepsYears ==
  ASSUME PerceivesNoYear, BuildNodeView
  PROVE  PendingYears(Conditions)' = PendingYears(Conditions)
<1>1. CASE UNCHANGED findings BY <1>1 DEF Conditions
<1>2. CASE ViewPerceivedNode
  <2>1. PICK hint \in ReturnHints, verdict \in PerceivedVerdicts(current) :
          findings' = findings \cup Matches(inspection[current].url, current, verdict)
    BY <1>2 DEF ViewPerceivedNode
  <2>2. \A f \in Matches(inspection[current].url, current, verdict) : CondYear[f.cond] = NoYear
    <3>1. CASE verdict = "positive"
      <4>1. /\ inspection[current].url \in Readable
            /\ "positive" \in Verdicts[inspection[current].url]
        BY <2>1, <3>1 DEF PerceivedVerdicts
      <4> QED BY <2>1, <4>1 DEF PerceivesNoYear, Matches
    <3>2. CASE verdict # "positive" BY <3>2 DEF Matches
    <3> QED BY <3>1, <3>2
  <2> QED BY <2>1, <2>2, UndatedEvidence DEF Conditions
<1> QED BY <1>1, <1>2 DEF BuildNodeView, ViewKnownNode

LEMMA ReprioritizedRanks ==
  ASSUME TypeOK, Reprioritized
  PROVE  Ranked'
<1> DEFINE years == PendingYears(Satisfied(findings'))
<1>1. years = PendingYears(Conditions)' BY DEF Conditions
<1>2. CASE years = {} BY <1>1, <1>2 DEF Ranked
<1>3. CASE years # {}
  <2>1. points' = {[p EXCEPT !.prio = Priority(p.to, years)] : p \in points}
    BY <1>3 DEF Reprioritized, Reprioritize
  <2> HIDE DEF years
  <2>2. \A p \in points : LET q == [p EXCEPT !.prio = Priority(p.to, years)]
                          IN  q.prio = Priority(q.to, years)
    BY DEF TypeOK, Point
  <2> QED BY <1>1, <2>1, <2>2 DEF Ranked
<1> QED BY <1>2, <1>3

LEMMA NextRanked ==
  ASSUME PerceivesNoYear, IInv, Ranked, [Next]_vars
  PROVE  Ranked'
<1> USE DEF options, memory, focus
<1>1. TypeOK BY DEF IInv
<1>2. CASE UNCHANGED <<points, findings>> BY <1>2, RankKept DEF Conditions
<1>3. CASE BuildNodeView BY <1>3, PerceptionKeepsYears, RankKept DEF BuildNodeView
<1>4. CASE DecideAction
  <2>1. UNCHANGED findings BY <1>4 DEF DecideAction
  <2>2. CASE DecideEdge
    <3>1. PICK d \in EdgeDecisions(current) : Seed(d[2]) BY <2>2 DEF DecideEdge
    <3>2. PICK S \in SeedChoices(points, PendingEdges(graph, current), d[2],
                                 PendingYears(Conditions)) :
            points' = points \cup SeedPoints(scope, S, Tip(path), PendingYears(Conditions))
      BY <3>1 DEF Seed
    <3>3. \A p \in SeedPoints(scope, S, Tip(path), PendingYears(Conditions)) :
            p.prio = Priority(p.to, PendingYears(Conditions))
      BY DEF SeedPoints
    <3>4. Conditions' = Conditions BY <2>1 DEF Conditions
    <3> QED BY <3>2, <3>3, <3>4 DEF Ranked
  <2>3. CASE ~ DecideEdge
    BY <1>2, <1>4, <2>1, <2>3
    DEF DecideAction, DecideOpenLeaf, DecideValidate, DecideSearch, DecideRefine,
        DecideExhausted, DecideSuccess
  <2> QED BY <2>2, <2>3
<1>5. CASE UpdateGraph
  <2>1. CASE Reprioritized BY <1>1, <2>1, ReprioritizedRanks
  <2>2. CASE ~ Reprioritized
    <3>1. UNCHANGED findings
      BY <1>5, <2>2
      DEF UpdateGraph, UpdateFailed, UpdateFollow, UpdateDownload, UpdateOpen, UpdateValidate,
          UpdateSearch, UpdateExhausted, Validated, Matches
    <3>2. UNCHANGED points
      BY <1>5, <2>2
      DEF UpdateGraph, UpdateFailed, UpdateFollow, UpdateDownload, UpdateOpen, UpdateValidate,
          UpdateSearch, UpdateExhausted
    <3> QED BY <1>2, <3>1, <3>2
  <2> QED BY <2>1, <2>2
<1>6. CASE AdvanceBranch
  <2>1. points' \subseteq points /\ UNCHANGED findings
    BY <1>6 DEF AdvanceBranch, Continue, ResumeAnchor, ResumePoint, RestartRoot, Stop, Consume
  <2> QED BY <2>1, RankKept DEF Conditions
<1>7. CASE ExecuteAction
  <2>1. PICK r \in Result : Responds(r) BY <1>7, ExecuteActionResult
  <2> QED BY <1>2, <2>1 DEF Responds
<1>8. CASE InspectNode \/ ClassifyNode \/ StepLimit \/ PortFailure \/ Finish \/ Terminated
           \/ UNCHANGED vars
  BY <1>2, <1>8 DEF InspectNode, ClassifyNode, StepLimit, PortFailure, Finish, Terminated, vars
<1> QED BY <1>3, <1>4, <1>5, <1>6, <1>7, <1>8 DEF Next

(* While a dated condition is pending, the policy chooses between choice    *)
(* points ranked by what is pending now: whatever registers evidence ranks  *)
(* them again in the same step, and a year once covered never comes back    *)
(* (_try_extract_and_register_finding, reprioritize_choice_points).         *)
THEOREM RanksStayCurrent == PerceivesNoYear => (Spec => []PrioritiesCurrent)
<1> SUFFICES ASSUME PerceivesNoYear PROVE Spec => []PrioritiesCurrent
  OBVIOUS
<1>1. Init => Ranked BY DEF Init, Ranked
<1>2. IInv /\ Ranked /\ [Next]_vars => Ranked' BY NextRanked
<1>3. Ranked => PrioritiesCurrent BY DEF Ranked, PrioritiesCurrent
<1> QED BY <1>1, <1>2, <1>3, SpecIInv, PTL DEF Spec

(* The base score of a candidate stays below the bonus for a year.          *)
SmallScores == \A u \in Url : Score[u] < 100

LEMMA AlignmentType ==
  ASSUME NEW u \in Url, NEW years
  PROVE  Alignment(u, years) \in Nat /\ (years = {} => Alignment(u, years) = 0)
<1>1. IsFiniteSet(Mentions[u] \cap years) BY PolicyAssumption, FS_Subset
<1>2. Alignment(u, years) \in Nat BY <1>1, FS_CardinalityType DEF Alignment
<1>3. years = {} => Mentions[u] \cap years = {} OBVIOUS
<1> QED BY <1>2, <1>3, FS_EmptySet DEF Alignment

LEMMA BonusWins ==
  ASSUME SmallScores, NEW u \in Url, NEW v \in Url, NEW years,
         Priority(u, years) <= Priority(v, years), Alignment(u, years) > 0
  PROVE  Alignment(v, years) > 0
<1>1. Alignment(u, years) \in Nat /\ Alignment(v, years) \in Nat BY AlignmentType
<1>2. Score[u] \in Nat /\ Score[v] \in Nat /\ Score[v] < 100
  BY PolicyAssumption DEF SmallScores
<1> QED BY <1>1, <1>2 DEF Priority

LEMMA YearResumed ==
  ASSUME SmallScores, IInv, Ranked, AdvanceBranch, pc' = "execute_action",
         NEW p \in Viable(points, graph, scope), Alignment(p.to, PendingYears(Conditions)) > 0
  PROVE  Alignment(decision'.edge[2], PendingYears(Conditions)) > 0
<1> DEFINE years == PendingYears(Conditions)
           viable == Viable(points, Advanced, scope)
<1>1. pc = "advance_branch" /\ graph' = Advanced /\ points \subseteq Point
  BY DEF AdvanceBranch, At, IInv, TypeOK
<1>2. ResumePoint
  BY DEF AdvanceBranch, Continue, ResumeAnchor, RestartRoot, Stop, InspectOrFail, TerminalRoute
<1>3. PICK r \in Resumes("point") : decision'.edge = <<r.point.from, r.point.to>>
  BY <1>2 DEF ResumePoint, InspectOrFail
<1>4. r.point \in PointChoices(points, Advanced, scope) /\ r.point # NoPoint
  BY <1>3 DEF Resumes, Resumptions
<1>5. r.point \in viable /\ \A q \in viable : q.prio <= r.point.prio
  BY <1>4 DEF PointChoices
<1>6. p \in viable
  <2>1. /\ Advanced.edge = graph.edge BY <1>1, AdvancedSound
  <2>2. Advanced.exhausted \subseteq graph.exhausted \cup {scope}
    BY MarkNodeSound DEF Advanced, IInv, TypeOK
  <2> QED BY <2>1, <2>2 DEF Viable
<1>7. p \in points /\ r.point \in points BY <1>5, <1>6 DEF Viable
<1>8. p.to \in Url /\ r.point.to \in Url BY <1>1, <1>7 DEF Point
<1>9. years # {} BY <1>8, AlignmentType
<1>10. Priority(p.to, years) <= Priority(r.point.to, years)
  BY <1>5, <1>6, <1>7, <1>9 DEF Ranked
<1> QED BY <1>3, <1>8, <1>10, BonusWins

(* While some year is pending, a choice point that mentions one is resumed  *)
(* before all that mention none (goal_aligned_priority,                     *)
(* _next_viable_choice_point).                                              *)
THEOREM YearsGoFirst == PerceivesNoYear /\ SmallScores => (Spec => PendingYearFirst)
<1> SUFFICES ASSUME PerceivesNoYear, SmallScores PROVE Spec => PendingYearFirst
  OBVIOUS
<1> DEFINE wanted(u) == Alignment(u, PendingYears(Conditions)) > 0
           First == pc = "advance_branch" /\ pc' = "execute_action" =>
                      ((\E p \in Viable(points, graph, scope) : wanted(p.to))
                         => wanted(decision'.edge[2]))
<1>1. Init => Ranked BY DEF Init, Ranked
<1>2. IInv /\ Ranked /\ [Next]_vars => Ranked' BY NextRanked
<1>3. IInv /\ Ranked /\ [Next]_vars => [First]_vars
  <2> SUFFICES ASSUME IInv, Ranked, [Next]_vars, pc = "advance_branch", pc' = "execute_action",
                      NEW p \in Viable(points, graph, scope), wanted(p.to)
               PROVE  wanted(decision'.edge[2])
    OBVIOUS
  <2>1. AdvanceBranch
    BY DEF Next, vars, InspectNode, ClassifyNode, BuildNodeView, DecideAction, ExecuteAction,
           ExecuteFollow, ExecuteDownload, ExecuteOpen, ExecuteValidate, ExecuteSearch,
           ExecuteExhausted, ExecuteSuccess, ExecuteRefine, Execute, UpdateGraph, UpdateFailed,
           UpdateFollow, UpdateDownload, UpdateOpen, UpdateValidate, UpdateSearch,
           UpdateExhausted, Update, Finish, StepLimit, PortFailure, Terminated, At, Ended
  <2> QED BY <2>1, YearResumed
<1> QED BY <1>1, <1>2, <1>3, SpecIInv, PTL DEF Spec, PendingYearFirst

---------------------------------------------------------------------------
(* What was accepted, when no PDF is followed as a link.                    *)

FollowsNoFile == Pdf = {} \/ ~ AllowDownload

(* An opened artifact is the file that was downloaded for its node.         *)
OpenedIsDownloaded == \A n \in Node : artifact[n] # NoUrl => artifact[n] = download[n]

(* What a positive verdict comes with, for each way to get one.             *)
Delivery ==
  pc = "update_graph" /\ result.status = "ok" /\ result.verdict = "positive" =>
    \/ decision.action = "follow_edge" /\ result.page # NoPage
    \/ /\ decision.action \in {"download_artifact", "open_artifact"}
       /\ result.page = NoPage
    \/ /\ decision.action = "validate_current_content"
       /\ result.page = NoPage /\ result.download = download[current]

LEMMA VisitShows ==
  ASSUME NEW u, NEW page, NEW r \in Visited(u, page)
  PROVE  r.page = page
<1>1. ASSUME NEW s \in Inspections(page)
      PROVE  s.page = page /\ [s EXCEPT !.download = u].page = page
  BY <1>1 DEF Inspections, NoResult
<1> QED BY <1>1 DEF Visited

LEMMA FollowDelivers ==
  ASSUME FollowsNoFile, NEW u, NEW v, NEW r \in FollowResults(u, v), r.verdict = "positive"
  PROVE  r.page = Fetched(u, v)
<1>1. r # Failure BY DEF Failure, NoResult
<1>2. r \in Visited(u, Fetched(u, v)) BY <1>1 DEF FollowResults, FollowsNoFile
<1> QED BY <1>2, VisitShows

LEMMA ExecuteDelivers ==
  ASSUME FollowsNoFile, IInv, ExecuteAction
  PROVE  Delivery'
<1> SUFFICES ASSUME pc' = "update_graph", result'.status = "ok", result'.verdict = "positive"
             PROVE  Delivery'
  BY DEF Delivery
<1>1. TypeOK /\ DecisionReady
  BY DEF IInv, ExecuteAction, ExecuteFollow, ExecuteDownload, ExecuteOpen, ExecuteValidate,
         ExecuteSearch, ExecuteExhausted, ExecuteSuccess, ExecuteRefine, Execute, At
<1> USE DEF Execute, Responds, focus
<1>2. CASE ExecuteFollow
  <2>1. PICK v \in Landing[decision.edge[2]] : result' \in FollowResults(decision.edge[2], v)
    BY <1>2 DEF ExecuteFollow
  <2>2. decision.edge[2] \in Url
    BY <1>1, <1>2 DEF ExecuteFollow, DecisionReady, EdgeActions, Edge
  <2>3. Fetched(decision.edge[2], v) \in Page
    BY <1>1, <2>1, <2>2, GraphMapperAssumption, FetchedType
  <2>4. Fetched(decision.edge[2], v) # NoPage BY <2>3, UrlAssumption DEF Page, NoPage
  <2> QED BY <1>2, <2>1, <2>4, FollowDelivers DEF ExecuteFollow, Delivery
<1>3. CASE ExecuteDownload \/ ExecuteOpen
  <2>1. result' \in {Failure} \cup Delivered(decision.edge[2])
    BY <1>3 DEF ExecuteDownload, ExecuteOpen
  <2>2. result'.page = NoPage BY <2>1 DEF Delivered, Failure, NoResult
  <2> QED BY <1>3, <2>2 DEF ExecuteDownload, ExecuteOpen, Delivery
<1>4. CASE ExecuteValidate
  <2>1. PICK w : result' = [NoResult EXCEPT !.verdict = w,
                              !.download = IF w = "none" THEN NoUrl ELSE download[current]]
    BY <1>4 DEF ExecuteValidate
  <2>2. result'.page = NoPage /\ result'.download = download[current]
    BY <2>1 DEF NoResult
  <2> QED BY <1>4, <2>2 DEF ExecuteValidate, Delivery
<1>5. CASE ExecuteSearch
  <2>1. CASE Responds(Failure) BY <2>1 DEF Failure, NoResult
  <2>2. ASSUME NEW v, NEW create, Responds(SearchResult(v, create)) PROVE FALSE
    BY <2>2 DEF SearchResult, NoResult
  <2> QED BY <1>5, <2>1, <2>2 DEF ExecuteSearch
<1>6. CASE ExecuteExhausted \/ ExecuteSuccess \/ ExecuteRefine
  BY <1>6 DEF ExecuteExhausted, ExecuteSuccess, ExecuteRefine, NoResult
<1> QED BY <1>2, <1>3, <1>4, <1>5, <1>6 DEF ExecuteAction

LEMMA NextDelivery ==
  ASSUME FollowsNoFile, IInv, OpenedIsDownloaded, Delivery, [Next]_vars
  PROVE  OpenedIsDownloaded' /\ Delivery'
<1> USE DEF options, memory, focus
<1>1. UNCHANGED <<artifact, download>> => OpenedIsDownloaded' BY DEF OpenedIsDownloaded
<1>2. CASE ExecuteAction
  <2>1. PICK r \in Result : Responds(r) BY <1>2, ExecuteActionResult
  <2>2. UNCHANGED <<artifact, download>> BY <2>1 DEF Responds
  <2> QED BY <1>1, <1>2, <2>2, ExecuteDelivers
<1>3. CASE UpdateGraph
  <2>1. Delivery' BY <1>3, UpdateStart DEF Delivery
  <2>2. CASE UpdateDownload \/ UpdateOpen
    <3>1. TypeOK /\ ContentOwner \in Node BY DEF IInv, TypeOK, ContentOwner, MaybeUrl
    <3>2. OpenedIsDownloaded'
      BY <2>2, <3>1 DEF UpdateDownload, UpdateOpen, OpenedIsDownloaded, TypeOK
    <3> QED BY <2>1, <3>2
  <2>3. CASE ~ (UpdateDownload \/ UpdateOpen)
    BY <1>1, <1>3, <2>1, <2>3
    DEF UpdateGraph, UpdateFailed, UpdateFollow, UpdateValidate, UpdateSearch, UpdateExhausted
  <2> QED BY <2>1, <2>2, <2>3
<1>4. CASE AdvanceBranch
  <2>1. pc' # "update_graph"
    BY <1>4 DEF AdvanceBranch, Continue, ResumeAnchor, ResumePoint, RestartRoot, Stop,
                InspectOrFail, TerminalRoute
  <2> QED BY <1>1, <1>4, <2>1 DEF AdvanceBranch, Delivery
<1>5. CASE UNCHANGED vars BY <1>1, <1>5 DEF vars, Delivery
<1>6. CASE InspectNode \/ ClassifyNode \/ BuildNodeView \/ DecideAction \/ StepLimit
           \/ PortFailure \/ Finish \/ Terminated
  BY <1>1, <1>6 DEF InspectNode, ClassifyNode, BuildNodeView, DecideAction, StepLimit,
                    PortFailure, Finish, Terminated, vars, Delivery, Ended
<1> QED BY <1>2, <1>3, <1>4, <1>5, <1>6 DEF Next

Recorded(u) == \A c \in Evidence[u] : \E f \in findings' : f.cond = c /\ f.src = u

LEMMA MatchesRecord ==
  ASSUME NEW u, NEW n, Validated(u, n), result.verdict = "positive"
  PROVE  Recorded(u)
<1>1. SUFFICES ASSUME NEW c \in Evidence[u] PROVE \E f \in findings' : f.cond = c /\ f.src = u
  BY DEF Recorded
<1> DEFINE f == [cond |-> c, src |-> u, node |-> n]
<1>2. f \in findings' BY DEF Validated, Matches
<1>3. f.cond = c /\ f.src = u OBVIOUS
<1> HIDE DEF f
<1> QED BY <1>2, <1>3

LEMMA UpdateRecords ==
  ASSUME IInv, OpenedIsDownloaded, Delivery, UpdateGraph,
         result.status = "ok", result.verdict = "positive",
         NEW u \in {IF result.page = NoPage THEN result.download ELSE result.page.url} \ {NoUrl}
  PROVE  Recorded(u)
<1>1. TypeOK /\ pc = "update_graph" BY UpdateStart
<1>2. decision.action \in {"follow_edge", "download_artifact", "open_artifact",
                           "validate_current_content"}
  BY <1>1 DEF Delivery
<1>3. CASE UpdateFollow
  <2>1. result.page # NoPage /\ u = result.page.url BY <1>1, <1>3 DEF UpdateFollow, Update, Delivery
  <2> QED BY <1>3, <2>1, MatchesRecord DEF UpdateFollow
<1>4. CASE UpdateDownload \/ UpdateOpen
  <2>1. result.page = NoPage
    BY <1>1, <1>4 DEF UpdateDownload, UpdateOpen, Update, Delivery
  <2>2. u = result.download BY <2>1 DEF NoPage
  <2> QED BY <1>4, <2>2, MatchesRecord DEF UpdateDownload, UpdateOpen
<1>5. CASE UpdateValidate
  <2>1. result.page = NoPage /\ result.download = download[current]
    BY <1>1, <1>5 DEF UpdateValidate, Update, Delivery
  <2>2. u = download[current] /\ u # NoUrl BY <2>1 DEF NoPage
  <2>3. Target(current) = u BY <1>1, <2>2 DEF Target, OpenedIsDownloaded, TypeOK
  <2> QED BY <1>5, <2>3, MatchesRecord DEF UpdateValidate
<1>6. ~ (UpdateFailed \/ UpdateSearch \/ UpdateExhausted)
  <2>1. ~ UpdateFailed BY DEF UpdateFailed
  <2>2. ~ UpdateSearch BY <1>2 DEF UpdateSearch, Update
  <2>3. ~ UpdateExhausted BY <1>2 DEF UpdateExhausted, Update
  <2> QED BY <2>1, <2>2, <2>3
<1> QED BY <1>3, <1>4, <1>5, <1>6 DEF UpdateGraph

(* What a local perception accepted is on record once the result has been   *)
(* applied, whichever of the four actions brought it: an opened artifact is *)
(* never another file than the one downloaded for its node, so that the     *)
(* validation of a node records the file it hands back                      *)
(* (build_validation_target_for_node, _try_extract_and_register_finding).   *)
THEOREM AcceptedGetsRecorded == FollowsNoFile => (Spec => AcceptedIsRecorded)
<1> SUFFICES ASSUME FollowsNoFile PROVE Spec => AcceptedIsRecorded
  OBVIOUS
<1> DEFINE Carrier == {IF result.page = NoPage THEN result.download ELSE result.page.url}
           Records == pc = "update_graph" /\ pc' = "advance_branch" /\ result.status = "ok"
                        /\ result.verdict = "positive" =>
                        \A u \in Carrier \ {NoUrl} : Recorded(u)
<1>1. Init => OpenedIsDownloaded /\ Delivery BY DEF Init, OpenedIsDownloaded, Delivery
<1>2. IInv /\ OpenedIsDownloaded /\ Delivery /\ [Next]_vars => (OpenedIsDownloaded /\ Delivery)'
  BY NextDelivery
<1>3. IInv /\ OpenedIsDownloaded /\ Delivery /\ [Next]_vars => [Records]_vars
  <2> SUFFICES ASSUME IInv, OpenedIsDownloaded, Delivery, [Next]_vars,
                      pc = "update_graph", pc' = "advance_branch", result.status = "ok",
                      result.verdict = "positive",
                      NEW u \in Carrier \ {NoUrl}
               PROVE  Recorded(u)
    OBVIOUS
  <2>1. UpdateGraph
    BY DEF Next, vars, InspectNode, ClassifyNode, BuildNodeView, DecideAction, ExecuteAction,
           ExecuteFollow, ExecuteDownload, ExecuteOpen, ExecuteValidate, ExecuteSearch,
           ExecuteExhausted, ExecuteSuccess, ExecuteRefine, Execute, AdvanceBranch, Finish,
           StepLimit, PortFailure, Terminated, At, Ended
  <2> QED BY <2>1, UpdateRecords
<1> QED BY <1>1, <1>2, <1>3, SpecIInv, PTL DEF Spec, AcceptedIsRecorded, Recorded
---------------------------------------------------------------------------
(* Where a request for a URL always ends at the same URL, and that one      *)
(* redirects no further, a node is known by its own URL.                    *)

StableLanding == \A u \in Url : \E v \in Url : Landing[u] = {v} /\ Landing[v] = {v}

Final(u) == CHOOSE v \in Url : Landing[u] = {v}

LEMMA FinalLanding ==
  ASSUME StableLanding, NEW u \in Url
  PROVE  /\ Final(u) \in Url /\ Landing[u] = {Final(u)}
         /\ Final(Final(u)) = Final(u)
<1> DEFINE Lands(x, v) == v \in Url /\ Landing[x] = {v}
<1>1. PICK v \in Url : Landing[u] = {v} /\ Landing[v] = {v} BY DEF StableLanding
<1>2. \A x, y \in Url : Landing[u] = {x} /\ Landing[u] = {y} => x = y OBVIOUS
<1>3. Final(u) \in Url /\ Landing[u] = {Final(u)} BY <1>1 DEF Final
<1>4. Final(u) = v BY <1>1, <1>3
<1>5. Final(v) \in Url /\ Landing[v] = {Final(v)} BY <1>1 DEF Final
<1>6. Final(v) = v BY <1>1, <1>5
<1> QED BY <1>3, <1>4, <1>6

(* A node is registered under its own URL or not at all, its tuple lists    *)
(* all that is pending at it, and only registered nodes have edges.         *)
Named(g)  == \A n \in Node : g.url[n] \in {NoUrl, n} /\ g.index[n] = g.url[n]
Synced(g) == \A n \in Node : g.pending[n] = PendingEdges(g, n)
Rooted(g) == \A e \in Edge : g.edge[e] # "absent" => g.url[e[1]] # NoUrl
Tight(g)  == Sound(g) /\ Named(g) /\ Synced(g) /\ Rooted(g)

LEMMA InitTight ==
  Tight(RegisterNode(EmptyGraph, EntryUrl, EntryUrl))
<1> DEFINE g == RegisterNode(EmptyGraph, EntryUrl, EntryUrl)
<1>1. EmptyGraph.index[EntryUrl] = NoUrl BY UrlAssumption DEF EmptyGraph
<1>2. Sound(g) BY <1>1, EmptyGraphSound, RegisterNodeSound, UrlAssumption
<1>3. /\ g.url = [n \in Node |-> IF n = EntryUrl THEN EntryUrl ELSE NoUrl]
      /\ g.index = [n \in Node |-> IF n = EntryUrl THEN EntryUrl ELSE NoUrl]
      /\ g.edge = [e \in Edge |-> "absent"]
      /\ \A n \in Node : g.pending[n] = {}
  BY DEF RegisterNode, EmptyGraph
<1> HIDE DEF g
<1>4. Named(g) /\ Rooted(g) BY <1>3 DEF Named, Rooted
<1>5. Synced(g) BY <1>3 DEF Synced, PendingEdges, Edge
<1> QED BY <1>2, <1>4, <1>5 DEF Tight, g

LEMMA TightKept ==
  ASSUME NEW g, Tight(g), NEW h, Sound(h), h.url = g.url, h.index = g.index,
         h.edge = g.edge, h.pending = g.pending
  PROVE  Tight(h)
BY DEF Tight, Named, Synced, Rooted, PendingEdges

LEMMA FlagsTight ==
  ASSUME NEW g, Tight(g), NEW n \in Node, NEW e \in Edge
  PROVE  /\ \A h \in {MarkInspected(g, n), MarkExhausted(g, n)} :
              Tight(h) /\ h.url = g.url /\ h.child = g.child /\ h.edge = g.edge
         /\ Tight([g EXCEPT !.inspected = @ \ {n}]) /\ Tight([g EXCEPT !.child[e] = n])
<1>1. Sound(g) /\ g \in GraphType /\ {n} \in SUBSET Node BY DEF Tight, Sound
<1>2. \A h \in {MarkInspected(g, n), MarkExhausted(g, n), [g EXCEPT !.inspected = @ \ {n}],
                [g EXCEPT !.child[e] = n]} :
        h.url = g.url /\ h.index = g.index /\ h.edge = g.edge /\ h.pending = g.pending
  BY <1>1 DEF MarkInspected, MarkExhausted, GraphType
<1>3. \A h \in {MarkInspected(g, n), MarkExhausted(g, n)} : h.child = g.child
  BY <1>1 DEF MarkInspected, MarkExhausted, GraphType
<1>4. /\ Sound(MarkInspected(g, n)) /\ Sound(MarkExhausted(g, n))
      /\ Sound([g EXCEPT !.inspected = @ \ {n}]) /\ Sound([g EXCEPT !.child[e] = n])
  BY <1>1, MarkNodeSound, SideUpdatesSound
<1> QED BY <1>2, <1>3, <1>4, TightKept

LEMMA MergeTight ==
  ASSUME NEW g, Tight(g), NEW n \in Node, g.url[n] # NoUrl, NEW T \in SUBSET Url
  PROVE  /\ Tight(Merge(g, n, T))
         /\ Merge(g, n, T).url = g.url /\ Merge(g, n, T).child = g.child
<1> DEFINE h == Merge(g, n, T)
           E == MergedEdges(g, n, T)
<1>1. Sound(g) /\ g \in GraphType /\ Sound(h) BY MergeSound DEF Tight, Sound
<1>2. /\ h.url = g.url /\ h.index = g.index /\ h.edge = E /\ h.child = g.child
      /\ h.pending = [g.pending EXCEPT ![n] = @ \cup {u \in T : E[<<n, u>>] = "discovered"}]
  BY <1>1 DEF Merge, GraphType
<1>3. \A e \in Edge : E[e] = IF e[1] = n /\ e[2] \in T /\ g.edge[e] = "absent"
                             THEN "discovered" ELSE g.edge[e]
  BY DEF MergedEdges
<1> HIDE DEF h, E
<1>4. Named(h) BY <1>2 DEF Tight, Named
<1>5. Rooted(h) BY <1>2, <1>3 DEF Tight, Rooted
<1>6. Synced(h)
  <2> SUFFICES ASSUME NEW m \in Node PROVE h.pending[m] = PendingEdges(h, m)
    BY DEF Synced
  <2>1. g.pending[m] = PendingEdges(g, m) BY DEF Tight, Synced
  <2>2. \A u \in Url : <<m, u>> \in Edge BY DEF Edge
  <2>3. CASE m = n
    <3>1. h.pending[m] = PendingEdges(g, m) \cup {u \in T : E[<<m, u>>] = "discovered"}
      BY <1>1, <1>2, <2>1, <2>3 DEF GraphType
    <3>2. \A u \in Url : E[<<m, u>>] = "discovered" <=>
            g.edge[<<m, u>>] = "discovered" \/ (u \in T /\ g.edge[<<m, u>>] = "absent")
      BY <1>3, <2>2, <2>3
    <3> QED BY <1>2, <3>1, <3>2 DEF PendingEdges
  <2>4. CASE m # n
    <3>1. h.pending[m] = PendingEdges(g, m) BY <1>1, <1>2, <2>1, <2>4 DEF GraphType
    <3>2. \A u \in Url : E[<<m, u>>] = g.edge[<<m, u>>] BY <1>3, <2>2, <2>4
    <3> QED BY <1>2, <3>1, <3>2 DEF PendingEdges
  <2> QED BY <2>3, <2>4
<1> QED BY <1>1, <1>2, <1>4, <1>5, <1>6 DEF Tight, h

LEMMA MarkTight ==
  ASSUME NEW g, Tight(g), NEW e \in OfferedIn(g), NEW h \in {MarkUseful(g, e), MarkFailed(g, e)}
  PROVE  /\ Tight(h) /\ h.url = g.url /\ h.child = g.child
         /\ \A x \in Edge : h.edge[x] = "absent" <=> g.edge[x] = "absent"
<1>1. Sound(g) /\ g \in GraphType /\ e \in Edge BY DEF Tight, Sound, OfferedIn
<1>2. e[1] \in Node /\ e[2] \in Url /\ e = <<e[1], e[2]>> BY <1>1 DEF Edge
<1>3. PICK s \in {"useful", "failed"} :
        /\ h.edge = [g.edge EXCEPT ![e] = s]
        /\ h.pending = [g.pending EXCEPT ![e[1]] = @ \ {e[2]}]
        /\ h.url = g.url /\ h.index = g.index /\ h.child = g.child
  BY <1>1 DEF MarkUseful, MarkFailed, GraphType
<1>4. Sound(h) BY <1>1, MarkUsefulSound, MarkFailedSound
<1>5. \A x \in Edge : h.edge[x] = IF x = e THEN s ELSE g.edge[x] BY <1>1, <1>3 DEF GraphType
<1>6. g.edge[e] # "absent" BY DEF OfferedIn
<1>7. Named(h) BY <1>3 DEF Tight, Named
<1>8. Rooted(h) BY <1>3, <1>5, <1>6 DEF Tight, Rooted
<1>9. Synced(h)
  <2> SUFFICES ASSUME NEW m \in Node PROVE h.pending[m] = PendingEdges(h, m)
    BY DEF Synced
  <2>1. g.pending[m] = PendingEdges(g, m) BY DEF Tight, Synced
  <2>2. \A u \in Url : <<m, u>> \in Edge BY DEF Edge
  <2>3. CASE m = e[1]
    <3>1. h.pending[m] = PendingEdges(g, m) \ {e[2]}
      BY <1>1, <1>2, <1>3, <2>1, <2>3 DEF GraphType
    <3>2. \A u \in Url : h.edge[<<m, u>>] = IF u = e[2] THEN s ELSE g.edge[<<m, u>>]
      BY <1>2, <1>5, <2>2, <2>3
    <3> QED BY <3>1, <3>2 DEF PendingEdges
  <2>4. CASE m # e[1]
    <3>1. h.pending[m] = PendingEdges(g, m) BY <1>1, <1>2, <1>3, <2>1, <2>4 DEF GraphType
    <3>2. \A u \in Url : h.edge[<<m, u>>] = g.edge[<<m, u>>] BY <1>2, <1>5, <2>2, <2>4
    <3> QED BY <3>1, <3>2 DEF PendingEdges
  <2> QED BY <2>3, <2>4
<1> QED BY <1>3, <1>4, <1>5, <1>6, <1>7, <1>8, <1>9 DEF Tight

(* A URL that is looked up under its own name is registered under it.       *)
LEMMA EnsureTight ==
  ASSUME NEW g, Tight(g), NEW u \in Url
  PROVE  LET h == EnsureNode(g, u, u)
         IN  /\ Tight(h) /\ EnsuredNode(g, u, u) = u /\ h.url[u] = u
             /\ h.child = g.child /\ h.edge = g.edge
             /\ \A n \in Node : g.url[n] # NoUrl => h.url[n] # NoUrl
<1> DEFINE h == EnsureNode(g, u, u)
<1>1. Sound(g) /\ g \in GraphType /\ u \in Node /\ Sound(h) /\ u # NoUrl
  BY EnsureNodeSound, UrlAssumption DEF Tight, Sound
<1>2. g.url[u] \in {NoUrl, u} /\ g.index[u] = g.url[u] BY DEF Tight, Named
<1>3. CASE g.index[u] # NoUrl
  BY <1>1, <1>2, <1>3 DEF EnsureNode, EnsuredNode
<1>4. CASE g.index[u] = NoUrl
  <2>1. h = RegisterNode(g, u, u) BY <1>4 DEF EnsureNode
  <2>2. /\ h.url = [g.url EXCEPT ![u] = u] /\ h.index = [g.index EXCEPT ![u] = u]
        /\ h.pending = [g.pending EXCEPT ![u] = {}] /\ h.edge = g.edge /\ h.child = g.child
    BY <1>1, <2>1 DEF RegisterNode, GraphType
  <2> HIDE DEF h
  <2>3. Named(h) BY <1>1, <2>2 DEF Tight, Named, GraphType
  <2>4. Rooted(h) BY <1>1, <2>2 DEF Tight, Rooted, GraphType, Edge
  <2>5. \A x \in Url : g.edge[<<u, x>>] = "absent"
    <3>1. \A x \in Url : <<u, x>> \in Edge /\ <<u, x>>[1] = u BY <1>1 DEF Edge
    <3>2. g.url[u] = NoUrl BY <1>2, <1>4
    <3>3. \A e \in Edge : g.edge[e] # "absent" => g.url[e[1]] # NoUrl BY DEF Tight, Rooted
    <3> QED BY <3>1, <3>2, <3>3
  <2>6. PendingEdges(h, u) = {} BY <2>2, <2>5 DEF PendingEdges
  <2>7. Synced(h)
    BY <1>1, <2>2, <2>6 DEF Tight, Synced, GraphType, PendingEdges
  <2>8. EnsuredNode(g, u, u) = u BY <1>4 DEF EnsuredNode
  <2> QED BY <1>1, <2>2, <2>3, <2>4, <2>7, <2>8 DEF Tight, h, GraphType
<1> QED BY <1>3, <1>4

(* A page kept for a node was delivered from the URL of the node or from    *)
(* where that URL ends, and a search result from the URL itself is what an  *)
(* inspection left as well.                                                 *)
Places(n) == {NoUrl, n, Final(n)}
Pages ==
  \A n \in Node : /\ inspection[n].url \in Places(n) /\ searched[n].url \in Places(n)
                  /\ searched[n].url = n => inspection[n].url = n

(* Where a request for u that was followed once leads to is registered.     *)
Settled(u) ==
  IF Final(u) \in Pdf THEN graph.url[u] # NoUrl
  ELSE graph.url[Final(u)] # NoUrl \/ (graph.url[u] # NoUrl /\ Snapshot(u).url = u)
Children == \A e \in Edge : graph.child[e] # NoUrl => Settled(e[2])

(* What the ports answered is still what they would answer.                 *)
Answer ==
  pc = "update_graph" /\ result.status = "ok" =>
    /\ decision.action = "follow_edge" =>
         result.page = IF Final(decision.edge[2]) \in Pdf THEN NoPage
                       ELSE Fetched(decision.edge[2], Final(decision.edge[2]))
    /\ decision.action = "search_with_text" /\ ~ result.create
         => result.page = inspection[current]

Stable == Tight(graph) /\ Pages /\ Children /\ Answer

GraphGrows == \A n \in Node : graph.url[n] # NoUrl => graph'.url[n] # NoUrl
ShownKept  == \A n \in Node : Snapshot(n).url = n => Snapshot(n)'.url = n

LEMMA SettledKept ==
  ASSUME StableLanding, GraphGrows, ShownKept, NEW u \in Url, Settled(u)
  PROVE  Settled(u)'
<1>1. Final(u) \in Node /\ u \in Node BY FinalLanding
<1> QED BY <1>1 DEF Settled, GraphGrows, ShownKept

LEMMA ChildrenKept ==
  ASSUME StableLanding, GraphGrows, ShownKept, Children, graph'.child = graph.child
  PROVE  Children'
BY SettledKept DEF Children, Edge

LEMMA PagesSame ==
  ASSUME UNCHANGED <<inspection, searched>>
  PROVE  ShownKept /\ (Pages => Pages')
BY DEF ShownKept, Snapshot, Pages

LEMMA InspectStable ==
  ASSUME StableLanding, IInv, Stable, InspectNode
  PROVE  Stable'
<1>1. /\ TypeOK /\ Tight(graph) /\ current \in Node /\ graph.url[current] = current
      /\ UNCHANGED searched /\ pc' # "update_graph"
  BY DEF IInv, Stable, TypeOK, FocusAgrees, Tight, Named, InspectNode
<1>2. PICK page \in Page :
        /\ Observe(page)
        /\ page.url \in Places(current)
        /\ searched[current].url = current => page.url = current
        /\ Snapshot(current).url = current => page.url = current
  <2>1. CASE InspectSnapshot
    <3>1. Snapshot(current) \in Page
      BY <1>1, <2>1, SnapshotType DEF InspectSnapshot
    <3>2. Snapshot(current).url \in Places(current) BY <1>1 DEF Snapshot, Stable, Pages
    <3>3. searched[current].url = current => Snapshot(current).url = current
      BY <1>1, UrlAssumption DEF Snapshot, NoPage
    <3> QED BY <2>1, <3>1, <3>2, <3>3 DEF InspectSnapshot
  <2>2. CASE InspectPage
    <3>1. PICK v \in Landing[current] : Observe([url |-> v, revealed |-> FALSE])
      BY <1>1, <2>2 DEF InspectPage
    <3>2. v = Final(current) /\ v \in Url BY <1>1, <3>1, FinalLanding
    <3>3. Snapshot(current).url = NoUrl /\ searched[current].url = NoUrl
      BY <2>2 DEF InspectPage, Snapshot, NoPage
    <3>4. current # NoUrl BY <1>1, UrlAssumption
    <3>5. [url |-> v, revealed |-> FALSE] \in Page /\ [url |-> v, revealed |-> FALSE].url = v
      BY <3>2 DEF Page
    <3> QED BY <3>1, <3>2, <3>3, <3>4, <3>5 DEF Places
  <2> QED BY <2>1, <2>2 DEF InspectNode
<1> DEFINE h == Merge(graph, current, Candidates(page))
<1>3. /\ inspection' = [inspection EXCEPT ![current] = page]
      /\ graph' = MarkInspected(h, current)
  BY <1>2 DEF Observe
<1>4. Tight(h) /\ h.url = graph.url /\ h.child = graph.child
  BY <1>1, CandidatesType, MergeTight, UrlAssumption
<1>5. Tight(graph') /\ graph'.url = graph.url /\ graph'.child = graph.child
  <2> HIDE DEF h
  <2>1. <<current, current>> \in Edge BY <1>1 DEF Edge
  <2> QED BY <1>1, <1>3, <1>4, <2>1, FlagsTight
<1>6. Pages'
  BY <1>1, <1>2, <1>3 DEF Stable, Pages, TypeOK
<1>7. ShownKept
  BY <1>1, <1>2, <1>3 DEF ShownKept, Snapshot, TypeOK
<1>8. Children' BY <1>5, <1>7, ChildrenKept DEF GraphGrows, Stable
<1> QED BY <1>1, <1>5, <1>6, <1>8 DEF Stable, Answer

LEMMA PerceiveStable ==
  ASSUME StableLanding, IInv, Stable, BuildNodeView
  PROVE  Stable'
<1>1. /\ TypeOK /\ Tight(graph) /\ current \in Node /\ graph.url[current] \in Url
      /\ UNCHANGED <<inspection, searched>> /\ pc' # "update_graph"
  BY DEF IInv, Stable, TypeOK, FocusAgrees, BuildNodeView, GraphType, MaybeUrl
<1>2. Tight(graph') /\ graph'.url = graph.url /\ graph'.child = graph.child
  <2>1. CASE ViewKnownNode BY <1>1, <2>1 DEF ViewKnownNode
  <2>2. CASE ViewPerceivedNode
    <3>1. PICK extra \in SUBSET Visual[graph.url[current]] : graph' = Merge(graph, current, extra)
      BY <2>2 DEF ViewPerceivedNode
    <3>2. extra \in SUBSET Url BY <1>1, GraphMapperAssumption
    <3> QED BY <1>1, <3>1, <3>2, UrlAssumption, MergeTight
  <2> QED BY <2>1, <2>2 DEF BuildNodeView
<1>3. Children' BY <1>1, <1>2, PagesSame, ChildrenKept DEF GraphGrows, Stable
<1> QED BY <1>1, <1>2, <1>3, PagesSame DEF Stable, Answer

LEMMA FollowAnswers ==
  ASSUME StableLanding, NEW u \in Url, NEW v \in Landing[u], NEW r \in FollowResults(u, v),
         r.status = "ok"
  PROVE  r.page = IF Final(u) \in Pdf THEN NoPage ELSE Fetched(u, Final(u))
<1>1. v = Final(u) BY FinalLanding
<1>2. r # Failure BY DEF Failure, NoResult
<1>3. CASE v \in Pdf
  <2>1. PICK w : r = [NoResult EXCEPT !.download = v, !.verdict = w]
    BY <1>2, <1>3 DEF FollowResults, Delivered
  <2> QED BY <1>1, <1>3, <2>1 DEF NoResult
<1>4. CASE v \notin Pdf
  <2>1. r \in Visited(u, Fetched(u, v)) BY <1>2, <1>4 DEF FollowResults
  <2> QED BY <1>1, <1>4, <2>1, VisitShows
<1> QED BY <1>3, <1>4

LEMMA ExecuteStable ==
  ASSUME StableLanding, IInv, Stable, ExecuteAction
  PROVE  Stable'
<1> USE DEF options, memory, focus
<1>1. PICK r \in Result : Responds(r) BY ExecuteActionResult
<1>2. UNCHANGED <<graph, inspection, searched, decision, current>> BY <1>1 DEF Responds
<1>3. Tight(graph)' /\ Pages' /\ Children'
  BY <1>2 DEF Stable, Tight, Pages, Children, Settled, Snapshot
<1>4. Answer'
  <2> SUFFICES ASSUME pc' = "update_graph", result'.status = "ok" PROVE Answer'
    BY DEF Answer
  <2>1. TypeOK /\ DecisionReady /\ pc = "execute_action"
    BY ExecuteActionResult DEF IInv
  <2>2. \A u, v \in Url : Fetched(u, v)' = Fetched(u, v) BY <1>2 DEF Fetched, Snapshot
  <2>3. CASE ExecuteFollow
    <3>1. PICK v \in Landing[decision.edge[2]] : result' \in FollowResults(decision.edge[2], v)
      BY <2>3 DEF ExecuteFollow, Responds
    <3>2. decision.edge[2] \in Url /\ decision.action = "follow_edge"
      BY <2>1, <2>3 DEF ExecuteFollow, Execute, DecisionReady, EdgeActions, Edge
    <3>3. Final(decision.edge[2]) \in Url BY <3>2, FinalLanding
    <3> QED BY <1>2, <2>2, <3>1, <3>2, <3>3, FollowAnswers DEF Answer
  <2>4. CASE ExecuteSearch
    <3>1. decision.action = "search_with_text" BY <2>4 DEF ExecuteSearch, Execute
    <3>2. result' # Failure BY DEF Failure, NoResult
    <3>3. PICK v, create : /\ SearchResult(v, create).page # inspection[current] => create
                           /\ result' = SearchResult(v, create)
      BY <2>4, <3>2 DEF ExecuteSearch, Responds
    <3>4. SearchResult(v, create).create = create BY DEF SearchResult, NoResult
    <3> QED BY <1>2, <3>1, <3>3, <3>4 DEF Answer
  <2>5. CASE ~ ExecuteFollow /\ ~ ExecuteSearch
    BY <1>2, <2>5
    DEF ExecuteAction, ExecuteDownload, ExecuteOpen, ExecuteValidate, ExecuteExhausted,
        ExecuteSuccess, ExecuteRefine, Execute, Answer
  <2> QED BY <2>3, <2>4, <2>5
<1> QED BY <1>2, <1>3, <1>4 DEF Stable

(* Following an edge lands at its target or where that ends, and at a       *)
(* registered URL when the edge has a child already.                        *)
LEMMA FetchedLands ==
  ASSUME StableLanding, IInv, Stable, NEW u \in Url
  PROVE  LET l == Fetched(u, Final(u)).url
         IN  /\ Fetched(u, Final(u)) \in Page /\ l \in {u, Final(u)}
             /\ l # Final(u) => Snapshot(u).url = l
             /\ Final(u) \notin Pdf /\ Settled(u) => graph.url[l] # NoUrl
<1> DEFINE v == Final(u)
           known == IF graph.index[v] # NoUrl THEN graph.index[v] ELSE graph.index[u]
           l == Fetched(u, v).url
<1>1. TypeOK /\ v \in Url /\ Final(v) = v /\ u \in Node /\ v \in Node
  BY FinalLanding DEF IInv
<1>2. /\ graph.url[v] \in {NoUrl, v} /\ graph.index[v] = graph.url[v]
      /\ graph.url[u] \in {NoUrl, u} /\ graph.index[u] = graph.url[u]
  BY <1>1 DEF Stable, Tight, Named
<1>3. Snapshot(u).url \in {NoUrl, u, v} /\ Snapshot(v).url \in {NoUrl, v}
  BY <1>1 DEF Stable, Pages, Places, Snapshot
<1>4. /\ Snapshot(u) # NoPage => Snapshot(u).url \in Url
      /\ Snapshot(v) # NoPage => Snapshot(v).url \in Url
  BY <1>1, SnapshotType DEF Page
<1>5. Fetched(u, v) \in Page BY <1>1, FetchedType
<1>6. Fetched(u, v) = IF known # NoUrl /\ Snapshot(known) # NoPage THEN Snapshot(known)
                      ELSE [url |-> v, revealed |-> FALSE]
  BY DEF Fetched
<1>7. known = IF graph.url[v] # NoUrl THEN v ELSE graph.url[u]
  BY <1>2
<1> HIDE DEF v, known
<1>8. CASE graph.url[v] # NoUrl
  <2>1. known = v BY <1>7, <1>8
  <2>2. l = v BY <1>3, <1>4, <1>6, <2>1, UrlAssumption
  <2> QED BY <1>5, <1>8, <2>2 DEF v
<1>9. CASE graph.url[v] = NoUrl
  <2>1. known = graph.url[u] BY <1>7, <1>9
  <2>2. CASE graph.url[u] # NoUrl /\ Snapshot(u) # NoPage
    <3>1. known = u BY <1>2, <2>1, <2>2
    <3>2. l = Snapshot(u).url BY <1>6, <2>2, <3>1, UrlAssumption
    <3>3. l \in {u, v} BY <1>3, <1>4, <2>2, <3>2, UrlAssumption
    <3>4. v \notin Pdf /\ Settled(u) => graph.url[l] # NoUrl
      BY <1>9, <2>2, <3>2 DEF Settled, v
    <3> QED BY <1>5, <3>2, <3>3, <3>4 DEF v
  <2>3. CASE ~ (graph.url[u] # NoUrl /\ Snapshot(u) # NoPage)
    <3>1. ~ (known # NoUrl /\ Snapshot(known) # NoPage) BY <1>2, <2>1, <2>3
    <3>2. l = v BY <1>6, <3>1
    <3>3. ~ (v \notin Pdf /\ Settled(u))
      BY <1>1, <1>9, <2>3, UrlAssumption DEF Settled, NoPage, v
    <3> QED BY <1>5, <3>2, <3>3 DEF v
  <2> QED BY <2>2, <2>3
<1> QED BY <1>8, <1>9

LEMMA FollowLands ==
  ASSUME StableLanding, IInv, Stable, UpdateFollow
  PROVE  LET e == decision.edge
             h == [EnsureNode(graph, LandedUrl, LandedUrl) EXCEPT !.child[e] = LandedUrl]
         IN  /\ e \in Edge /\ LandedUrl \in {e[2], Final(e[2])}
             /\ IF Final(e[2]) \in Pdf THEN result.page = NoPage /\ LandedUrl = e[2]
                ELSE /\ result.page \in Page /\ result.page.url = LandedUrl
                     /\ LandedUrl # Final(e[2]) => Snapshot(e[2]).url = LandedUrl
             /\ graph' = MarkUseful(h, e)
             /\ Arrive(LandedUrl, e)
             /\ inspection' = IF result.page = NoPage THEN inspection
                              ELSE [inspection EXCEPT ![LandedUrl] = result.page]
<1> DEFINE e == decision.edge
           l == LandedUrl
           m == ProposedNode(e, l)
<1>1. TypeOK /\ DecisionReady /\ pc = "update_graph" /\ result.status = "ok"
  BY UpdateStart DEF UpdateGraph, UpdateFollow, Update
<1>2. e \in Edge /\ e[2] \in Url /\ decision.action = "follow_edge"
  BY <1>1 DEF UpdateFollow, Update, DecisionReady, EdgeActions, Edge
<1>3. result.page = IF Final(e[2]) \in Pdf THEN NoPage ELSE Fetched(e[2], Final(e[2]))
  BY <1>1, <1>2 DEF Stable, Answer
<1>4. /\ l \in {e[2], Final(e[2])}
      /\ IF Final(e[2]) \in Pdf THEN result.page = NoPage /\ l = e[2]
         ELSE /\ result.page \in Page /\ result.page.url = l
              /\ l # Final(e[2]) => Snapshot(e[2]).url = l
      /\ Settled(e[2]) => graph.url[l] # NoUrl
  <2>1. CASE Final(e[2]) \in Pdf
    <3>1. result.page = NoPage /\ l = e[2] BY <1>3, <2>1 DEF LandedUrl
    <3>2. Settled(e[2]) => graph.url[e[2]] # NoUrl BY <2>1 DEF Settled
    <3> QED BY <2>1, <3>1, <3>2
  <2>2. CASE Final(e[2]) \notin Pdf
    <3>1. result.page = Fetched(e[2], Final(e[2])) BY <1>3, <2>2
    <3>2. result.page # NoPage /\ result.page \in Page
      BY <1>2, <3>1, FetchedLands, UrlAssumption DEF Page, NoPage
    <3>3. l = result.page.url BY <3>2 DEF LandedUrl
    <3> QED BY <1>2, <2>2, <3>1, <3>2, <3>3, FetchedLands
  <2> QED BY <2>1, <2>2
<1>5. l \in Url /\ l \in Node BY <1>2, <1>4, FinalLanding
<1>6. EnsuredNode(graph, m, l) = l /\ EnsureNode(graph, m, l) = EnsureNode(graph, l, l)
  <2>1. CASE graph.child[e] = NoUrl
    BY <1>5, <2>1, EnsureTight DEF ProposedNode, Stable
  <2>2. CASE graph.child[e] # NoUrl
    <3>1. graph.url[l] # NoUrl BY <1>2, <1>4, <2>2 DEF Stable, Children
    <3>2. graph.index[l] = l BY <1>5, <3>1 DEF Stable, Tight, Named
    <3>3. l # NoUrl BY <1>5, UrlAssumption
    <3> QED BY <3>2, <3>3 DEF EnsureNode, EnsuredNode
  <2> QED BY <2>1, <2>2
<1>7. /\ graph' = MarkUseful([EnsureNode(graph, m, l) EXCEPT !.child[e] = EnsuredNode(graph, m, l)], e)
      /\ Arrive(EnsuredNode(graph, m, l), e)
      /\ inspection' = IF result.page = NoPage THEN inspection
                       ELSE [inspection EXCEPT ![EnsuredNode(graph, m, l)] = result.page]
  BY DEF UpdateFollow
<1> HIDE DEF l, m
<1>8. /\ graph' = MarkUseful([EnsureNode(graph, l, l) EXCEPT !.child[e] = l], e)
      /\ Arrive(l, e)
      /\ inspection' = IF result.page = NoPage THEN inspection
                       ELSE [inspection EXCEPT ![l] = result.page]
  BY <1>6, <1>7
<1> QED BY <1>2, <1>4, <1>8 DEF l

LEMMA FollowStable ==
  ASSUME StableLanding, IInv, Options, Stable, UpdateFollow
  PROVE  /\ Stable' /\ GraphGrows
         /\ graph'.child = [graph.child EXCEPT ![decision.edge] = LandedUrl]
<1> DEFINE e == decision.edge
           u == e[2]
           l == LandedUrl
           g == EnsureNode(graph, l, l)
           h == [g EXCEPT !.child[e] = l]
<1>1. /\ TypeOK /\ pc = "update_graph" /\ pc' = "advance_branch" /\ Tight(graph)
  BY UpdateStart DEF UpdateGraph, Stable
<1>2. /\ e \in Edge /\ l \in {u, Final(u)}
      /\ IF Final(u) \in Pdf THEN result.page = NoPage /\ l = u
         ELSE /\ result.page \in Page /\ result.page.url = l
              /\ l # Final(u) => Snapshot(u).url = l
      /\ graph' = MarkUseful(h, e)
      /\ inspection' = IF result.page = NoPage THEN inspection
                       ELSE [inspection EXCEPT ![l] = result.page]
  BY FollowLands
<1>3. UNCHANGED searched BY DEF UpdateFollow
<1> HIDE DEF e, l
<1>4. u \in Url /\ l \in Url /\ l \in Node /\ Final(u) \in Url
  BY <1>2, FinalLanding DEF Edge
<1>5. /\ Tight(g) /\ g.url[l] = l /\ g.child = graph.child /\ g.edge = graph.edge
      /\ \A n \in Node : graph.url[n] # NoUrl => g.url[n] # NoUrl
  BY <1>1, <1>4, EnsureTight
<1> HIDE DEF g
<1>6. /\ Tight(h) /\ h.url = g.url /\ h.edge = g.edge
      /\ h.child = [graph.child EXCEPT ![e] = l]
  BY <1>2, <1>4, <1>5, FlagsTight DEF Tight, Sound, GraphType
<1> HIDE DEF h
<1>7. e \in OfferedIn(h)
  <2>1. decision.edge \in Offered
    BY <1>1, <1>2, EdgeIsReal DEF Options, e
  <2> QED BY <1>5, <1>6, <2>1 DEF Offered, OfferedIn, e
<1>8. Tight(graph') /\ graph'.url = g.url /\ graph'.child = [graph.child EXCEPT ![e] = l]
  BY <1>2, <1>6, <1>7, MarkTight
<1>9. GraphGrows BY <1>5, <1>8 DEF GraphGrows
<1>10. Pages' /\ ShownKept
  <2>1. CASE result.page = NoPage
    BY <1>2, <1>3, <2>1, PagesSame DEF Stable
  <2>2. CASE result.page # NoPage
    <3>1. result.page.url = l BY <1>2, <2>2
    <3>2. /\ inspection' = [inspection EXCEPT ![l] = result.page]
          /\ inspection \in [Node -> Page \cup {NoPage}]
      BY <1>1, <1>2, <2>2 DEF TypeOK
    <3>3. Pages' BY <1>3, <1>4, <3>1, <3>2 DEF Stable, Pages, Places
    <3>4. ShownKept BY <1>3, <1>4, <3>1, <3>2 DEF ShownKept, Snapshot
    <3> QED BY <3>3, <3>4
  <2> QED BY <2>1, <2>2
<1>11. ASSUME NEW w \in Url, w = u PROVE Settled(w)'
  <2>1. graph'.url[l] # NoUrl BY <1>4, <1>5, <1>8, UrlAssumption
  <2>2. CASE Final(w) \in Pdf \/ l = Final(w)
    <3>1. IF Final(w) \in Pdf THEN l = w ELSE l = Final(w) BY <1>2, <1>11, <2>2
    <3> QED BY <2>1, <3>1 DEF Settled
  <2>3. CASE Final(w) \notin Pdf /\ l # Final(w)
    <3>1. l = w /\ Snapshot(w).url = w BY <1>2, <1>11, <2>3
    <3>2. Snapshot(w)'.url = w BY <1>10, <3>1 DEF ShownKept
    <3> QED BY <2>1, <2>3, <3>1, <3>2 DEF Settled
  <2> QED BY <2>2, <2>3
<1>12. Children'
  <2> SUFFICES ASSUME NEW x \in Edge, graph'.child[x] # NoUrl PROVE Settled(x[2])'
    BY DEF Children
  <2>1. x[2] \in Url BY DEF Edge
  <2>2. CASE x = e BY <1>11, <2>1, <2>2
  <2>3. CASE x # e
    <3>1. graph'.child[x] = graph.child[x] BY <1>1, <1>8, <2>3 DEF TypeOK, GraphType
    <3>2. Settled(x[2]) BY <3>1 DEF Stable, Children
    <3> QED BY <1>9, <1>10, <2>1, <3>2, SettledKept
  <2> QED BY <2>2, <2>3
<1> QED BY <1>1, <1>8, <1>9, <1>10, <1>12 DEF Stable, Answer, e, l

LEMMA SearchStable ==
  ASSUME StableLanding, IInv, Stable, UpdateSearch
  PROVE  Stable' /\ GraphGrows
<1> DEFINE u == result.page.url
           n == SearchNode
           g == IF result.create THEN EnsureNode(graph, u, u) ELSE graph
<1>1. /\ TypeOK /\ ResultReady /\ pc = "update_graph" /\ pc' = "advance_branch"
      /\ Tight(graph) /\ current \in Node /\ graph.url[current] # NoUrl
      /\ decision.action = "search_with_text" /\ result.status = "ok"
  BY UpdateStart DEF UpdateGraph, UpdateSearch, Update, Stable, TypeOK, FocusAgrees
<1>2. result.page \in Page /\ u \in Url BY <1>1 DEF ResultReady, Page
<1>3. /\ Tight(g) /\ n \in Node /\ g.child = graph.child
      /\ \A m \in Node : graph.url[m] # NoUrl => g.url[m] # NoUrl
      /\ IF result.create THEN u = n ELSE result.page = inspection[n]
  <2>1. CASE result.create BY <1>1, <1>2, <2>1, EnsureTight DEF SearchNode
  <2>2. CASE ~ result.create
    BY <1>1, <2>2 DEF SearchNode, Stable, Answer
  <2> QED BY <2>1, <2>2
<1>4. /\ graph' = [g EXCEPT !.inspected = @ \ {n}]
      /\ inspection' = [inspection EXCEPT ![n] = result.page]
      /\ searched' = [searched EXCEPT ![n] = result.page]
  BY DEF UpdateSearch
<1> HIDE DEF g, n
<1>5. Tight(graph') /\ graph'.url = g.url /\ graph'.child = graph.child
  <2>1. <<n, n>> \in Edge BY <1>3 DEF Edge
  <2> QED BY <1>3, <1>4, <2>1, FlagsTight DEF Tight, Sound, GraphType
<1>6. GraphGrows BY <1>3, <1>5 DEF GraphGrows
<1>7. u \in Places(n) BY <1>3 DEF Stable, Pages, Places
<1>8. Pages' BY <1>1, <1>2, <1>3, <1>4, <1>7 DEF Stable, Pages, TypeOK
<1>9. ShownKept
  <2> SUFFICES ASSUME NEW m \in Node, Snapshot(m).url = m PROVE Snapshot(m)'.url = m
    BY DEF ShownKept
  <2>1. CASE m # n BY <1>1, <1>4, <2>1 DEF Snapshot, TypeOK
  <2>2. CASE m = n
    <3>1. result.page # NoPage BY <1>2, UrlAssumption DEF Page, NoPage
    <3>2. Snapshot(m)' = result.page BY <1>1, <1>3, <1>4, <2>2, <3>1 DEF Snapshot, TypeOK
    <3>3. inspection[m].url = m BY DEF Snapshot, Stable, Pages
    <3> QED BY <1>3, <2>2, <3>2, <3>3
  <2> QED BY <2>1, <2>2
<1>10. Children' BY <1>5, <1>6, <1>9, ChildrenKept DEF Stable
<1> QED BY <1>1, <1>5, <1>6, <1>8, <1>10 DEF Stable, Answer

LEMMA UpdateStable ==
  ASSUME StableLanding, IInv, Options, Stable, UpdateGraph
  PROVE  Stable'
<1> USE DEF options, memory, focus
<1>1. /\ TypeOK /\ DecisionReady /\ pc = "update_graph" /\ pc' = "advance_branch"
      /\ Tight(graph)
  BY UpdateStart DEF Stable
<1>2. CASE /\ UNCHANGED <<inspection, searched>>
           /\ Tight(graph') /\ graph'.url = graph.url /\ graph'.child = graph.child
  <2>1. Pages' /\ ShownKept BY <1>2, PagesSame DEF Stable
  <2>2. Children' BY <1>2, <2>1, ChildrenKept DEF Stable, GraphGrows
  <2> QED BY <1>1, <1>2, <2>1, <2>2 DEF Stable, Answer
<1>3. CASE UpdateFailed
  <2>1. UNCHANGED <<inspection, searched>> BY <1>3 DEF UpdateFailed
  <2>2. CASE decision.edge = NoEdge BY <1>1, <1>2, <1>3, <2>1, <2>2 DEF UpdateFailed
  <2>3. CASE decision.edge # NoEdge
    <3>1. decision.edge \in OfferedIn(graph)
      BY <1>1, <2>3 DEF Options, Offered, OfferedIn
    <3>2. graph' = MarkFailed(graph, decision.edge) BY <1>3, <2>3 DEF UpdateFailed
    <3> QED BY <1>1, <1>2, <2>1, <3>1, <3>2, MarkTight
  <2> QED BY <2>2, <2>3
<1>4. CASE UpdateDownload \/ UpdateOpen
  <2>1. decision.edge \in Edge
    BY <1>1, <1>4 DEF UpdateDownload, UpdateOpen, Update, DecisionReady, EdgeActions
  <2>2. decision.edge \in OfferedIn(graph)
    BY <1>1, <2>1, EdgeIsReal DEF Options, Offered, OfferedIn
  <2>3. graph' = MarkUseful(graph, decision.edge) /\ UNCHANGED <<inspection, searched>>
    BY <1>4 DEF UpdateDownload, UpdateOpen
  <2> QED BY <1>1, <1>2, <2>2, <2>3, MarkTight
<1>5. CASE UpdateValidate BY <1>1, <1>2, <1>5 DEF UpdateValidate
<1>6. CASE UpdateExhausted
  <2>1. graph' = MarkExhausted(graph, scope) /\ UNCHANGED <<inspection, searched>>
    BY <1>6 DEF UpdateExhausted
  <2>2. scope \in Node /\ <<scope, scope>> \in Edge BY <1>1 DEF TypeOK, Edge
  <2> QED BY <1>1, <1>2, <2>1, <2>2, FlagsTight
<1>7. CASE UpdateFollow BY <1>7, FollowStable
<1>8. CASE UpdateSearch BY <1>8, SearchStable
<1> QED BY <1>3, <1>4, <1>5, <1>6, <1>7, <1>8 DEF UpdateGraph

LEMMA AdvanceStable ==
  ASSUME StableLanding, IInv, Stable, AdvanceBranch
  PROVE  Stable'
<1> USE DEF memory
<1>1. /\ TypeOK /\ pc = "advance_branch" /\ Tight(graph) /\ scope \in Node
      /\ graph' = Advanced /\ UNCHANGED <<inspection, searched>>
  BY DEF AdvanceBranch, At, IInv, TypeOK, Stable
<1>2. <<scope, scope>> \in Edge BY <1>1 DEF Edge
<1>3. Tight(graph') /\ graph'.url = graph.url /\ graph'.child = graph.child
  BY <1>1, <1>2, FlagsTight DEF Advanced
<1>4. Pages' /\ Children'
  BY <1>1, <1>3, PagesSame, ChildrenKept DEF GraphGrows, Stable
<1>5. pc' # "update_graph"
  BY DEF AdvanceBranch, Continue, ResumeAnchor, ResumePoint, RestartRoot, Stop,
         InspectOrFail, TerminalRoute
<1> QED BY <1>3, <1>4, <1>5 DEF Stable, Answer

LEMMA NextStable ==
  ASSUME StableLanding, IInv, Options, Stable, [Next]_vars
  PROVE  Stable'
<1> USE DEF options, memory, focus
<1>1. CASE UNCHANGED vars
  BY <1>1 DEF vars, Stable, Pages, Children, Settled, Answer, Snapshot, Fetched
<1>2. CASE ClassifyNode \/ DecideAction \/ StepLimit \/ PortFailure \/ Finish \/ Terminated
  <2>1. UNCHANGED <<graph, inspection, searched>>
    BY <1>2 DEF ClassifyNode, DecideAction, StepLimit, PortFailure, Finish, Terminated, vars
  <2>2. pc' # "update_graph"
    BY <1>2 DEF ClassifyNode, DecideAction, StepLimit, PortFailure, Finish, Terminated, vars, Ended
  <2> QED BY <2>1, <2>2 DEF Stable, Pages, Children, Settled, Answer, Snapshot
<1>3. CASE InspectNode BY <1>3, InspectStable
<1>4. CASE BuildNodeView BY <1>4, PerceiveStable
<1>5. CASE ExecuteAction BY <1>5, ExecuteStable
<1>6. CASE UpdateGraph BY <1>6, UpdateStable
<1>7. CASE AdvanceBranch BY <1>7, AdvanceStable
<1> QED BY <1>1, <1>2, <1>3, <1>4, <1>5, <1>6, <1>7 DEF Next

LEMMA InitStable == ASSUME StableLanding, Init PROVE Stable
<1>1. Tight(graph) BY InitTight DEF Init
<1>2. Pages BY UrlAssumption DEF Init, Pages, Places, NoPage
<1>3. \A e \in Edge : graph.child[e] = NoUrl BY DEF Init, RegisterNode, EmptyGraph
<1>4. Children /\ Answer BY <1>3 DEF Children, Answer, Init
<1> QED BY <1>1, <1>2, <1>4 DEF Stable

LEMMA SpecStable == StableLanding => (Spec => [](IInv /\ Options /\ Stable))
<1> SUFFICES ASSUME StableLanding PROVE Spec => [](IInv /\ Options /\ Stable)
  OBVIOUS
<1>1. Init => IInv /\ Options /\ Stable BY InitIInv, InitPromise, InitStable
<1>2. IInv /\ Options /\ Stable /\ [Next]_vars => (IInv /\ Options /\ Stable)'
  BY NextIInv, NextOptions, NextStable
<1> QED BY <1>1, <1>2, PTL DEF Spec

(* Where no URL lands at different ones, has_pending_edges and              *)
(* pending_edges_from_node never disagree: no node object is ever replaced  *)
(* while it has edges, because a second request by an edge leads to a URL   *)
(* that is registered already (ensure_node, register_node).                 *)
THEOREM TupleIsComplete == StableLanding => (Spec => []PendingInSync)
<1> SUFFICES ASSUME StableLanding PROVE Spec => []PendingInSync
  OBVIOUS
<1>1. Stable => PendingInSync BY DEF Stable, Tight, Synced, PendingInSync
<1> QED BY <1>1, SpecStable, PTL

(* ... and every URL of the index leads to the node that carries it.        *)
THEOREM IndexLeadsHome == StableLanding => (Spec => []IndexConsistent)
<1> SUFFICES ASSUME StableLanding PROVE Spec => []IndexConsistent
  OBVIOUS
<1>1. Stable => IndexConsistent
  BY UrlAssumption DEF Stable, Tight, Named, IndexConsistent
<1> QED BY <1>1, SpecStable, PTL

---------------------------------------------------------------------------
(* What a node shows, and what an edge that is applied becomes.             *)

Shows(n) == Links[n] \cup Revealed[n] \cup Links[Final(n)] \cup Revealed[Final(n)] \cup Visual[n]

(* A node offers only what it shows.                                        *)
ShownOnly == \A e \in Edge : graph.edge[e] # "absent" => e[2] \in Shows(e[1])

Offers(T) ==
  \A e \in Edge : graph'.edge[e] = IF e[1] = current /\ e[2] \in T /\ graph.edge[e] = "absent"
                                   THEN "discovered" ELSE graph.edge[e]

LEMMA InspectOffers ==
  ASSUME StableLanding, IInv, Stable, InspectNode
  PROVE  \E T \in SUBSET Url : T \subseteq Shows(current)
                               /\ graph' = MarkInspected(Merge(graph, current, T), current)
<1>1. TypeOK /\ current \in Node /\ graph.url[current] = current
  BY DEF IInv, TypeOK, FocusAgrees, Stable, Tight, Named
<1>2. PICK page \in Page : Observe(page) /\ page.url \in Places(current)
  <2>1. CASE InspectSnapshot
    <3>1. Snapshot(current) \in Page BY <1>1, <2>1, SnapshotType DEF InspectSnapshot
    <3>2. Snapshot(current).url \in Places(current) BY <1>1 DEF Snapshot, Stable, Pages
    <3> QED BY <2>1, <3>1, <3>2 DEF InspectSnapshot
  <2>2. CASE InspectPage
    <3>1. PICK v \in Landing[current] : Observe([url |-> v, revealed |-> FALSE])
      BY <1>1, <2>2 DEF InspectPage
    <3>2. v = Final(current) /\ v \in Url BY <1>1, <3>1, FinalLanding
    <3>3. [url |-> v, revealed |-> FALSE] \in Page /\ [url |-> v, revealed |-> FALSE].url = v
      BY <3>2 DEF Page
    <3> QED BY <3>1, <3>2, <3>3 DEF Places
  <2> QED BY <2>1, <2>2 DEF InspectNode
<1>3. page.url \in {current, Final(current)} BY <1>2, UrlAssumption DEF Places, Page
<1>4. Candidates(page) \subseteq Shows(current) /\ Candidates(page) \subseteq Url
  BY <1>3, CandidatesType DEF Candidates, Shows
<1> QED BY <1>2, <1>4 DEF Observe

LEMMA LookEdges ==
  ASSUME StableLanding, IInv, Stable, InspectNode \/ BuildNodeView
  PROVE  /\ \E T \in SUBSET Url : T \subseteq Shows(current) /\ Offers(T)
         /\ graph'.child = graph.child /\ graph'.exhausted = graph.exhausted
<1>1. /\ TypeOK /\ Tight(graph) /\ Sound(graph) /\ graph \in GraphType /\ current \in Node
      /\ graph.url[current] = current /\ current # NoUrl
  BY UrlAssumption DEF IInv, TypeOK, FocusAgrees, Stable, Tight, Named, Sound
<1>2. CASE graph' = graph
  <2>1. Offers({}) BY <1>2 DEF Offers
  <2> QED BY <1>2, <2>1
<1>3. ASSUME NEW T \in SUBSET Url, T \subseteq Shows(current),
             graph' \in {Merge(graph, current, T),
                         MarkInspected(Merge(graph, current, T), current)}
      PROVE  Offers(T) /\ graph'.child = graph.child /\ graph'.exhausted = graph.exhausted
  <2> DEFINE h == Merge(graph, current, T)
  <2>1. /\ Tight(h) /\ h.child = graph.child /\ h.exhausted = graph.exhausted
    BY <1>1, MergeTight, MergeSound
  <2>2. h.edge = MergedEdges(graph, current, T) BY <1>1 DEF Merge, GraphType
  <2> HIDE DEF h
  <2>3. <<current, current>> \in Edge BY <1>1 DEF Edge
  <2>4. graph'.edge = h.edge /\ graph'.child = h.child /\ graph'.exhausted = h.exhausted
    BY <1>1, <1>3, <2>1, <2>3, FlagsTight, MarkNodeSound DEF h, Tight
  <2>5. Offers(T) BY <2>2, <2>4 DEF MergedEdges, Offers
  <2> QED BY <2>1, <2>4, <2>5
<1>4. CASE InspectNode BY <1>3, <1>4, InspectOffers
<1>5. CASE BuildNodeView /\ ViewPerceivedNode
  <2>1. PICK extra \in SUBSET Visual[current] : graph' = Merge(graph, current, extra)
    BY <1>1, <1>5 DEF ViewPerceivedNode
  <2>2. extra \in SUBSET Url /\ extra \subseteq Shows(current)
    BY <1>1, GraphMapperAssumption DEF Shows
  <2> QED BY <1>3, <2>1, <2>2
<1> QED BY <1>2, <1>4, <1>5 DEF BuildNodeView, ViewKnownNode

(* An update closes the edge that was decided or leaves all edges alone.    *)
Closes == \E s \in {"useful", "failed"} : graph'.edge = [graph.edge EXCEPT ![decision.edge] = s]

LEMMA UpdateEdges ==
  ASSUME IInv, Options, UpdateGraph
  PROVE  /\ \/ graph'.edge = graph.edge
            \/ decision.edge \in Offered /\ Closes
         /\ UpdateFollow => decision.edge \in Offered /\ Closes
         /\ ~ UpdateFollow => graph'.child = graph.child
         /\ ~ UpdateFollow /\ ~ UpdateSearch => graph.exhausted \subseteq graph'.exhausted
<1>1. /\ TypeOK /\ DecisionReady /\ pc = "update_graph" /\ graph \in GraphType
  BY UpdateStart DEF TypeOK
<1>2. decision.edge \in Edge => decision.edge \in Offered
  BY <1>1, EdgeIsReal DEF Options
<1>3. CASE UpdateFailed
  <2>1. ~ UpdateFollow BY <1>3 DEF UpdateFailed, UpdateFollow, Update
  <2>2. CASE decision.edge = NoEdge BY <1>3, <2>1, <2>2 DEF UpdateFailed
  <2>3. CASE decision.edge # NoEdge
    <3>1. graph' = MarkFailed(graph, decision.edge) BY <1>3, <2>3 DEF UpdateFailed
    <3>2. decision.edge \in Edge BY <1>1, <2>3 DEF TypeOK, Decision
    <3>3. /\ graph'.edge = [graph.edge EXCEPT ![decision.edge] = "failed"]
          /\ graph'.child = graph.child /\ graph.exhausted \subseteq graph'.exhausted
      BY <1>1, <3>1 DEF MarkFailed, GraphType
    <3> QED BY <1>2, <2>1, <3>2, <3>3 DEF Closes
  <2> QED BY <2>2, <2>3
<1>4. CASE UpdateDownload \/ UpdateOpen
  <2>1. decision.edge \in Edge /\ ~ UpdateFollow
    BY <1>1, <1>4 DEF UpdateDownload, UpdateOpen, UpdateFollow, Update, DecisionReady, EdgeActions
  <2>2. graph' = MarkUseful(graph, decision.edge) BY <1>4 DEF UpdateDownload, UpdateOpen
  <2>3. /\ graph'.edge = [graph.edge EXCEPT ![decision.edge] = "useful"]
        /\ graph'.child = graph.child /\ graph'.exhausted = graph.exhausted
    BY <1>1, <2>2 DEF MarkUseful, GraphType
  <2> QED BY <1>2, <2>1, <2>3 DEF Closes
<1>5. CASE UpdateFollow
  <2> DEFINE m == ProposedNode(decision.edge, LandedUrl)
             n == EnsuredNode(graph, m, LandedUrl)
             g == EnsureNode(graph, m, LandedUrl)
  <2>1. decision.edge \in Edge
    BY <1>1, <1>5 DEF UpdateFollow, Update, DecisionReady, EdgeActions
  <2>2. g.edge = graph.edge /\ g \in [DOMAIN graph -> {g[x] : x \in DOMAIN graph}]
    BY <1>1 DEF EnsureNode, RegisterNode, GraphType
  <2>3. graph' = MarkUseful([g EXCEPT !.child[decision.edge] = n], decision.edge)
    BY <1>5 DEF UpdateFollow
  <2>4. graph'.edge = [graph.edge EXCEPT ![decision.edge] = "useful"]
    BY <1>1, <2>2, <2>3 DEF MarkUseful, GraphType
  <2> QED BY <1>2, <1>5, <2>1, <2>4 DEF Closes
<1>6. CASE UpdateValidate \/ UpdateSearch \/ UpdateExhausted
  <2>1. graph'.edge = graph.edge /\ graph'.child = graph.child
    BY <1>1, <1>6 DEF UpdateValidate, UpdateSearch, UpdateExhausted, EnsureNode, RegisterNode,
                      MarkExhausted, GraphType
  <2>2. ~ UpdateFollow
    BY <1>6 DEF UpdateValidate, UpdateSearch, UpdateExhausted, UpdateFollow, Update
  <2>3. ~ UpdateSearch => graph.exhausted \subseteq graph'.exhausted
    BY <1>1, <1>6 DEF UpdateValidate, UpdateExhausted, MarkExhausted, GraphType
  <2> QED BY <2>1, <2>2, <2>3
<1> QED BY <1>3, <1>4, <1>5, <1>6 DEF UpdateGraph

LEMMA AdvanceEdges ==
  ASSUME IInv, AdvanceBranch
  PROVE  /\ pc = "advance_branch" /\ graph' = Advanced /\ pc' # "update_graph"
         /\ graph'.edge = graph.edge /\ graph'.child = graph.child
         /\ graph'.pending = graph.pending
         /\ graph.exhausted \subseteq graph'.exhausted /\ UNCHANGED <<arrival, owner>>
<1>1. pc = "advance_branch" /\ graph' = Advanced /\ graph \in GraphType
  BY DEF AdvanceBranch, At, IInv, TypeOK
<1>2. /\ graph'.edge = graph.edge /\ graph'.child = graph.child
      /\ graph'.pending = graph.pending /\ graph.exhausted \subseteq graph'.exhausted
  BY <1>1 DEF Advanced, MarkExhausted, GraphType
<1>3. AdvanceEffect
  BY <1>1, ContinueEffect, ResumeAnchorEffect, ResumePointEffect, RestartRootEffect, StopEffect
  DEF AdvanceBranch
<1> QED BY <1>1, <1>2, <1>3 DEF AdvanceEffect, TerminalRoute

(* Steps that leave the graph and the focus alone.                          *)
LEMMA IdleStep ==
  ASSUME IInv, [Next]_vars
  PROVE  \/ InspectNode \/ BuildNodeView \/ DecideAction \/ ExecuteAction
         \/ UpdateGraph \/ AdvanceBranch
         \/ /\ UNCHANGED <<graph, current, arrival, points, decision>>
            /\ pc' \notin {"execute_action", "update_graph", "fail"} \/ pc' = pc
<1> USE DEF options, memory, focus
<1>1. CASE UNCHANGED vars BY <1>1 DEF vars
<1>2. CASE ClassifyNode \/ StepLimit \/ PortFailure \/ Finish \/ Terminated
  BY <1>2 DEF ClassifyNode, StepLimit, PortFailure, Finish, Terminated, vars
<1> QED BY <1>1, <1>2 DEF Next

LEMMA NextShown ==
  ASSUME StableLanding, IInv, Options, Stable, ShownOnly, [Next]_vars
  PROVE  ShownOnly'
<1> USE DEF options, memory, focus
<1>1. CASE graph'.edge = graph.edge BY <1>1 DEF ShownOnly
<1>2. CASE InspectNode \/ BuildNodeView
  <2>1. PICK T \in SUBSET Url : T \subseteq Shows(current) /\ Offers(T) BY <1>2, LookEdges
  <2> QED BY <2>1 DEF ShownOnly, Offers
<1>3. CASE UpdateGraph
  <2>1. CASE decision.edge \in Offered /\ Closes
    BY <2>1 DEF ShownOnly, Offered, Closes, IInv, TypeOK, GraphType
  <2> QED BY <1>1, <1>3, <2>1, UpdateEdges
<1>4. CASE ExecuteAction
  <2>1. PICK r \in Result : Responds(r) BY <1>4, ExecuteActionResult
  <2> QED BY <1>1, <2>1 DEF Responds
<1>5. CASE DecideAction BY <1>1, <1>5 DEF DecideAction
<1>6. CASE AdvanceBranch BY <1>1, <1>6, AdvanceEdges
<1> QED BY <1>1, <1>2, <1>3, <1>4, <1>5, <1>6, IdleStep

---------------------------------------------------------------------------
(* The edge of arrival, where what ends in .pdf shows no candidates.        *)

PdfBare == \A u \in DotPdf : Shows(u) = {}

(* The arrival context names the last edge that was followed and the node   *)
(* it led to, and no node whose URL ends in .pdf is worked on but the one   *)
(* arrived at.                                                              *)
Arrivals ==
  /\ arrival.edge # NoEdge => graph.child[arrival.edge] = arrival.node
  /\ current \in DotPdf /\ arrival.edge # NoEdge => arrival.node = current

LEMMA ResumptionsPending ==
  ASSUME NEW g, NEW n, NEW r \in Resumptions(points, anchors, g, n), r.kind = "anchor"
  PROVE  HasPendingEdges(g, r.node)
<1> DEFINE lower == IF RootAvailable(g) THEN "root" ELSE "stop"
           Of(p) == IF p = NoPoint THEN [kind |-> lower, node |-> NoUrl, point |-> NoPoint]
                    ELSE [kind |-> "point", node |-> NoUrl, point |-> p]
           below == {Of(p) : p \in PointChoices(points, g, n)}
<1>1. PICK a \in AnchorChoices(anchors, g, n) :
        r \in IF a = NoUrl THEN below
              ELSE {[kind |-> "anchor", node |-> a, point |-> NoPoint]}
  BY DEF Resumptions
<1>2. \A x \in below : x.kind # "anchor" OBVIOUS
<1>3. a # NoUrl /\ r.node = a BY <1>1, <1>2
<1>4. HasPendingEdges(g, a) BY <1>3 DEF AnchorChoices
<1> QED BY <1>3, <1>4

(* What has something pending does not end in .pdf.                         *)
LEMMA PendingIsPage ==
  ASSUME PdfBare, Stable, ShownOnly, NEW n \in Node, graph.pending[n] # {}
  PROVE  n \notin DotPdf
<1>1. PICK u \in Url : graph.edge[<<n, u>>] = "discovered"
  BY DEF Stable, Tight, Synced, PendingEdges
<1>2. <<n, u>> \in Edge BY <1>1 DEF Edge
<1>3. u \in Shows(n) BY <1>1, <1>2 DEF ShownOnly
<1> QED BY <1>3 DEF PdfBare

LEMMA AdvanceArrivals ==
  ASSUME PdfBare, IInv, Options, Stable, ShownOnly, Arrivals, AdvanceBranch
  PROVE  Arrivals' /\ (pc' = "execute_action" => decision'.action = "follow_edge")
<1> USE DEF options
<1>1. /\ pc = "advance_branch" /\ graph' = Advanced /\ UNCHANGED arrival
      /\ graph'.child = graph.child /\ graph'.pending = graph.pending
  BY AdvanceEdges
<1>2. scope = current BY DEF IInv, FocusAgrees
<1>3. current' = current \/ current' \notin DotPdf
  <2>1. CASE Continue \/ Stop BY <1>2, <2>1 DEF Continue, Stop, Focus, focus
  <2>2. CASE ResumeAnchor
    <3>1. PICK r \in Resumes("anchor") : current' = r.node BY <2>2 DEF ResumeAnchor, Focus
    <3>2. r.node \in Node BY <3>1, ResumptionsLive DEF Resumes, Live
    <3>3. graph.pending[r.node] # {}
      BY <1>1, <3>1, ResumptionsPending DEF Resumes, HasPendingEdges
    <3> QED BY <3>1, <3>2, <3>3, PendingIsPage
  <2>3. CASE ResumePoint
    <3>1. PICK r \in Resumes("point") : current' = r.point.from BY <2>3 DEF ResumePoint, Focus
    <3>2. r.point \in points BY <3>1, ResumptionsLive DEF Resumes, Live, Viable
    <3>3. <<r.point.from, r.point.to>> \in Offered BY <3>2 DEF Options
    <3>4. r.point.to \in Shows(r.point.from) BY <3>3 DEF ShownOnly, Offered
    <3> QED BY <3>1, <3>4 DEF PdfBare
  <2>4. CASE RestartRoot
    <3>1. PICK r \in Resumes("root") : TRUE BY <2>4 DEF RestartRoot
    <3>2. RootAvailable(Advanced) BY <3>1, ResumptionsLive DEF Resumes, Live
    <3>3. current' = EntryUrl /\ EntryUrl \in Node /\ graph.pending[EntryUrl] # {}
      BY <1>1, <2>4, <3>2, UrlAssumption DEF RestartRoot, Focus, RootAvailable, HasPendingEdges
    <3> QED BY <3>3, PendingIsPage
  <2> QED BY <2>1, <2>2, <2>3, <2>4 DEF AdvanceBranch
<1>4. Arrivals' BY <1>1, <1>3 DEF Arrivals
<1>5. AdvanceEffect
  BY <1>1, ContinueEffect, ResumeAnchorEffect, ResumePointEffect, RestartRootEffect, StopEffect
  DEF AdvanceBranch
<1> QED BY <1>4, <1>5 DEF AdvanceEffect, TerminalRoute

LEMMA DecideArrivals ==
  ASSUME IInv, Stable, Arrivals, DecideAction
  PROVE  Arrivals' /\ LeafOpensItself'
<1> USE DEF memory, focus
<1>1. /\ UNCHANGED <<graph, current, arrival>> /\ graph.url[current] = current
      /\ PdfLeaf(current)' = PdfLeaf(current)
  BY DEF DecideAction, IInv, FocusAgrees, TypeOK, Stable, Tight, Named, PdfLeaf, CanValidate,
         Target
<1>2. Arrivals' BY <1>1 DEF Arrivals
<1>3. LeafOpensItself'
  <2>1. CASE DecideEdge BY <1>1, <2>1 DEF DecideEdge, LeafOpensItself
  <2>2. CASE DecideOpenLeaf
    <3> SUFFICES ASSUME PdfLeaf(current)
                 PROVE  arrival'.node = current' /\ graph'.child[decision'.edge] = current'
      BY <1>1 DEF LeafOpensItself
    <3>1. decision'.edge = arrival.edge BY <2>2 DEF DecideOpenLeaf, Decide
    <3>2. current \in DotPdf /\ arrival.edge # NoEdge BY <1>1 DEF PdfLeaf
    <3> QED BY <1>1, <3>1, <3>2 DEF Arrivals
  <2>3. CASE ~ DecideEdge /\ ~ DecideOpenLeaf
    BY <2>3 DEF DecideAction, DecideValidate, DecideSearch, DecideRefine, DecideExhausted,
                DecideSuccess, Decide, LeafOpensItself
  <2> QED BY <2>1, <2>2, <2>3
<1> QED BY <1>2, <1>3

LEMMA UpdateArrivals ==
  ASSUME StableLanding, IInv, Options, Stable, Arrivals, UpdateGraph
  PROVE  Arrivals'
<1> USE DEF focus
<1>1. CASE UpdateFollow
  <2>1. /\ decision.edge \in Edge /\ Arrive(LandedUrl, decision.edge)
    BY <1>1, FollowLands
  <2>2. graph'.child = [graph.child EXCEPT ![decision.edge] = LandedUrl]
    BY <1>1, FollowStable
  <2>3. graph'.child[decision.edge] = LandedUrl
    BY <2>1, <2>2 DEF IInv, TypeOK, GraphType
  <2> QED BY <2>1, <2>3 DEF Arrive, Arrivals
<1>2. CASE ~ UpdateFollow
  <2>1. graph'.child = graph.child BY <1>2, UpdateEdges
  <2>2. UNCHANGED <<current, arrival>> \/ arrival'.edge = NoEdge
    BY <1>2 DEF UpdateGraph, UpdateFailed, UpdateDownload, UpdateOpen, UpdateValidate,
                UpdateSearch, UpdateExhausted, Arrive
  <2> QED BY <2>1, <2>2 DEF Arrivals
<1> QED BY <1>1, <1>2

LEMMA NextArrivals ==
  ASSUME StableLanding, PdfBare, IInv, Options, Stable, ShownOnly,
         Arrivals, LeafOpensItself, [Next]_vars
  PROVE  Arrivals' /\ LeafOpensItself'
<1> USE DEF options, memory, focus
<1>1. CASE InspectNode \/ BuildNodeView
  <2>1. graph'.child = graph.child BY <1>1, LookEdges
  <2>2. UNCHANGED <<current, arrival>> /\ pc' # "execute_action"
    BY <1>1 DEF InspectNode, BuildNodeView
  <2> QED BY <2>1, <2>2 DEF Arrivals, LeafOpensItself
<1>2. CASE DecideAction BY <1>2, DecideArrivals
<1>3. CASE ExecuteAction
  <2>1. PICK r \in Result : Responds(r) /\ pc' \in {"update_graph", "success", "build_node_view"}
    BY <1>3, ExecuteActionResult
  <2> QED BY <2>1 DEF Responds, Arrivals, LeafOpensItself
<1>4. CASE UpdateGraph BY <1>4, UpdateArrivals, UpdateStart DEF LeafOpensItself
<1>5. CASE AdvanceBranch BY <1>5, AdvanceArrivals DEF LeafOpensItself
<1>6. CASE ClassifyNode \/ StepLimit \/ PortFailure \/ Finish \/ Terminated
  BY <1>6 DEF ClassifyNode, StepLimit, PortFailure, Finish, Terminated, vars, Ended, Arrivals,
              LeafOpensItself
<1>7. CASE UNCHANGED vars
  BY <1>7 DEF vars, Arrivals, LeafOpensItself, PdfLeaf, CanValidate, Target
<1> QED BY <1>1, <1>2, <1>3, <1>4, <1>5, <1>6, <1>7 DEF Next

LEMMA SpecShown ==
  StableLanding => (Spec => [](IInv /\ Options /\ Stable /\ ShownOnly))
<1> SUFFICES ASSUME StableLanding PROVE Spec => [](IInv /\ Options /\ Stable /\ ShownOnly)
  OBVIOUS
<1>1. Init => ShownOnly BY DEF Init, ShownOnly, RegisterNode, EmptyGraph
<1>2. IInv /\ Options /\ Stable /\ ShownOnly /\ [Next]_vars => ShownOnly' BY NextShown
<1> QED BY <1>1, <1>2, SpecStable, PTL DEF Spec

(* What is opened at a PDF leaf is the artifact the leaf was reached by: the *)
(* resume functions leave a stale arrival context behind, but they resume    *)
(* only at nodes with candidates, where guard_pdf_leaf does not apply, and   *)
(* the way from there to a node whose URL ends in .pdf is an arrival of its  *)
(* own.  Elsewhere the decider may open another node's artifact.             *)
THEOREM PdfLeafOpensItself == StableLanding /\ PdfBare => (Spec => []LeafOpensItself)
<1> SUFFICES ASSUME StableLanding, PdfBare PROVE Spec => []LeafOpensItself
  OBVIOUS
<1>1. Init => Arrivals /\ LeafOpensItself BY DEF Init, Arrivals, LeafOpensItself
<1>2. IInv /\ Options /\ Stable /\ ShownOnly /\ Arrivals /\ LeafOpensItself /\ [Next]_vars
        => (Arrivals /\ LeafOpensItself)'
  BY NextArrivals
<1> QED BY <1>1, <1>2, SpecShown, PTL DEF Spec

---------------------------------------------------------------------------
(* What waits at a node that is left.                                       *)

(* Decisions without a search; no target is shown by two nodes; and no node *)
(* but the root shows more than one candidate and BranchingFactor others.   *)
NoSearch      == "search_with_text" \notin Decisions
OneOrigin     == \A n, m \in Node : Shows(n) \cap Shows(m) # {} => n = m
FewCandidates == \A n \in Node \ {EntryUrl} : Cardinality(Shows(n)) <= BranchingFactor + 1

HasPoint(n, u) == \E p \in points : p.from = n /\ p.to = u
Following == pc \in {"execute_action", "update_graph"} /\ decision.action = "follow_edge"

(* A choice point holds every pending edge of every node that was left, but *)
(* for the root and for nodes given up; while an edge is followed, also     *)
(* every other pending edge of the node about to be left.                   *)
Waiting ==
  \A n \in Node \ ({EntryUrl, current} \cup graph.exhausted) :
    \A u \in PendingEdges(graph, n) : HasPoint(n, u)
Leaving ==
  Following =>
    /\ decision.edge[1] = current
    /\ current # EntryUrl =>
         \A u \in PendingEdges(graph, current) \ {decision.edge[2]} : HasPoint(current, u)
Held ==
  /\ Waiting /\ Leaving
  /\ pc = "fail" => current \in graph.exhausted
  /\ decision.action # "search_with_text"

PointsStay == \A n \in Node, u \in Url : HasPoint(n, u) => HasPoint(n, u)'

LEMMA ShowsFew ==
  ASSUME StableLanding, NEW n \in Node
  PROVE  Shows(n) \in SUBSET Url /\ IsFiniteSet(Shows(n))
<1>1. Final(n) \in Url BY FinalLanding
<1>2. Shows(n) \in SUBSET Url BY <1>1, GraphMapperAssumption DEF Shows
<1> QED BY <1>2, UrlAssumption, FS_Subset

(* Of a few candidates the seeding takes all that no open point holds.      *)
LEMMA SeedTakesAll ==
  ASSUME NEW P, IsFiniteSet(P), NEW chosen \in P, Cardinality(P) <= BranchingFactor + 1,
         NEW years, NEW S \in SeedChoices(points, P, chosen, years)
  PROVE  S = Seedable(points, P, chosen)
<1> DEFINE rest == P \ {chosen}
           fresh == Seedable(points, P, chosen)
<1>1. IsFiniteSet(rest) /\ Cardinality(rest) = Cardinality(P) - 1 BY FS_RemoveElement
<1>2. Cardinality(P) \in Nat /\ Cardinality(rest) \in Nat BY <1>1, FS_CardinalityType
<1>3. fresh \in SUBSET rest /\ S \in SUBSET fresh BY DEF Seedable, SeedChoices
<1>4. S \in SUBSET rest BY <1>3
<1>5. S = fresh \/ Cardinality(S) = BranchingFactor BY DEF SeedChoices
<1>6. CASE Cardinality(S) = BranchingFactor
  <2>1. Cardinality(S) = Cardinality(rest)
    <3> HIDE DEF rest, fresh
    <3>1. Cardinality(S) <= Cardinality(rest) BY <1>1, <1>4, FS_Subset
    <3> QED BY <1>1, <1>2, <1>6, <3>1, PolicyAssumption
  <2>2. S = rest BY <1>1, <1>4, <2>1, FS_Subset
  <2> QED BY <1>3, <2>2
<1> QED BY <1>5, <1>6

LEMMA DecideHolds ==
  ASSUME StableLanding, NoSearch, OneOrigin, FewCandidates,
         IInv, Options, Stable, ShownOnly, Held, DecideAction
  PROVE  Held'
<1> USE DEF focus
<1>1. /\ UNCHANGED <<graph, current>> /\ pc' = "execute_action" /\ current \in Node
      /\ scope = current
  BY DEF DecideAction, IInv, FocusAgrees, TypeOK
<1>2. decision'.action # "search_with_text"
  BY DEF DecideAction, DecideEdge, DecideOpenLeaf, DecideValidate, DecideSearch, DecideRefine,
         DecideExhausted, DecideSuccess, Decide, NoSearch
<1>3. CASE DecideEdge
  <2>1. PICK d \in EdgeDecisions(current) :
          Decide(d[1], <<current, d[2]>>, NoUrl) /\ Seed(d[2])
    BY <1>3 DEF DecideEdge
  <2> DEFINE P == PendingEdges(graph, current)
             years == PendingYears(Conditions)
             chosen == d[2]
  <2>2. chosen \in P BY DEF EdgeDecisions
  <2>3. PICK S \in SeedChoices(points, P, chosen, years) :
          points' = points \cup SeedPoints(current, S, Tip(path), years)
    BY <1>1, <2>1 DEF Seed
  <2>4. Waiting' BY <1>1, <2>3 DEF Held, Waiting, HasPoint, PendingEdges
  <2>5. decision'.edge[1] = current /\ decision'.edge[2] = chosen BY <2>1 DEF Decide
  <2>6. ASSUME current # EntryUrl, NEW u \in P \ {chosen}
        PROVE  \E p \in points' : p.from = current /\ p.to = u
    <3>1. P \in SUBSET Shows(current)
      <4> SUFFICES ASSUME NEW x \in P PROVE x \in Shows(current)
        OBVIOUS
      <4>1. <<current, x>> \in Edge /\ graph.edge[<<current, x>>] # "absent"
        BY <1>1 DEF PendingEdges, Edge
      <4> QED BY <4>1 DEF ShownOnly
    <3>2. IsFiniteSet(P) /\ Cardinality(P) <= Cardinality(Shows(current))
      BY <1>1, <3>1, ShowsFew, FS_Subset
    <3>3. Cardinality(P) <= BranchingFactor + 1
      <4>1. IsFiniteSet(Shows(current)) BY <1>1, ShowsFew
      <4>2. Cardinality(P) \in Nat /\ Cardinality(Shows(current)) \in Nat
        BY <3>2, <4>1, FS_CardinalityType
      <4>3. Cardinality(Shows(current)) <= BranchingFactor + 1
        BY <1>1, <2>6 DEF FewCandidates
      <4> HIDE DEF P
      <4> QED BY <3>2, <4>2, <4>3, PolicyAssumption
    <3>4. S = Seedable(points, P, chosen)
      <4> HIDE DEF P, chosen, years
      <4> QED BY <2>2, <2>3, <3>2, <3>3, SeedTakesAll
    <3>5. CASE u \in S
      <4> DEFINE p == [from |-> current, to |-> u, origin |-> Tip(path), prio |-> Priority(u, years)]
      <4>1. p \in points' BY <2>3, <3>5 DEF SeedPoints
      <4> QED BY <4>1
    <3>6. CASE u \notin S
      <4>1. PICK p \in points : p.to = u BY <2>6, <3>4, <3>6 DEF Seedable
      <4>2. p \in Point /\ p.from \in Node BY DEF IInv, TypeOK, Point
      <4>3. p.to \in Shows(p.from) BY DEF Options, Offered, ShownOnly
      <4>4. p.from = current
        <5>1. u \in Shows(current) \cap Shows(p.from) BY <2>6, <3>1, <4>1, <4>3
        <5> QED BY <1>1, <4>2, <5>1 DEF OneOrigin
      <4> QED BY <2>3, <4>1, <4>4
    <3> QED BY <3>5, <3>6
  <2>7. Leaving'
    <3>1. P' = P BY <1>1 DEF PendingEdges
    <3> HIDE DEF P, chosen
    <3>2. current # EntryUrl => \A u \in P \ {chosen} : \E p \in points' : p.from = current /\ p.to = u
      BY <2>6
    <3> QED BY <1>1, <2>5, <3>1, <3>2 DEF Leaving, HasPoint, P
  <2> QED BY <1>1, <1>2, <2>4, <2>7 DEF Held
<1>4. CASE ~ DecideEdge
  <2>1. UNCHANGED points
    BY <1>4 DEF DecideAction, DecideOpenLeaf, DecideValidate, DecideSearch, DecideRefine,
                DecideExhausted, DecideSuccess
  <2>2. decision'.action # "follow_edge"
    BY <1>4 DEF DecideAction, DecideOpenLeaf, DecideValidate, DecideSearch, DecideRefine,
                DecideExhausted, DecideSuccess, Decide
  <2>3. Waiting' BY <1>1, <2>1 DEF Held, Waiting, HasPoint, PendingEdges
  <2> QED BY <1>1, <1>2, <2>2, <2>3 DEF Held, Leaving, Following
<1> QED BY <1>3, <1>4

LEMMA ReprioritizeKeeps ==
  ASSUME NEW ps \in SUBSET Point, NEW years, NEW p \in ps
  PROVE  \E q \in Reprioritize(ps, years) : q.from = p.from /\ q.to = p.to
<1> DEFINE q == [p EXCEPT !.prio = Priority(p.to, years)]
<1>1. q.from = p.from /\ q.to = p.to BY DEF Point
<1>2. CASE years = {} BY <1>2 DEF Reprioritize
<1>3. CASE years # {}
  <2>1. q \in Reprioritize(ps, years) BY <1>3 DEF Reprioritize
  <2> QED BY <1>1, <2>1
<1> QED BY <1>2, <1>3

LEMMA UpdatePointsStay ==
  ASSUME IInv, UpdateGraph
  PROVE  PointsStay
<1>1. points \subseteq Point BY DEF IInv, TypeOK
<1>2. CASE Reprioritized
  <2>1. \A p \in points : \E q \in points' : q.from = p.from /\ q.to = p.to
    BY <1>1, <1>2, ReprioritizeKeeps DEF Reprioritized
  <2> QED BY <2>1 DEF PointsStay, HasPoint
<1>3. CASE ~ Reprioritized
  <2>1. UNCHANGED points
    BY <1>3 DEF UpdateGraph, UpdateFailed, UpdateFollow, UpdateDownload, UpdateOpen,
                UpdateValidate, UpdateSearch, UpdateExhausted, options
  <2> QED BY <2>1 DEF PointsStay, HasPoint
<1> QED BY <1>2, <1>3

LEMMA UpdateHolds ==
  ASSUME StableLanding, IInv, Options, Stable, Held, UpdateGraph
  PROVE  Held'
<1> USE DEF focus
<1>1. /\ TypeOK /\ pc = "update_graph" /\ pc' = "advance_branch" /\ graph \in GraphType
      /\ UNCHANGED decision
  BY UpdateStart DEF TypeOK, UpdateGraph, UpdateFailed, UpdateFollow, UpdateDownload, UpdateOpen,
                     UpdateValidate, UpdateSearch, UpdateExhausted
<1>2. PointsStay BY UpdatePointsStay
<1>3. \A n \in Node : PendingEdges(graph', n) \subseteq PendingEdges(graph, n)
  <2>1. CASE graph'.edge = graph.edge BY <2>1 DEF PendingEdges
  <2>2. CASE decision.edge \in Offered /\ Closes
    BY <1>1, <2>2 DEF Closes, Offered, PendingEdges, GraphType, Edge
  <2> QED BY <2>1, <2>2, UpdateEdges
<1>4. CASE UpdateFollow
  <2> DEFINE e == decision.edge
  <2>1. /\ e \in Edge /\ Arrive(LandedUrl, e)
        /\ graph' = MarkUseful([EnsureNode(graph, LandedUrl, LandedUrl)
                                  EXCEPT !.child[e] = LandedUrl], e)
    BY <1>4, FollowLands
  <2>2. current' = LandedUrl BY <2>1 DEF Arrive
  <2>3. graph.exhausted \ {current'} \subseteq graph'.exhausted
    BY <1>1, <2>1, <2>2 DEF EnsureNode, RegisterNode, MarkUseful, GraphType
  <2>4. decision.action = "follow_edge" BY <1>4 DEF UpdateFollow, Update
  <2>5. e[1] = current BY <1>1, <2>4 DEF Held, Leaving, Following
  <2>6. e[2] \notin PendingEdges(graph', current)
    <3>1. Closes BY <1>4, UpdateEdges
    <3>2. graph'.edge[e] # "discovered" BY <1>1, <2>1, <3>1 DEF Closes, GraphType
    <3>3. e = <<current, e[2]>> BY <2>1, <2>5 DEF Edge
    <3> QED BY <3>2, <3>3 DEF PendingEdges
  <2>7. ASSUME NEW n \in Node, n \notin {EntryUrl, current'} \cup graph'.exhausted,
               NEW u \in PendingEdges(graph', n)
        PROVE  HasPoint(n, u)
    <3>1. n \notin graph.exhausted /\ u \in PendingEdges(graph, n) BY <1>3, <2>3, <2>7
    <3>2. CASE n = current
      <4>1. u # e[2] BY <2>6, <2>7, <3>2
      <4> QED BY <1>1, <2>4, <2>7, <3>1, <3>2, <4>1 DEF Held, Leaving, Following
    <3>3. CASE n # current BY <2>7, <3>1, <3>3 DEF Held, Waiting
    <3> QED BY <3>2, <3>3
  <2>8. Waiting'
    <3>1. \A n \in Node \ ({EntryUrl, current'} \cup graph'.exhausted) :
            \A u \in PendingEdges(graph', n) : u \in Url /\ HasPoint(n, u)
      BY <2>7 DEF PendingEdges
    <3> QED BY <1>2, <3>1 DEF Waiting, PointsStay
  <2> QED BY <1>1, <2>8 DEF Held, Leaving, Following
<1>5. CASE ~ UpdateFollow
  <2>1. ~ UpdateSearch BY DEF Held, UpdateSearch, Update
  <2>2. graph.exhausted \subseteq graph'.exhausted BY <1>5, <2>1, UpdateEdges
  <2>3. UNCHANGED current
    BY <1>5, <2>1 DEF UpdateGraph, UpdateFailed, UpdateDownload, UpdateOpen, UpdateValidate,
                      UpdateExhausted
  <2>4. \A n \in Node \ ({EntryUrl, current'} \cup graph'.exhausted) :
          \A u \in PendingEdges(graph', n) : u \in Url /\ HasPoint(n, u)
    BY <1>3, <2>2, <2>3 DEF Held, Waiting, PendingEdges
  <2>5. Waiting' BY <1>2, <2>4 DEF Waiting, PointsStay
  <2> QED BY <1>1, <2>5 DEF Held, Leaving, Following
<1> QED BY <1>4, <1>5

(* A node is left only when it is used up, for good.                        *)
LEMMA UsedUpIsExhausted ==
  ASSUME IInv, UsedUp, pc = "advance_branch"
  PROVE  scope \in Advanced.exhausted
BY DEF UsedUp, Advanced, MarkExhausted, IInv, TypeOK, GraphType

LEMMA AdvanceHolds ==
  ASSUME IInv, Options, Held, AdvanceBranch
  PROVE  Held'
<1> USE DEF focus, options
<1>1. /\ pc = "advance_branch" /\ graph' = Advanced /\ pc' # "update_graph"
      /\ graph'.edge = graph.edge /\ graph.exhausted \subseteq graph'.exhausted
  BY AdvanceEdges
<1>2. scope = current BY DEF IInv, FocusAgrees
<1>3. \A n \in Node : PendingEdges(graph', n) = PendingEdges(graph, n)
  BY <1>1 DEF PendingEdges
<1>4. UsedUp => current \in graph'.exhausted BY <1>1, <1>2, UsedUpIsExhausted
<1>5. CASE ResumePoint
  <2>1. PICK r \in Resumes("point") :
          /\ current' = r.point.from /\ points' = points \ {r.point}
          /\ IF graph.edge[<<r.point.from, r.point.to>>] = "failed"
             THEN InspectOrFail(r.point.from) /\ UNCHANGED decision
             ELSE /\ pc' = "execute_action"
                  /\ decision' = [action |-> "follow_edge",
                                  edge |-> <<r.point.from, r.point.to>>, query |-> NoUrl]
    BY <1>5 DEF ResumePoint, Focus, Consume
  <2> DEFINE p == r.point
  <2>2. p \in Viable(points, Advanced, scope) BY <2>1, ResumptionsLive DEF Resumes, Live
  <2>3. /\ p \in points /\ p.from # current /\ p.from \notin graph'.exhausted
        /\ graph.edge[<<p.from, p.to>>] # "failed"
    BY <1>1, <1>2, <2>2 DEF Viable
  <2>4. /\ pc' = "execute_action" /\ decision'.action = "follow_edge"
        /\ decision'.edge[1] = p.from /\ decision'.edge[2] = p.to
    BY <2>1, <2>3
  <2>5. p.from \in Node /\ p.from \notin graph.exhausted
    BY <1>1, <2>3 DEF IInv, TypeOK, Point
  <2> HIDE DEF p
  <2>6. \A n \in Node, u \in Url : HasPoint(n, u) /\ (n # p.from \/ u # p.to) => HasPoint(n, u)'
    BY <2>1 DEF HasPoint, p
  <2>7. ASSUME NEW n \in Node, n \notin {EntryUrl, current'} \cup graph'.exhausted,
               NEW u \in PendingEdges(graph', n)
        PROVE  u \in Url /\ HasPoint(n, u) /\ n # p.from
    <3>1. CASE UsedUp
      <4>1. n # current BY <1>4, <2>7, <3>1
      <4> QED BY <1>1, <1>3, <2>1, <2>7, <4>1 DEF Held, Waiting, PendingEdges, p
    <3> QED BY <1>5, <3>1 DEF ResumePoint
  <2>8. Waiting'
    <3>1. \A n \in Node \ ({EntryUrl, current'} \cup graph'.exhausted) :
            \A u \in PendingEdges(graph', n) : u \in Url /\ HasPoint(n, u) /\ n # p.from
      BY <2>7
    <3> QED BY <2>6, <3>1 DEF Waiting
  <2>9. current' # EntryUrl
          => \A u \in PendingEdges(graph', current') \ {p.to} : u \in Url /\ HasPoint(current', u)
    BY <1>3, <2>1, <2>3, <2>5 DEF Held, Waiting, PendingEdges, p
  <2>10. current' = p.from BY <2>1 DEF p
  <2>11. Leaving'
    <3>1. current' # EntryUrl
            => \A u \in PendingEdges(graph', p.from) \ {p.to} : \E q \in points' : q.from = p.from /\ q.to = u
      BY <2>5, <2>6, <2>9, <2>10 DEF HasPoint
    <3> QED BY <2>4, <2>10, <3>1 DEF Leaving, HasPoint
  <2> QED BY <2>4, <2>8, <2>11 DEF Held
<1>6. CASE Continue \/ ResumeAnchor \/ RestartRoot \/ Stop
  <2>1. UNCHANGED <<points, decision>> /\ pc' # "execute_action"
    BY <1>6 DEF Continue, ResumeAnchor, RestartRoot, Stop, InspectOrFail, TerminalRoute
  <2>2. current' = current \/ current \in graph'.exhausted
    BY <1>2, <1>4, <1>6 DEF Continue, Focus, ResumeAnchor, RestartRoot, Stop
  <2>3. \A n \in Node \ ({EntryUrl, current'} \cup graph'.exhausted) :
          \A u \in PendingEdges(graph', n) : HasPoint(n, u)
    BY <1>1, <1>3, <2>2 DEF Held, Waiting
  <2>4. Waiting' BY <2>1, <2>3 DEF Waiting, HasPoint
  <2>5. pc' = "fail" => current' \in graph'.exhausted
    <3>1. CASE Stop BY <1>2, <1>4, <3>1 DEF Stop
    <3>2. CASE ~ Stop BY <1>1, <1>6, <3>2, ResumesAlive
    <3> QED BY <3>1, <3>2
  <2> QED BY <1>1, <2>1, <2>4, <2>5 DEF Held, Leaving, Following
<1> QED BY <1>5, <1>6 DEF AdvanceBranch

LEMMA NextHolds ==
  ASSUME StableLanding, NoSearch, OneOrigin, FewCandidates,
         IInv, Options, Stable, ShownOnly, Held, [Next]_vars
  PROVE  Held'
<1> USE DEF options, memory, focus
<1>1. CASE InspectNode \/ BuildNodeView
  <2>1. /\ UNCHANGED <<current, points, decision>> /\ current \in Node
        /\ pc' \in {"classify_node", "decide_action"}
    BY <1>1 DEF InspectNode, BuildNodeView, IInv, TypeOK
  <2>2. PICK T \in SUBSET Url : Offers(T) BY <1>1, LookEdges
  <2>3. graph'.exhausted = graph.exhausted BY <1>1, LookEdges
  <2>4. \A n \in Node \ {current} : PendingEdges(graph', n) = PendingEdges(graph, n)
    BY <2>2 DEF Offers, PendingEdges, Edge
  <2>5. Waiting' BY <2>1, <2>3, <2>4 DEF Held, Waiting, HasPoint
  <2> QED BY <2>1, <2>5 DEF Held, Leaving, Following
<1>2. CASE DecideAction BY <1>2, DecideHolds
<1>3. CASE ExecuteAction
  <2>1. PICK r \in Result : /\ Responds(r) /\ pc = "execute_action"
                            /\ pc' \in {"update_graph", "success", "build_node_view"}
    BY <1>3, ExecuteActionResult
  <2>2. UNCHANGED <<graph, current, points, decision>> BY <2>1 DEF Responds
  <2>3. Waiting' BY <2>2 DEF Held, Waiting, HasPoint, PendingEdges
  <2>4. Leaving' BY <2>1, <2>2 DEF Held, Leaving, Following, HasPoint, PendingEdges
  <2> QED BY <2>1, <2>2, <2>3, <2>4 DEF Held
<1>4. CASE UpdateGraph BY <1>4, UpdateHolds
<1>5. CASE AdvanceBranch BY <1>5, AdvanceHolds
<1>6. CASE UNCHANGED <<graph, current, arrival, points, decision>>
           /\ (pc' \notin {"execute_action", "update_graph", "fail"} \/ pc' = pc)
  <2>1. Waiting' BY <1>6 DEF Held, Waiting, HasPoint, PendingEdges
  <2>2. Leaving' BY <1>6 DEF Held, Leaving, Following, HasPoint, PendingEdges
  <2> QED BY <1>6, <2>1, <2>2 DEF Held
<1> QED BY <1>1, <1>2, <1>3, <1>4, <1>5, <1>6, IdleStep

(* With no choice point left to resume, nothing is pending anywhere.        *)
LEMMA FailedEmpty ==
  ASSUME Stable, Held, NoPointLeft
  PROVE  NothingForgotten
<1> SUFFICES ASSUME pc = "fail", NEW n \in Node \ graph.exhausted, HasPendingEdges(graph, n)
             PROVE  FALSE
  BY DEF NothingForgotten
<1>1. n # current /\ n # EntryUrl BY DEF Held, NoPointLeft, RootAvailable
<1>2. PICK u \in PendingEdges(graph, n) : TRUE
  BY DEF HasPendingEdges, Stable, Tight, Synced
<1>3. PICK p \in points : p.from = n /\ p.to = u
  BY <1>1, <1>2 DEF Held, Waiting, HasPoint
<1>4. graph.edge[<<p.from, p.to>>] # "failed" BY <1>2, <1>3 DEF PendingEdges
<1>5. p \in Viable(points, graph, current) BY <1>1, <1>3, <1>4 DEF Viable
<1> QED BY <1>5 DEF NoPointLeft

(* A run fails only when nothing is pending at any node the decider did not *)
(* give up: what a node shows beside the candidate that was followed is     *)
(* seeded as choice points, and none of them is lost                        *)
(* (seed_choice_points_from_non_selected_candidates, advance_branch of      *)
(* exploration_scope_policy.py).  The code takes the BranchingFactor best   *)
(* only, skips targets another open point holds and looks at ScanBudget     *)
(* points, so the hypotheses exclude sites where that leaves one behind.    *)
THEOREM FailsWithNothingLeft ==
  StableLanding /\ NoSearch /\ OneOrigin /\ FewCandidates /\ LongScan
    => (Spec => []NothingForgotten)
<1> SUFFICES ASSUME StableLanding, NoSearch, OneOrigin, FewCandidates, LongScan
             PROVE  Spec => []NothingForgotten
  OBVIOUS
<1>1. Init => Held
  BY DEF Init, Held, Waiting, Leaving, Following, PendingEdges, RegisterNode, EmptyGraph,
         NoDecision, Edge
<1>2. IInv /\ Options /\ Stable /\ ShownOnly /\ Held /\ [Next]_vars => Held' BY NextHolds
<1>3. Stable /\ Held /\ NoPointLeft => NothingForgotten BY FailedEmpty
<1> QED BY <1>1, <1>2, <1>3, SpecShown, FailsOnlyWhenDone, PTL DEF Spec
---------------------------------------------------------------------------
(* How many steps a run takes.                                              *)

(* The decider does not refine a perception, which perceives nothing, and a *)
(* validation it asks for comes to a verdict.                               *)
NoRefine   == "refine_navigation_perception" \notin Decisions \/ ReturnHints = {}
Conclusive == "validate_current_content" \notin Decisions
              \/ \A u \in Url : "none" \notin Verdicts[u]

(* Every loop from inspect_node to advance_branch, of seven steps, closes   *)
(* an edge, exhausts a node or judges one, for good; a shorter loop, of     *)
(* three, consumes a choice point whose edge is closed already.             *)
Shown   == {e \in Edge : e[2] \in Shows(e[1])}
Fresh   == {e \in Shown : graph.edge[e] \in {"absent", "discovered"}}
Awaited == Fresh \cup {<<p.from, p.to>> : p \in points}
Todo ==
  7 * Cardinality(Fresh) + 3 * Cardinality(Awaited)
  + 7 * Cardinality(Node \ graph.exhausted) + 7 * Cardinality(Node \ judged)

Most    == 10 * Cardinality(Shown) + 14 * Cardinality(Node)
LongRun == Most + 7 < MaxSteps

(* A decision whose update takes something off what there is to do; and an  *)
(* opened artifact that exhausts its node only in advance_branch.           *)
Promising ==
  \/ decision.action \in EdgeActions /\ decision.edge \in Fresh
  \/ decision.action = "open_artifact" /\ PendingEdges(graph, current) = {}
  \/ decision.action = "validate_current_content" /\ current \notin judged
  \/ decision.action \in {"mark_exhausted", "success"}
Opening ==
  /\ decision.action = "open_artifact" /\ ~ HasPendingEdges(graph, scope)
  /\ scope \notin graph.exhausted

(* The steps taken and those still to come, with n - 2 of the current loop. *)
Within(n) == steps + Todo + 2 <= Most + n

ExhaustedKnown == \A n \in graph.exhausted : graph.url[n] # NoUrl

Paced ==
  /\ ExhaustedKnown
  /\ pc \in {"execute_action", "update_graph"} =>
       /\ decision.action \in Decisions \cup {"follow_edge"}
       /\ decision.action # "refine_navigation_perception"
       /\ Promising \/ decision.action = "follow_edge"
  /\ pc = "update_graph" =>
       /\ result.status = "failed" => decision.action \in EdgeActions
       /\ decision.action = "validate_current_content" => result.verdict # "none"
  /\ pc = "inspect_node"   => Within(3)
  /\ pc = "classify_node"  => Within(4)
  /\ pc = "build_node_view" => Within(5)
  /\ pc = "decide_action"  => Within(6)
  /\ pc = "execute_action" => Within(0) \/ (Promising /\ Within(7))
  /\ pc = "update_graph"   => Within(1) \/ (Promising /\ Within(8))
  /\ pc = "advance_branch" => Within(2) \/ (Opening /\ Within(9))
  /\ pc \in Terminal       => Within(8)

Shrinks ==
  /\ Fresh' \subseteq Fresh /\ Awaited' \subseteq Awaited
  /\ graph.exhausted \subseteq graph'.exhausted /\ judged \subseteq judged'

LEMMA EdgesFinite == IsFiniteSet(Edge) /\ IsFiniteSet(Node)
BY UrlAssumption, FS_Product DEF Edge

LEMMA SubsetCounts ==
  ASSUME NEW S, IsFiniteSet(S), NEW T \in SUBSET S
  PROVE  /\ Cardinality(S) \in Nat /\ Cardinality(T) \in Nat
         /\ Cardinality(T) <= Cardinality(S)
         /\ T # S => Cardinality(T) + 1 <= Cardinality(S)
<1>1. IsFiniteSet(T) /\ Cardinality(T) <= Cardinality(S) BY FS_Subset
<1>2. Cardinality(S) = Cardinality(T) => S = T BY FS_Subset
<1>3. Cardinality(S) \in Nat /\ Cardinality(T) \in Nat BY <1>1, FS_CardinalityType
<1> QED BY <1>1, <1>2, <1>3

LEMMA AwaitedType == ASSUME TypeOK PROVE Awaited \in SUBSET Edge /\ Fresh \in SUBSET Edge
BY DEF Awaited, Fresh, Shown, TypeOK, Point, Edge

LEMMA TodoType == ASSUME TypeOK PROVE Todo \in Nat /\ Most \in Nat
<1>1. /\ Fresh \in SUBSET Edge /\ Awaited \in SUBSET Edge /\ Shown \in SUBSET Edge
      /\ Node \ graph.exhausted \in SUBSET Node /\ Node \ judged \in SUBSET Node
      /\ Node \in SUBSET Node
  BY AwaitedType DEF Shown
<1>2. /\ Cardinality(Fresh) \in Nat /\ Cardinality(Awaited) \in Nat /\ Cardinality(Shown) \in Nat
      /\ Cardinality(Node \ graph.exhausted) \in Nat /\ Cardinality(Node \ judged) \in Nat
      /\ Cardinality(Node) \in Nat
  <2> USE EdgesFinite, SubsetCounts
  <2>1. Cardinality(Fresh) \in Nat BY <1>1
  <2>2. Cardinality(Awaited) \in Nat BY <1>1
  <2>3. Cardinality(Shown) \in Nat BY <1>1
  <2>4. Cardinality(Node \ graph.exhausted) \in Nat BY <1>1
  <2>5. Cardinality(Node \ judged) \in Nat BY <1>1
  <2>6. Cardinality(Node) \in Nat BY <1>1
  <2> QED BY <2>1, <2>2, <2>3, <2>4, <2>5, <2>6
<1> QED BY <1>2 DEF Todo, Most

(* A step that takes something off the four sets takes its price off Todo.  *)
LEMMA TodoFalls ==
  ASSUME TypeOK, TypeOK', Shrinks
  PROVE  /\ Todo' \in Nat /\ Todo' <= Todo
         /\ Fresh' # Fresh \/ graph'.exhausted # graph.exhausted \/ judged' # judged
              => Todo' + 7 <= Todo
         /\ Awaited' # Awaited => Todo' + 3 <= Todo
         /\ Awaited' # Awaited /\ graph'.exhausted # graph.exhausted => Todo' + 10 <= Todo
<1> DEFINE X == Node \ graph.exhausted
           J == Node \ judged
<1>1. /\ Fresh \in SUBSET Edge /\ Awaited \in SUBSET Edge /\ X \in SUBSET Node
      /\ J \in SUBSET Node
  BY AwaitedType
<1>2. /\ IsFiniteSet(Fresh) /\ IsFiniteSet(Awaited) /\ IsFiniteSet(X) /\ IsFiniteSet(J)
  <2>1. IsFiniteSet(Fresh) BY <1>1, EdgesFinite, FS_Subset
  <2>2. IsFiniteSet(Awaited) BY <1>1, EdgesFinite, FS_Subset
  <2>3. IsFiniteSet(X) BY <1>1, EdgesFinite, FS_Subset
  <2>4. IsFiniteSet(J) BY <1>1, EdgesFinite, FS_Subset
  <2> QED BY <2>1, <2>2, <2>3, <2>4
<1>3. Fresh' \in SUBSET Fresh /\ Awaited' \in SUBSET Awaited BY DEF Shrinks
<1>4. X' \in SUBSET X /\ J' \in SUBSET J BY DEF Shrinks
<1>5. /\ graph'.exhausted # graph.exhausted => X' # X
      /\ judged' # judged => J' # J
  BY DEF Shrinks, TypeOK, GraphType
<1>6. /\ Cardinality(Fresh) \in Nat /\ Cardinality(Fresh') \in Nat
      /\ Cardinality(Fresh') <= Cardinality(Fresh)
      /\ Fresh' # Fresh => Cardinality(Fresh') + 1 <= Cardinality(Fresh)
  BY <1>2, <1>3, SubsetCounts
<1>7. /\ Cardinality(Awaited) \in Nat /\ Cardinality(Awaited') \in Nat
      /\ Cardinality(Awaited') <= Cardinality(Awaited)
      /\ Awaited' # Awaited => Cardinality(Awaited') + 1 <= Cardinality(Awaited)
  BY <1>2, <1>3, SubsetCounts
<1>8. /\ Cardinality(X) \in Nat /\ Cardinality(X') \in Nat
      /\ Cardinality(X') <= Cardinality(X)
      /\ X' # X => Cardinality(X') + 1 <= Cardinality(X)
  BY <1>2, <1>4, SubsetCounts
<1>9. /\ Cardinality(J) \in Nat /\ Cardinality(J') \in Nat
      /\ Cardinality(J') <= Cardinality(J)
      /\ J' # J => Cardinality(J') + 1 <= Cardinality(J)
  BY <1>2, <1>4, SubsetCounts
<1>10. /\ Todo = 7 * Cardinality(Fresh) + 3 * Cardinality(Awaited) + 7 * Cardinality(X)
                 + 7 * Cardinality(J)
       /\ Todo' = 7 * Cardinality(Fresh') + 3 * Cardinality(Awaited') + 7 * Cardinality(X')
                  + 7 * Cardinality(J')
  BY DEF Todo
<1> HIDE DEF X, J
<1> QED BY <1>5, <1>6, <1>7, <1>8, <1>9, <1>10

LEMMA StepSum ==
  ASSUME NEW s \in Nat, NEW t \in Nat, NEW r \in Nat, NEW m \in Nat, NEW n \in Nat,
         NEW k \in Nat, NEW c \in Nat, s + t + 2 <= m + n, r + c <= t, n + 1 <= k + c
  PROVE  s + 1 + r + 2 <= m + k
OBVIOUS

(* A step that pays c of what there is to do may leave k where n was left.  *)
LEMMA Tick ==
  ASSUME IInv, IInv', Shrinks, steps' = steps + 1, NEW n \in Nat, NEW k \in Nat, NEW c \in Nat,
         Within(n), c = 0 \/ Todo' + c <= Todo, n + 1 <= k + c
  PROVE  Within(k)'
<1>1. TypeOK /\ TypeOK' BY DEF IInv
<1>2. steps \in Nat BY <1>1 DEF TypeOK
<1>3. Todo \in Nat /\ Most \in Nat BY <1>1, TodoType
<1>4. PICK r \in Nat : r = Todo' BY <1>1, TodoFalls
<1>5. r <= Todo BY <1>1, <1>4, TodoFalls
<1>6. r + c <= Todo
  <2>1. CASE c = 0 BY <1>3, <1>5, <2>1
  <2>2. CASE Todo' + c <= Todo BY <1>4, <2>2
  <2> QED BY <2>1, <2>2
<1>7. steps + Todo + 2 <= Most + n BY DEF Within
<1>8. steps + 1 + r + 2 <= Most + k BY <1>2, <1>3, <1>6, <1>7, StepSum
<1>9. steps' + Todo' + 2 <= Most' + k
  <2>1. Most' = Most OBVIOUS
  <2> QED BY <1>4, <1>8, <2>1
<1> QED BY <1>9 DEF Within

LEMMA KnownStays ==
  ASSUME IInv, IInv', Options, ExhaustedKnown, [Next]_vars,
         \A n \in graph'.exhausted : n \in graph.exhausted \/ graph.url[n] # NoUrl
  PROVE  ExhaustedKnown'
<1>1. Reached \subseteq Reached' BY NextPromise, PromiseGrows
<1>2. graph'.exhausted \subseteq Node BY DEF IInv, TypeOK, GraphType
<1> QED BY <1>1, <1>2 DEF ExhaustedKnown, Reached

(* Steps that neither close an edge nor give up a node.                     *)
LEMMA AheadKept ==
  ASSUME IInv, graph'.edge = graph.edge, graph'.exhausted = graph.exhausted,
         points' = points, judged \subseteq judged'
  PROVE  Shrinks /\ Fresh' = Fresh /\ Awaited' = Awaited
BY DEF Shrinks, Fresh, Awaited, Shown

LEMMA LookPaced ==
  ASSUME StableLanding, IInv, IInv', Options, Stable, Paced, InspectNode \/ BuildNodeView
  PROVE  Paced'
<1> USE DEF focus, options, memory
<1>1. PICK T \in SUBSET Url : T \subseteq Shows(current) /\ Offers(T) BY LookEdges
<1>2. graph'.exhausted = graph.exhausted BY LookEdges
<1>3. /\ points' = points /\ judged \subseteq judged' /\ steps' = steps + 1
      /\ \/ pc = "inspect_node" /\ pc' = "classify_node"
         \/ pc = "build_node_view" /\ pc' = "decide_action"
  BY DEF InspectNode, BuildNodeView, At, ViewKnownNode, ViewPerceivedNode
<1>4. Fresh' = Fresh
  <2>1. \A e \in Shown : graph'.edge[e] \in {"absent", "discovered"}
                           <=> graph.edge[e] \in {"absent", "discovered"}
    BY <1>1 DEF Offers, Shown
  <2>2. Fresh' = {e \in Shown : graph'.edge[e] \in {"absent", "discovered"}}
    BY DEF Fresh, Shown
  <2> QED BY <2>1, <2>2 DEF Fresh
<1>5. Awaited' = Awaited BY <1>3, <1>4 DEF Awaited
<1>6. Shrinks BY <1>2, <1>3, <1>4, <1>5 DEF Shrinks
<1>8. ExhaustedKnown' BY <1>2, KnownStays DEF Paced, Next
<1>9. pc' = "classify_node" => Within(3) BY <1>3 DEF Paced
<1>10. pc' = "classify_node" => Within(4)' BY <1>3, <1>6, <1>9, Tick
<1>11. pc' = "decide_action" => Within(5) BY <1>3 DEF Paced
<1>12. pc' = "decide_action" => Within(6)' BY <1>3, <1>6, <1>11, Tick
<1> QED BY <1>3, <1>8, <1>10, <1>12 DEF Paced, Terminal

LEMMA ClassifyPaced ==
  ASSUME IInv, IInv', Options, Paced, ClassifyNode
  PROVE  Paced'
<1> USE DEF focus, options, memory
<1>1. /\ UNCHANGED <<graph, points, judged>> /\ steps' = steps + 1
      /\ pc = "classify_node" /\ pc' = "build_node_view"
  BY DEF ClassifyNode, At
<1>2. Shrinks BY <1>1, AheadKept
<1>4. ExhaustedKnown' BY <1>1, KnownStays DEF Paced, Next
<1>5. Within(4) BY <1>1 DEF Paced
<1>6. Within(5)' BY <1>1, <1>2, <1>5, Tick
<1> QED BY <1>1, <1>4, <1>6 DEF Paced, Terminal

(* Choice points are seeded for candidates that are pending.                *)
LEMMA DecidePaced ==
  ASSUME NoSearch, NoRefine, IInv, IInv', Options, ShownOnly, Paced, DecideAction
  PROVE  Paced'
<1> USE DEF focus, options, memory
<1>1. /\ UNCHANGED <<graph, judged, current>> /\ steps' = steps + 1
      /\ pc = "decide_action" /\ pc' = "execute_action"
      /\ current \in Node /\ scope = current /\ graph \in GraphType
  BY DEF DecideAction, At, IInv, TypeOK, FocusAgrees
<1>2. Fresh' = Fresh BY <1>1 DEF Fresh, Shown
<1>3. \A u \in PendingEdges(graph, current) : <<current, u>> \in Fresh
  <2> SUFFICES ASSUME NEW u \in PendingEdges(graph, current) PROVE <<current, u>> \in Fresh
    OBVIOUS
  <2>1. <<current, u>> \in Edge /\ graph.edge[<<current, u>>] = "discovered"
    BY <1>1 DEF PendingEdges, Edge
  <2>2. u \in Shows(current) BY <2>1 DEF ShownOnly
  <2> QED BY <2>1, <2>2 DEF Fresh, Shown
<1>4. /\ \A q \in points' : q \in points \/ <<q.from, q.to>> \in Fresh
      /\ Promising' /\ decision'.action \in Decisions
      /\ decision'.action # "refine_navigation_perception"
  <2>1. CASE DecideEdge
    <3>1. PICK d \in EdgeDecisions(current) :
            Decide(d[1], <<current, d[2]>>, NoUrl) /\ Seed(d[2])
      BY <2>1 DEF DecideEdge
    <3>2. d[1] \in EdgeActions /\ d[2] \in PendingEdges(graph, current)
      BY DEF EdgeDecisions, EdgeActions
    <3>3. decision'.action = d[1] /\ decision'.edge = <<current, d[2]>> BY <3>1 DEF Decide
    <3>4. Promising' BY <1>2, <1>3, <3>2, <3>3 DEF Promising
    <3>5. decision'.action # "refine_navigation_perception" /\ decision'.action \in Decisions
      BY <3>1, <3>2, <3>3 DEF EdgeActions, Decide
    <3> QED BY <1>1, <1>3, <3>1, <3>4, <3>5, SeedTargets
  <2>2. CASE DecideOpenLeaf
    BY <1>1, <2>2 DEF DecideOpenLeaf, Decide, Promising
  <2>3. CASE DecideValidate
    BY <1>1, <2>3 DEF DecideValidate, CanValidate, Decide, Promising
  <2>4. CASE DecideExhausted \/ DecideSuccess
    BY <2>4 DEF DecideExhausted, DecideSuccess, Decide, Promising
  <2>5. CASE DecideSearch \/ DecideRefine
    BY <2>5 DEF DecideSearch, DecideRefine, Decide, NoSearch, NoRefine
  <2> QED BY <2>1, <2>2, <2>3, <2>4, <2>5 DEF DecideAction
<1>5. Awaited' \subseteq Awaited BY <1>2, <1>4 DEF Awaited
<1>6. Shrinks BY <1>1, <1>2, <1>5 DEF Shrinks
<1>8. ExhaustedKnown' BY <1>1, KnownStays DEF Paced, Next
<1>9. Within(6) BY <1>1 DEF Paced
<1>10. Within(7)' BY <1>1, <1>6, <1>9, Tick
<1> QED BY <1>1, <1>4, <1>8, <1>10 DEF Paced, Terminal

LEMMA ExecutePaced ==
  ASSUME NoSearch, Conclusive, IInv, IInv', Options, Paced, ExecuteAction
  PROVE  Paced'
<1> USE DEF focus, options, memory
<1>1. PICK r \in Result :
        /\ Responds(r) /\ pc = "execute_action"
        /\ pc' \in {"update_graph", "success", "build_node_view"}
  BY ExecuteActionResult
<1>2. UNCHANGED <<graph, points, judged, current, scope, decision>> BY <1>1 DEF Responds
<1>3. steps' = steps + 1
  BY DEF ExecuteAction, ExecuteFollow, ExecuteDownload, ExecuteOpen, ExecuteValidate,
         ExecuteSearch, ExecuteExhausted, ExecuteSuccess, ExecuteRefine, Execute, At
<1>4. Shrinks /\ Fresh' = Fresh BY <1>2, AheadKept
<1>5. Promising' <=> Promising BY <1>2, <1>4 DEF Promising, PendingEdges
<1>6. /\ decision.action \in Decisions \cup {"follow_edge"}
      /\ decision.action # "refine_navigation_perception"
      /\ Promising \/ decision.action = "follow_edge"
      /\ Within(0) \/ (Promising /\ Within(7))
  BY <1>1 DEF Paced
<1>7. pc' # "build_node_view"
  BY <1>6 DEF ExecuteAction, ExecuteFollow, ExecuteDownload, ExecuteOpen, ExecuteValidate,
              ExecuteSearch, ExecuteExhausted, ExecuteSuccess, ExecuteRefine, Execute
<1>8. pc' = "update_graph" =>
        /\ result'.status = "failed" => decision'.action \in EdgeActions
        /\ decision'.action = "validate_current_content" => result'.verdict # "none"
  <2> USE DEF EdgeActions
  <2>1. CASE ExecuteFollow \/ ExecuteDownload \/ ExecuteOpen
    BY <1>2, <2>1 DEF ExecuteFollow, ExecuteDownload, ExecuteOpen, Execute
  <2>2. CASE ExecuteValidate
    <3>1. PICK w \in Verdicts[Target(current)] :
            result' = [NoResult EXCEPT !.verdict = w,
                         !.download = IF w = "none" THEN NoUrl ELSE download[current]]
      BY <2>2 DEF ExecuteValidate, Responds
    <3>2. decision.action = "validate_current_content" BY <2>2 DEF ExecuteValidate, Execute
    <3>3. Target(current) \in Url
      <4>1. Target(current) # NoUrl BY <1>1, <3>2 DEF IInv, DecisionReady
      <4>2. Target(current) \in MaybeUrl BY TargetType DEF IInv, TypeOK
      <4> QED BY <4>1, <4>2 DEF MaybeUrl
    <3>4. w # "none" BY <1>6, <3>1, <3>2, <3>3 DEF Conclusive
    <3> QED BY <3>1, <3>4 DEF NoResult
  <2>3. CASE ExecuteSearch BY <1>6, <2>3 DEF ExecuteSearch, Execute, NoSearch
  <2>4. CASE ExecuteExhausted
    BY <1>2, <2>4 DEF ExecuteExhausted, Execute, Responds, NoResult
  <2>5. CASE ExecuteSuccess BY <2>5 DEF ExecuteSuccess
  <2>6. CASE ExecuteRefine BY <2>6 DEF ExecuteRefine
  <2> QED BY <2>1, <2>2, <2>3, <2>4, <2>5, <2>6 DEF ExecuteAction
<1>9. Within(0) => Within(1)' /\ Within(8)'
  <2> SUFFICES ASSUME Within(0) PROVE Within(1)' /\ Within(8)'
    OBVIOUS
  <2>1. Within(1)' BY <1>3, <1>4, Tick
  <2>2. Within(8)' BY <1>3, <1>4, Tick
  <2> QED BY <2>1, <2>2
<1>10. Within(7) => Within(8)' BY <1>3, <1>4, Tick
<1>11. ExhaustedKnown' BY <1>2, KnownStays DEF Paced, Next
<1> QED BY <1>1, <1>2, <1>5, <1>6, <1>7, <1>8, <1>9, <1>10, <1>11 DEF Paced, Terminal

(* Updating closes the decided edge, exhausts or judges, and takes nothing  *)
(* of that back: a node is registered once.                                 *)
LEMMA UpdateShrinks ==
  ASSUME StableLanding, NoSearch, IInv, Options, Stable, Paced, UpdateGraph
  PROVE  /\ Shrinks
         /\ \A n \in graph'.exhausted : n \in graph.exhausted \/ graph.url[n] # NoUrl
<1> USE DEF focus, options, memory
<1>1. /\ TypeOK /\ DecisionReady /\ pc = "update_graph" /\ graph \in GraphType
      /\ scope = current /\ graph.url[current] # NoUrl /\ points \subseteq Point
  BY UpdateStart DEF TypeOK, FocusAgrees
<1>2. ~ UpdateSearch
  BY <1>1 DEF UpdateSearch, Update, Paced, NoSearch
<1>3. Fresh' \subseteq Fresh
  <2>1. Fresh' = {e \in Shown : graph'.edge[e] \in {"absent", "discovered"}}
    BY DEF Fresh, Shown
  <2>2. CASE graph'.edge = graph.edge BY <2>1, <2>2 DEF Fresh
  <2>3. CASE decision.edge \in Offered /\ Closes
    BY <1>1, <2>1, <2>3 DEF Closes, Offered, Fresh, Shown, GraphType
  <2> QED BY <2>2, <2>3, UpdateEdges
<1>4. \A q \in points' : \E p \in points : q.from = p.from /\ q.to = p.to
  <2>1. CASE Reprioritized
    <3> DEFINE years == PendingYears(Satisfied(findings'))
    <3>1. CASE years = {} BY <2>1, <3>1 DEF Reprioritized, Reprioritize
    <3>2. CASE years # {}
      <4>1. points' = {[p EXCEPT !.prio = Priority(p.to, years)] : p \in points}
        BY <2>1, <3>2 DEF Reprioritized, Reprioritize
      <4> HIDE DEF years
      <4>2. \A p \in points : LET q == [p EXCEPT !.prio = Priority(p.to, years)]
                              IN  q.from = p.from /\ q.to = p.to
        BY <1>1 DEF Point
      <4> QED BY <4>1, <4>2
    <3> QED BY <3>1, <3>2
  <2>2. CASE ~ Reprioritized
    BY <2>2 DEF UpdateGraph, UpdateFailed, UpdateFollow, UpdateDownload, UpdateOpen,
                UpdateValidate, UpdateSearch, UpdateExhausted
  <2> QED BY <2>1, <2>2
<1>5. Awaited' \subseteq Awaited BY <1>3, <1>4 DEF Awaited
<1>6. judged \subseteq judged'
  BY <1>2 DEF UpdateGraph, UpdateFailed, UpdateFollow, UpdateDownload, UpdateOpen, UpdateValidate,
              UpdateExhausted, Validated
<1>7. graph.exhausted \subseteq graph'.exhausted
  <2>1. CASE UpdateFollow
    <3> DEFINE e == decision.edge
    <3>1. /\ e \in Edge /\ LandedUrl \in Node
          /\ graph' = MarkUseful([EnsureNode(graph, LandedUrl, LandedUrl)
                                    EXCEPT !.child[e] = LandedUrl], e)
      BY <2>1, FollowLands, FinalLanding DEF Edge
    <3>2. graph'.exhausted = EnsureNode(graph, LandedUrl, LandedUrl).exhausted
      BY <1>1, <3>1 DEF MarkUseful, EnsureNode, RegisterNode, GraphType
    <3>3. CASE graph.index[LandedUrl] # NoUrl BY <3>2, <3>3 DEF EnsureNode
    <3>4. CASE graph.index[LandedUrl] = NoUrl
      <4>1. graph.url[LandedUrl] = NoUrl BY <3>1, <3>4 DEF Stable, Tight, Named
      <4>2. LandedUrl \notin graph.exhausted BY <4>1 DEF Paced, ExhaustedKnown
      <4> QED BY <1>1, <3>2, <3>4, <4>2 DEF EnsureNode, RegisterNode, GraphType
    <3> QED BY <3>3, <3>4
  <2>2. CASE ~ UpdateFollow BY <1>2, <2>2, UpdateEdges
  <2> QED BY <2>1, <2>2
<1>8. ASSUME NEW n \in graph'.exhausted, n \notin graph.exhausted
      PROVE  graph.url[n] # NoUrl
  <2>1. CASE UpdateFailed
    <3>1. decision.edge # NoEdge /\ graph' = MarkFailed(graph, decision.edge)
      BY <1>8, <2>1 DEF UpdateFailed
    <3>2. n = decision.edge[1] BY <1>1, <1>8, <3>1 DEF MarkFailed, GraphType
    <3>3. decision.edge \in Edge /\ graph.edge[decision.edge] # "absent"
      BY <1>1, <3>1 DEF Options, Offered
    <3> QED BY <3>2, <3>3 DEF Stable, Tight, Rooted
  <2>2. CASE UpdateFollow
    <3>1. /\ decision.edge \in Edge /\ LandedUrl \in Node
          /\ graph' = MarkUseful([EnsureNode(graph, LandedUrl, LandedUrl)
                                    EXCEPT !.child[decision.edge] = LandedUrl], decision.edge)
      BY <2>2, FollowLands, FinalLanding DEF Edge
    <3>2. graph'.exhausted \subseteq graph.exhausted
      BY <1>1, <3>1 DEF MarkUseful, EnsureNode, RegisterNode, GraphType
    <3> QED BY <1>8, <3>2
  <2>3. CASE UpdateDownload \/ UpdateOpen \/ UpdateValidate
    <3>1. graph'.exhausted = graph.exhausted
      BY <1>1, <2>3 DEF UpdateDownload, UpdateOpen, UpdateValidate, MarkUseful, GraphType
    <3> QED BY <1>8, <3>1
  <2>4. CASE UpdateExhausted
    <3>1. n = current
      BY <1>1, <1>8, <2>4 DEF UpdateExhausted, MarkExhausted, GraphType
    <3> QED BY <1>1, <3>1
  <2> QED BY <1>2, <2>1, <2>2, <2>3, <2>4 DEF UpdateGraph
<1> QED BY <1>3, <1>5, <1>6, <1>7, <1>8 DEF Shrinks

(* ... and the price of the loop is paid, here or in advance_branch.        *)
LEMMA UpdatePays ==
  ASSUME StableLanding, NoSearch, IInv, IInv', Options, Stable, Stable', ShownOnly, Paced,
         UpdateGraph, Promising
  PROVE  Todo' + 7 <= Todo \/ Opening'
<1> USE DEF focus, options, memory
<1>1. /\ TypeOK /\ TypeOK' /\ pc = "update_graph" /\ graph \in GraphType
      /\ scope = current /\ current \notin graph.exhausted /\ current \in Node
  BY UpdateStart DEF IInv, TypeOK, FocusAgrees
<1>2. Shrinks BY UpdateShrinks
<1>3. Fresh' # Fresh \/ graph'.exhausted # graph.exhausted \/ judged' # judged
        => Todo' + 7 <= Todo
  BY <1>1, <1>2, TodoFalls
<1>4. /\ result.status = "failed" => decision.action \in EdgeActions
      /\ decision.action = "validate_current_content" => result.verdict # "none"
  BY <1>1 DEF Paced
<1>5. CASE decision.action \in EdgeActions /\ decision.edge \in Fresh
  <2>1. decision.edge \in Edge BY <1>5 DEF Fresh, Shown
  <2>2. \E s \in {"useful", "failed"} : graph'.edge[decision.edge] = s
    <3>1. CASE UpdateFailed
      <4>1. graph' = MarkFailed(graph, decision.edge)
        BY <2>1, <3>1, EdgeIsReal DEF UpdateFailed
      <4> QED BY <1>1, <2>1, <4>1 DEF MarkFailed, GraphType
    <3>2. CASE UpdateFollow
      <4>1. Closes BY <3>2, UpdateEdges
      <4> QED BY <1>1, <2>1, <4>1 DEF Closes, GraphType
    <3>3. CASE UpdateDownload \/ UpdateOpen
      <4>1. graph' = MarkUseful(graph, decision.edge) BY <3>3 DEF UpdateDownload, UpdateOpen
      <4> QED BY <1>1, <2>1, <4>1 DEF MarkUseful, GraphType
    <3> QED BY <1>5, <3>1, <3>2, <3>3
        DEF UpdateGraph, UpdateValidate, UpdateSearch, UpdateExhausted, Update, EdgeActions
  <2>3. decision.edge \notin Fresh' BY <2>2 DEF Fresh
  <2> QED BY <1>3, <1>5, <2>3
<1>6. CASE decision.action = "open_artifact" /\ PendingEdges(graph, current) = {}
           /\ graph'.exhausted = graph.exhausted
  <2>1. UpdateFailed \/ UpdateOpen
    BY <1>6 DEF UpdateGraph, UpdateFollow, UpdateDownload, UpdateValidate, UpdateSearch,
                UpdateExhausted, Update
  <2>2. UNCHANGED <<scope, decision>> BY <2>1 DEF UpdateFailed, UpdateOpen
  <2>3. PendingEdges(graph', current) \subseteq PendingEdges(graph, current)
    <3>1. CASE graph'.edge = graph.edge BY <3>1 DEF PendingEdges
    <3>2. CASE decision.edge \in Offered /\ Closes
      BY <1>1, <3>2 DEF Closes, Offered, PendingEdges, GraphType, Edge
    <3> QED BY <3>1, <3>2, UpdateEdges
  <2>4. graph'.pending[current] = PendingEdges(graph', current)
    BY <1>1 DEF Stable, Tight, Synced
  <2>5. ~ HasPendingEdges(graph', current) BY <1>6, <2>3, <2>4 DEF HasPendingEdges
  <2> QED BY <1>1, <1>6, <2>2, <2>5 DEF Opening
<1>7. CASE decision.action = "validate_current_content" /\ current \notin judged
  <2>1. UpdateValidate
    BY <1>4, <1>7 DEF UpdateGraph, UpdateFailed, UpdateFollow, UpdateDownload, UpdateOpen,
                      UpdateSearch, UpdateExhausted, Update, EdgeActions
  <2>2. current \in judged' BY <1>4, <1>7, <2>1 DEF UpdateValidate, Validated
  <2> QED BY <1>3, <1>7, <2>2
<1>8. CASE decision.action \in {"mark_exhausted", "success"}
  <2>1. UpdateExhausted
    BY <1>4, <1>8 DEF UpdateGraph, UpdateFailed, UpdateFollow, UpdateDownload, UpdateOpen,
                      UpdateValidate, UpdateSearch, Update, EdgeActions
  <2>2. current \in graph'.exhausted
    BY <1>1, <2>1 DEF UpdateExhausted, MarkExhausted, GraphType
  <2> QED BY <1>1, <1>3, <2>2
<1> QED BY <1>3, <1>5, <1>6, <1>7, <1>8 DEF Promising

LEMMA UpdatePaced ==
  ASSUME StableLanding, NoSearch, IInv, IInv', Options, Stable, Stable', ShownOnly, Paced,
         UpdateGraph
  PROVE  Paced'
<1>1. pc = "update_graph" /\ pc' = "advance_branch" BY UpdateStart
<1>2. steps' = steps + 1
  BY DEF UpdateGraph, UpdateFailed, UpdateFollow, UpdateDownload, UpdateOpen, UpdateValidate,
         UpdateSearch, UpdateExhausted, Update, At
<1>3. /\ Shrinks
      /\ \A n \in graph'.exhausted : n \in graph.exhausted \/ graph.url[n] # NoUrl
  BY UpdateShrinks
<1>4. ExhaustedKnown' BY <1>3, KnownStays DEF Paced, Next
<1>5. Within(1) \/ (Promising /\ Within(8)) BY <1>1 DEF Paced
<1>6. CASE Within(1)
  <2> DEFINE k == 2
  <2>1. k \in Nat /\ 1 + 1 <= k + 0 OBVIOUS
  <2> HIDE DEF k
  <2>2. Within(k)' BY <1>2, <1>3, <1>6, <2>1, Tick
  <2> QED BY <1>1, <1>4, <2>2 DEF Paced, Terminal, k
<1>7. CASE Within(8) /\ Todo' + 7 <= Todo
  <2>1. Within(2)' BY <1>2, <1>3, <1>7, Tick
  <2> QED BY <1>1, <1>4, <2>1 DEF Paced, Terminal
<1>8. CASE Within(8) /\ Opening'
  <2>1. Within(9)' BY <1>2, <1>3, <1>8, Tick
  <2> QED BY <1>1, <1>4, <1>8, <2>1 DEF Paced, Terminal
<1> QED BY <1>5, <1>6, <1>7, <1>8, UpdatePays

(* A choice point is resumed for a pending edge, or it is the last to wait  *)
(* for an edge closed before.                                               *)
LEMMA AdvancePaced ==
  ASSUME IInv, IInv', Options, ShownOnly, UniquePoints, Paced, AdvanceBranch
  PROVE  Paced'
<1> USE DEF focus, options, memory
<1>1. /\ pc = "advance_branch" /\ graph' = Advanced /\ graph'.edge = graph.edge
      /\ graph.exhausted \subseteq graph'.exhausted
  BY AdvanceEdges
<1>2. /\ steps' = steps + 1 /\ UNCHANGED judged /\ points' \subseteq points
      /\ TypeOK /\ TypeOK' /\ scope = current /\ graph.url[current] # NoUrl
      /\ graph \in GraphType /\ points \subseteq Point
  BY DEF AdvanceBranch, At, Continue, ResumeAnchor, ResumePoint, RestartRoot, Stop, Consume,
         IInv, TypeOK, FocusAgrees
<1>3. Fresh' = Fresh BY <1>1 DEF Fresh, Shown
<1>4. Shrinks BY <1>1, <1>2, <1>3 DEF Shrinks, Awaited
<1>5. ExhaustedKnown'
  <2>1. \A n \in graph'.exhausted : n \in graph.exhausted \/ graph.url[n] # NoUrl
    BY <1>1, <1>2 DEF Advanced, MarkExhausted, GraphType
  <2> QED BY <2>1, KnownStays DEF Paced, Next
<1>6. Opening => graph'.exhausted # graph.exhausted
  BY <1>1, <1>2 DEF Opening, Advanced, MarkExhausted, GraphType
<1>7. Within(2) \/ (Within(9) /\ graph'.exhausted # graph.exhausted)
  BY <1>1, <1>6 DEF Paced
<1>8. graph'.exhausted # graph.exhausted => Todo' + 7 <= Todo
  BY <1>2, <1>4, TodoFalls
<1>9. Within(3)' /\ Within(7)' /\ Within(8)'
  <2>1. CASE Within(2)
    <3>1. Within(3)' BY <1>2, <1>4, <2>1, Tick
    <3>2. Within(7)' BY <1>2, <1>4, <2>1, Tick
    <3>3. Within(8)' BY <1>2, <1>4, <2>1, Tick
    <3> QED BY <3>1, <3>2, <3>3
  <2>2. CASE Within(9) /\ Todo' + 7 <= Todo
    <3>1. Within(3)' BY <1>2, <1>4, <2>2, Tick
    <3>2. Within(7)' BY <1>2, <1>4, <2>2, Tick
    <3>3. Within(8)' BY <1>2, <1>4, <2>2, Tick
    <3> QED BY <3>1, <3>2, <3>3
  <2> QED BY <1>7, <1>8, <2>1, <2>2
<1>10. CASE pc' # "execute_action"
  <2>1. pc' \in {"inspect_node", "success", "fail"}
    BY <1>10 DEF AdvanceBranch, Continue, ResumeAnchor, ResumePoint, RestartRoot, Stop,
                 InspectOrFail, TerminalRoute
  <2> QED BY <1>5, <1>9, <2>1 DEF Paced, Terminal
<1>11. CASE pc' = "execute_action"
  <2>1. ResumePoint
    BY <1>11 DEF AdvanceBranch, Continue, ResumeAnchor, RestartRoot, Stop, InspectOrFail,
                 TerminalRoute
  <2>2. PICK r \in Resumes("point") :
          /\ points' = points \ {r.point}
          /\ IF graph.edge[<<r.point.from, r.point.to>>] = "failed"
             THEN InspectOrFail(r.point.from)
             ELSE decision' = [action |-> "follow_edge",
                               edge |-> <<r.point.from, r.point.to>>, query |-> NoUrl]
    BY <2>1 DEF ResumePoint, Consume
  <2> DEFINE p == r.point
             e == <<p.from, p.to>>
  <2>3. p \in Viable(points, Advanced, scope) BY <2>2, ResumptionsLive DEF Resumes, Live
  <2>4. p \in points /\ e \in Edge /\ graph.edge[e] # "failed"
    BY <1>1, <1>2, <2>3 DEF Viable, Point, Edge
  <2>5. decision'.action = "follow_edge" /\ decision'.edge = e BY <2>2, <2>4
  <2>6. e \in Shown /\ graph.edge[e] # "absent"
    <3>1. graph.edge[e] # "absent" BY <2>4 DEF Options, Offered
    <3> QED BY <2>4, <3>1 DEF ShownOnly, Shown
  <2>7. points' = points \ {p} BY <2>2
  <2> HIDE DEF p, e
  <2>8. CASE e \in Fresh
    <3>1. Promising' BY <1>3, <2>5, <2>8 DEF Promising, EdgeActions
    <3> QED BY <1>5, <1>9, <1>11, <2>5, <3>1 DEF Paced, Terminal
  <2>9. CASE e \notin Fresh
    <3>1. e \in Awaited BY <2>4 DEF Awaited, e
    <3>2. e \notin Awaited'
      <4>1. ASSUME NEW q \in points', <<q.from, q.to>> = e PROVE FALSE
        <5>1. q \in points /\ q # p /\ q.to = p.to BY <2>7, <4>1 DEF e
        <5> QED BY <2>4, <5>1 DEF UniquePoints
      <4> QED BY <1>3, <2>9, <4>1 DEF Awaited
    <3>3. /\ Todo' + 3 <= Todo
          /\ graph'.exhausted # graph.exhausted => Todo' + 10 <= Todo
      BY <1>2, <1>4, <3>1, <3>2, TodoFalls
    <3>4. Within(0)'
      <4>1. CASE Within(2) BY <1>2, <1>4, <3>3, <4>1, Tick
      <4>2. CASE Within(9) /\ Todo' + 10 <= Todo BY <1>2, <1>4, <4>2, Tick
      <4> QED BY <1>7, <3>3, <4>1, <4>2
    <3> QED BY <1>5, <1>11, <2>5, <3>4 DEF Paced, Terminal
  <2> QED BY <2>8, <2>9
<1> QED BY <1>10, <1>11

LEMMA NextPaced ==
  ASSUME StableLanding, NoSearch, NoRefine, Conclusive, IInv, Options, Stable, ShownOnly,
         UniquePoints, Paced, [Next]_vars
  PROVE  Paced'
<1> USE DEF options, memory, focus
<1>1. IInv' /\ Stable' BY NextIInv, NextStable
<1>2. CASE InspectNode \/ BuildNodeView BY <1>1, <1>2, LookPaced
<1>3. CASE ClassifyNode BY <1>1, <1>3, ClassifyPaced
<1>4. CASE DecideAction BY <1>1, <1>4, DecidePaced
<1>5. CASE ExecuteAction BY <1>1, <1>5, ExecutePaced
<1>6. CASE UpdateGraph BY <1>1, <1>6, UpdatePaced
<1>7. CASE AdvanceBranch BY <1>1, <1>7, AdvancePaced
<1>8. CASE StepLimit \/ PortFailure \/ Finish
  <2>1. pc' \in {"raised", "ended_success", "ended_fail"} /\ graph' = graph
    BY <1>8 DEF StepLimit, PortFailure, Finish
  <2>2. ExhaustedKnown' BY <1>1, <2>1, KnownStays DEF Paced
  <2> QED BY <2>1, <2>2 DEF Paced, Terminal
<1>9. CASE UNCHANGED vars
  <2>1. UNCHANGED <<pc, steps, graph, judged, points, current, scope, decision, result>>
    BY <1>9 DEF vars
  <2>2. UNCHANGED <<Fresh, Awaited>> BY <2>1 DEF Awaited, Fresh, Shown
  <2>3. UNCHANGED <<Todo, Promising, Opening>>
    BY <2>1, <2>2 DEF Todo, Promising, Opening, PendingEdges, HasPendingEdges
  <2> QED BY <2>1, <2>3 DEF Paced, Within, ExhaustedKnown
<1>10. CASE Terminated BY <1>9, <1>10 DEF Terminated
<1> QED BY <1>2, <1>3, <1>4, <1>5, <1>6, <1>7, <1>8, <1>9, <1>10 DEF Next

LEMMA InitPaced == ASSUME Init PROVE Paced
<1>1. /\ graph.edge = [e \in Edge |-> "absent"] /\ graph.exhausted = {} /\ judged = {}
      /\ points = {} /\ steps = 1 /\ pc = "inspect_node"
  BY DEF Init, RegisterNode, EmptyGraph
<1>2. Fresh = Shown BY <1>1 DEF Fresh, Shown
<1>3. Awaited = Shown BY <1>1, <1>2 DEF Awaited
<1>4. TypeOK BY InitIInv DEF IInv
<1>5. Todo \in Nat /\ Most \in Nat BY <1>4, TodoType
<1>6. Cardinality(Shown) \in Nat /\ Cardinality(Node) \in Nat
  <2>1. Shown \in SUBSET Edge BY DEF Shown
  <2>2. Cardinality(Shown) \in Nat BY <2>1, EdgesFinite, SubsetCounts
  <2>3. Cardinality(Node) \in Nat BY EdgesFinite, FS_CardinalityType
  <2> QED BY <2>2, <2>3
<1>7. Todo = 7 * Cardinality(Shown) + 3 * Cardinality(Shown) + 7 * Cardinality(Node)
             + 7 * Cardinality(Node)
  BY <1>1, <1>2, <1>3 DEF Todo
<1>8. Todo = Most BY <1>6, <1>7 DEF Most
<1>9. Within(3) BY <1>1, <1>5, <1>8 DEF Within
<1> QED BY <1>1, <1>9 DEF Paced, ExhaustedKnown, Terminal

(* A step budget above ten steps for each candidate the site shows and      *)
(* fourteen for each of its pages is never what ends a run: every turn of   *)
(* the loop closes a candidate, gives up a node, judges one or uses up a    *)
(* choice point, and nothing gives any of them back                         *)
(* (StateMachineEngine.execute, advance_branch).                            *)
THEOREM StepsSuffice ==
  StableLanding /\ NoSearch /\ NoRefine /\ Conclusive /\ LongRun => (Spec => []StepBudget)
<1> SUFFICES ASSUME StableLanding, NoSearch, NoRefine, Conclusive, LongRun
             PROVE  Spec => []StepBudget
  OBVIOUS
<1>1. Init => Paced /\ UniquePoints
  <2>1. Init => UniquePoints BY DEF Init, UniquePoints
  <2> QED BY <2>1, InitPaced
<1>2. IInv /\ Options /\ Stable /\ ShownOnly /\ Paced /\ UniquePoints /\ [Next]_vars
        => (Paced /\ UniquePoints)'
  BY NextPaced, NextUnique
<1>3. IInv /\ Paced => StepBudget
  <2> SUFFICES ASSUME IInv, Paced, pc \in Working \cup Terminal PROVE steps < MaxSteps
    BY DEF StepBudget
  <2>1. TypeOK BY DEF IInv
  <2>2. steps \in Nat /\ Todo \in Nat /\ Most \in Nat BY <2>1, TodoType DEF TypeOK
  <2>3. PICK n \in 0..9 : Within(n) BY DEF Paced, Working, Terminal
  <2>4. steps <= Most + 7 BY <2>2, <2>3 DEF Within
  <2> QED BY <2>2, <2>4, GraphMapperAssumption DEF LongRun
<1> QED BY <1>1, <1>2, <1>3, SpecShown, PTL DEF Spec
=============================================================================
