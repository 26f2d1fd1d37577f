------------------------ MODULE GraphMapperProperties ------------------------
(***************************************************************************)
(* What makes an exploration run correct.  Unless its comment names a      *)
(* precondition, a property is meant to hold for every value of the        *)
(* constants of GraphMapper.                                               *)
(***************************************************************************)
EXTENDS GraphMapper

(***************************************************************************)
(* The graph's redundant representations agree.                            *)
(***************************************************************************)
(* url_to_node_id finds every node under the URL it carries, so two nodes   *)
(* never share a URL (GraphMemory.ensure_node is the only way in).          *)
OneNodePerUrl ==
  \A n \in Node : graph.url[n] # NoUrl => graph.index[graph.url[n]] = n

(* The pending tuple of a node lists only edges that are still pending: no  *)
(* useful or failed edge is offered again (merge, _mark_edge_useful and     *)
(* _mark_edge_failed write the edge and the tuple separately).              *)
PendingSound ==
  \A n \in Node : graph.pending[n] \subseteq PendingEdges(graph, n)

(* ... and it lists all of them: has_pending_edges, which decides whether a *)
(* node is used up, and pending_edges_from_node, which builds the view,     *)
(* never disagree.  Precondition: a URL always lands at the same URL, which *)
(* redirects no further.                                                    *)
PendingInSync ==
  \A n \in Node : graph.pending[n] = PendingEdges(graph, n)

(* A URL in the index leads to a node that carries this URL.  Precondition: *)
(* as above.                                                                *)
IndexConsistent ==
  \A u \in Url : graph.index[u] # NoUrl => graph.url[graph.index[u]] = u

(***************************************************************************)
(* The focus of exploration.                                               *)
(***************************************************************************)
(* The scope and the runtime, which are moved by different statements of    *)
(* the reducer and of the resume functions, name the same registered node.  *)
FocusAgrees == scope = current /\ graph.url[current] # NoUrl

(* No work is spent on a node that was declared exhausted, and the check of *)
(* finalize_advance_branch for it never has to fail the run.                *)
NoExhaustedFocus ==
  pc \in {"inspect_node", "classify_node", "build_node_view", "decide_action",
          "execute_action"}
    => current \notin graph.exhausted

(* What is opened at a PDF leaf is the artifact the node was reached by:    *)
(* guard_pdf_leaf reads the arrival context, which the resume functions     *)
(* leave alone, so it may be that of another node.  Precondition: as above, *)
(* and a page whose URL ends in .pdf shows no candidates.                   *)
LeafOpensItself ==
  pc = "execute_action" /\ decision.action = "open_artifact" /\ PdfLeaf(current)
    => arrival.node = current /\ graph.child[decision.edge] = current

(* Evidence is filed under the node it was found at: the page of that node  *)
(* or the target of one of its edges (_resolve_content_owner_node).         *)
FindingsAttributed ==
  \A f \in findings :
    f.src = graph.url[f.node] \/ graph.edge[<<f.node, f.src>>] # "absent"

(***************************************************************************)
(* Edges and choice points.                                                *)
(***************************************************************************)
(* A failed edge is never tried again and never becomes anything else,      *)
(* although a choice point may wait for it and a later inspection shows it  *)
(* again.  Precondition: the decider opens no file without a candidate.     *)
FailedStaysFailed ==
  [][\A e \in Edge : graph.edge[e] = "failed" => graph'.edge[e] = "failed"]_vars

(* Two open choice points never wait for the same target.                   *)
UniquePoints == \A p, q \in points : p.to = q.to => p = q

(* While a dated condition is pending, the policy ranks the choice points   *)
(* by the conditions that are pending now.  Precondition: navigation        *)
(* perception is off or finds no evidence for a dated condition.            *)
PrioritiesCurrent ==
  pc = "advance_branch" /\ PendingYears(Conditions) # {}
    => \A p \in points : p.prio = Priority(p.to, PendingYears(Conditions))

(* While some year is pending, a viable choice point that mentions one is   *)
(* resumed before any that mentions none.  Precondition: the same, and base *)
(* scores stay below the bonus of 100 for a year.                           *)
PendingYearFirst ==
  [][pc = "advance_branch" /\ pc' = "execute_action" =>
       LET wanted(u) == Alignment(u, PendingYears(Conditions)) > 0
       IN  (\E p \in Viable(points, graph, scope) : wanted(p.to)) => wanted(decision'.edge[2])]_vars

(* What a local perception accepted is on record once the result has been   *)
(* applied, whatever action and carrier delivered it.  Precondition: no PDF *)
(* is followed as a link.                                                   *)
AcceptedIsRecorded ==
  [][pc = "update_graph" /\ pc' = "advance_branch" /\ result.status = "ok"
       /\ result.verdict = "positive" =>
       \A u \in {IF result.page = NoPage THEN result.download ELSE result.page.url} \ {NoUrl} :
         \A c \in Evidence[u] : \E f \in findings' : f.cond = c /\ f.src = u]_vars

(***************************************************************************)
(* The end of a run.                                                       *)
(***************************************************************************)
Sources(c) == {f.src : f \in {g \in findings : g.cond = c}}
Met(c)     == Cardinality(Sources(c)) >= MinCount[c]

(* The verdict of the run is that of the evidence: a run never succeeds     *)
(* before every condition has its min_count of distinct sources, and never  *)
(* fails when all of them have.                                             *)
VerdictMatchesGoals ==
  /\ pc \in {"success", "ended_success"} => \A c \in Cond : Met(c)
  /\ pc \in {"fail", "ended_fail"} => Cond = {} \/ \E c \in Cond : ~ Met(c)

(* A run fails only when no choice point and not the root could be resumed. *)
(* Precondition: the scan may examine as many choice points as there are.   *)
NoPointLeft ==
  pc = "fail" => Viable(points, graph, current) = {} /\ ~ RootAvailable(graph)

(* A run fails only when every candidate of every node the decider did not  *)
(* give up was tried.  Precondition: no search; every target has one        *)
(* origin; no page but the root has more than BranchingFactor + 1           *)
(* candidates; a URL always lands at the same one; and the scan may examine *)
(* as many choice points as there are.                                      *)
NothingForgotten ==
  pc = "fail" => \A n \in Node \ graph.exhausted : ~ HasPendingEdges(graph, n)

(* The engine's step budget is never what ends a run.  Precondition: no     *)
(* search and no refinement, every validation comes to a verdict, a URL     *)
(* always lands at the same one, and the budget exceeds ten steps for each  *)
(* candidate of the site and fourteen for each page.                        *)
StepBudget == pc \in Working \cup Terminal => steps < MaxSteps

(* Every run ends.                                                          *)
Termination == <>(pc \in Ended)

(***************************************************************************)
(* The run as whoever started it sees it.                                  *)
(***************************************************************************)
Reached == {n \in Node : graph.url[n] # NoUrl}
Offered == {e \in Edge : graph.edge[e] # "absent"}
Tried   == {e \in Edge : graph.edge[e] \in {"useful", "failed"}}
Outcome == CASE pc = "ended_success" -> "success"
             [] pc = "ended_fail"    -> "fail"
             [] pc = "raised"        -> "raised"
             [] OTHER                -> "running"

Promise == INSTANCE Exploration WITH
  Place <- Url, Entry <- EntryUrl, Met <- Satisfied,
  known <- Reached, offered <- Offered, tried <- Tried, evidence <- findings,
  outcome <- Outcome

(* The loop, with its choice points, anchors, snapshots and redirections,   *)
(* implements Exploration: one candidate a step, tried once it was offered, *)
(* no place, try or finding ever taken back, findings at known places only, *)
(* and the verdict of the evidence at the end.                              *)
ImplementsExploration == Promise!Spec
=============================================================================
