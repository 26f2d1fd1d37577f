----------------------------- MODULE ScopePolicy -----------------------------
(***************************************************************************)
(* Where exploration resumes once a node is used up: choice points,        *)
(* strategic anchors and the root, as exploration_scope_policy.py, the     *)
(* registers of runtime/state/models.py and runtime/nodes/choice_points.py *)
(* order them.  Everything here is a pure operator; GraphMapper applies    *)
(* them.  Ids of choice points and anchors are random, so a sort that      *)
(* falls back on the id is a free choice among equals: an operator that    *)
(* returns "the first" item returns the set of items that may be first.    *)
(***************************************************************************)
EXTENDS GraphMemory

CONSTANTS
  Cond,            \* goal conditions of the active proposal
  Year,            \* years a condition may be filtered by
  NoYear,          \* a condition without a year filter
  CondYear,        \* Cond -> Year or NoYear
  Mentions,        \* Url -> the years its text and label mention
  Score,           \* Url -> base_score of a candidate (fixed: _enrich_edge may raise it)
  BranchingFactor, \* branching_factor, 3 in the code
  ScanBudget       \* choice points examined at most, 12 in the code

ASSUME PolicyAssumption ==
  /\ IsFiniteSet(Cond) /\ IsFiniteSet(Year) /\ NoYear \notin Year
  /\ CondYear \in [Cond -> Year \cup {NoYear}]
  /\ Mentions \in [Url -> SUBSET Year]
  /\ Score \in [Url -> Nat]
  /\ BranchingFactor \in Nat /\ ScanBudget \in Nat

Step == MaybeUrl \X Nat          \* path_step_id: node and step_count

(* An open ChoicePointState; a consumed or resumed one is dropped.          *)
Point == [from : Node, to : Url, origin : Step, prio : Nat]
NoPoint == [from |-> NoUrl, to |-> NoUrl, origin |-> <<NoUrl, 0>>, prio |-> 0]

(* StrategicAnchorPointState, at most one per node.                         *)
Anchor == [status : {"none", "open", "resumed"}, prio : Nat, origin : Step]
NoAnchor == [status |-> "none", prio |-> 0, origin |-> <<NoUrl, 0>>]

(* pending_years_from_goal_trace and goal_aligned_priority (bonus 100).     *)
PendingYears(satisfied) == {CondYear[c] : c \in Cond \ satisfied} \ {NoYear}

Alignment(u, years) == Cardinality(Mentions[u] \cap years)
Priority_SmallBonus(u, years) == Alignment(u, years) + Score[u]  \* mutant
Priority(u, years)  == 100 * Alignment(u, years) + Score[u]

(* The sort key of the seeding loop: alignment first, then base score.      *)
RanksAbove(u, v, years) ==
  \/ Alignment(u, years) > Alignment(v, years)
  \/ Alignment(u, years) = Alignment(v, years) /\ Score[u] > Score[v]

(* seed_choice_points_from_non_selected_candidates: of the view's other     *)
(* candidates whose target no open point holds, the BranchingFactor best.   *)
Seedable_Twice(points, cands, chosen) == cands \ {chosen}  \* mutant: open points not looked at
Seedable(points, cands, chosen) ==
  {u \in cands \ {chosen} : \A p \in points : p.to # u}

SeedChoices_OneShort(points, cands, chosen, years) ==  \* mutant: one point too few
  LET fresh == Seedable(points, cands, chosen)
  IN  {S \in SUBSET fresh :
         Cardinality(S) < BranchingFactor /\ (S = fresh \/ Cardinality(S) = BranchingFactor - 1)}
SeedChoices(points, cands, chosen, years) ==
  LET fresh == Seedable(points, cands, chosen)
  IN  {S \in SUBSET fresh :
         /\ Cardinality(S) <= BranchingFactor
         /\ S = fresh \/ Cardinality(S) = BranchingFactor
         /\ \A u \in S, v \in fresh \ S : ~ RanksAbove(v, u, years)}

SeedPoints(n, targets, origin, years) ==
  {[from |-> n, to |-> u, origin |-> origin, prio |-> Priority(u, years)] :
     u \in targets}

(* reprioritize_choice_points: only while a dated condition is pending.     *)
Reprioritize(points, years) ==
  IF years = {} THEN points
  ELSE {[p EXCEPT !.prio = Priority(p.to, years)] : p \in points}

(* register_strategic_anchor_point: a node that already has an anchor gets  *)
(* it reopened, unless the new priority is lower.                           *)
RegisterAnchor(anchors, g, n, prio, origin) ==
  IF n \in g.exhausted \/ (anchors[n].status # "none" /\ prio < anchors[n].prio)
  THEN anchors
  ELSE [anchors EXCEPT ![n] = [status |-> "open", prio |-> prio, origin |-> origin]]

(***************************************************************************)
(* ExplorationScopePolicy.                                                 *)
(***************************************************************************)
OpenAnchors(anchors, g, current) ==
  {n \in Node : anchors[n].status = "open" /\ n # current /\ n \notin g.exhausted}

(* best_strategic_anchor_point *)
BestAnchors(anchors, g, current) ==
  {n \in OpenAnchors(anchors, g, current) :
     \A m \in OpenAnchors(anchors, g, current) : anchors[m].prio <= anchors[n].prio}

(* _strategic_restart_decision_if_available looks at the best anchor only:  *)
(* one without pending edges hides every other anchor.                      *)
AnchorChoices(anchors, g, current) ==
  IF BestAnchors(anchors, g, current) = {} THEN {NoUrl}
  ELSE {IF HasPendingEdges(g, n) THEN n ELSE NoUrl : n \in BestAnchors(anchors, g, current)}

(* _next_viable_choice_point: the first viable item among the ScanBudget    *)
(* first of the visible ones, which are sorted by falling priority.         *)
Viable_IgnoresExhausted(points, g, excluded) ==  \* mutant
  {p \in points : p.from # excluded /\ g.edge[<<p.from, p.to>>] # "failed"}
Viable(points, g, excluded) ==
  {p \in points : /\ p.from # excluded
                  /\ g.edge[<<p.from, p.to>>] # "failed"
                  /\ p.from \notin g.exhausted}

Above(points, p) == {q \in points : q.prio > p.prio}
Level(points, p) == {q \in points : q.prio = p.prio}

PointChoices_FirstOnly(points, g, excluded) ==  \* mutant: gives up on a dead first item
  IF points = {} THEN {NoPoint}
  ELSE {IF p \in Viable(points, g, excluded) THEN p ELSE NoPoint :
          p \in {q \in points : Above(points, q) = {}}}
PointChoices(points, g, excluded) ==
  LET viable == Viable(points, g, excluded)
      dead   == points \ viable
      first  == {p \in viable : \A q \in viable : q.prio <= p.prio}
  IN  {p \in first : Cardinality(Above(dead, p)) < ScanBudget}
      \cup {p \in {NoPoint} : \A q \in first :
              Cardinality(Above(dead, q) \cup Level(dead, q)) >= ScanBudget}

(* _anchor_restart_decision_if_available, for a root other than excluded.   *)
RootAvailable(g) == EntryUrl \notin g.exhausted /\ HasPendingEdges(g, EntryUrl)

(* What the policy may answer once the node n is used up.                   *)
Resumptions(points, anchors, g, n) ==
  LET lower == IF RootAvailable(g) THEN "root" ELSE "stop"
      below == {IF p = NoPoint THEN [kind |-> lower, node |-> NoUrl, point |-> NoPoint]
                ELSE [kind |-> "point", node |-> NoUrl, point |-> p] :
                  p \in PointChoices(points, g, n)}
  IN  UNION {IF a = NoUrl THEN below
             ELSE {[kind |-> "anchor", node |-> a, point |-> NoPoint]} :
               a \in AnchorChoices(anchors, g, n)}

(* _terminal_decision_when_choice_points_empty; without a goal trace there  *)
(* is no condition and the run fails.                                       *)
TerminalRoute(satisfied) ==
  IF Cond # {} /\ satisfied = Cond THEN "success" ELSE "fail"
=============================================================================
