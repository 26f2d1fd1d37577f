------------------------- MODULE ScopePolicy_proofs -------------------------
(***************************************************************************)
(* Every operation of the graph keeps its type and the agreement of its    *)
(* redundant parts (Sound), and what the policy and the registers of       *)
(* choice points and anchors return.                                       *)
(***************************************************************************)
EXTENDS ScopePolicy, FiniteSetTheorems, TLAPS

Unique(g) == \A n \in Node : g.url[n] # NoUrl => g.index[g.url[n]] = n
Tidy(g)   == \A n \in Node : g.pending[n] \subseteq PendingEdges(g, n)
Listed(g) == \A u \in Url : g.index[u] # NoUrl => g.url[g.index[u]] # NoUrl
Sound(g)  == g \in GraphType /\ Unique(g) /\ Tidy(g) /\ Listed(g)

(* A node that has a URL keeps one. *)
Keeps(g, h) == \A n \in Node : g.url[n] # NoUrl => h.url[n] # NoUrl

LEMMA EmptyGraphSound == Sound(EmptyGraph)
<1>1. EmptyGraph \in GraphType
  BY DEF EmptyGraph, GraphType, MaybeUrl, EdgeStatus
<1>2. Unique(EmptyGraph) /\ Tidy(EmptyGraph) /\ Listed(EmptyGraph)
  BY DEF EmptyGraph, Unique, Tidy, Listed
<1> QED BY <1>1, <1>2 DEF Sound

(* A node may be registered for a URL that is not indexed yet, whether its  *)
(* id is new or already in use.                                             *)
LEMMA RegisterNodeSound ==
  ASSUME NEW g, Sound(g), NEW n \in Node, NEW u \in Url, g.index[u] = NoUrl
  PROVE  /\ Sound(RegisterNode(g, n, u))
         /\ Keeps(g, RegisterNode(g, n, u)) /\ RegisterNode(g, n, u).url[n] # NoUrl
<1> DEFINE h == RegisterNode(g, n, u)
<1> USE UrlAssumption DEF Node
<1>1. g \in GraphType BY DEF Sound
<1>2. h \in GraphType
  BY <1>1 DEF RegisterNode, GraphType, MaybeUrl
<1>3. /\ h.url = [g.url EXCEPT ![n] = u] /\ h.index = [g.index EXCEPT ![u] = n]
      /\ h.edge = g.edge /\ h.pending = [g.pending EXCEPT ![n] = {}]
  BY <1>1 DEF RegisterNode, GraphType
<1>4. Unique(h)
  BY <1>1, <1>3 DEF Sound, Unique, GraphType, MaybeUrl
<1>5. Tidy(h)
  BY <1>1, <1>3 DEF Sound, Tidy, GraphType, PendingEdges
<1>6. Listed(h)
  BY <1>1, <1>3 DEF Sound, Listed, GraphType
<1>7. Keeps(g, h) /\ h.url[n] # NoUrl
  BY <1>1, <1>3 DEF Keeps, GraphType
<1> QED BY <1>2, <1>4, <1>5, <1>6, <1>7 DEF Sound

LEMMA EnsureNodeSound ==
  ASSUME NEW g, Sound(g), NEW n \in Node, NEW u \in Url
  PROVE  /\ Sound(EnsureNode(g, n, u)) /\ EnsuredNode(g, n, u) \in Node
         /\ Keeps(g, EnsureNode(g, n, u))
         /\ EnsureNode(g, n, u).url[EnsuredNode(g, n, u)] # NoUrl
<1>1. g.index \in [Url -> Node \cup {NoUrl}] BY DEF Sound, GraphType
<1>2. EnsuredNode(g, n, u) \in Node BY <1>1 DEF EnsuredNode
<1>3. CASE g.index[u] = NoUrl
  BY <1>2, <1>3, RegisterNodeSound DEF EnsureNode, EnsuredNode
<1>4. CASE g.index[u] # NoUrl
  BY <1>2, <1>4 DEF EnsureNode, EnsuredNode, Sound, Listed, Keeps
<1> QED BY <1>3, <1>4

(* Neither the child of an edge nor the inspected flag matters here.        *)
LEMMA SideUpdatesSound ==
  ASSUME NEW g, Sound(g), NEW e \in Edge, NEW n \in Node, NEW S \in SUBSET Node
  PROVE  /\ Sound([g EXCEPT !.child[e] = n]) /\ [g EXCEPT !.child[e] = n].url = g.url
         /\ Sound([g EXCEPT !.inspected = @ \ S]) /\ [g EXCEPT !.inspected = @ \ S].url = g.url
<1>1. g \in GraphType BY DEF Sound
<1>2. [g EXCEPT !.child[e] = n] \in GraphType /\ [g EXCEPT !.inspected = @ \ S] \in GraphType
  BY <1>1 DEF GraphType
<1>3. \A h \in {[g EXCEPT !.child[e] = n], [g EXCEPT !.inspected = @ \ S]} :
        h.url = g.url /\ h.index = g.index /\ h.edge = g.edge /\ h.pending = g.pending
  BY <1>1 DEF GraphType
<1> QED BY <1>2, <1>3 DEF Sound, Unique, Tidy, Listed, PendingEdges

(* Observing a page again never puts a closed edge back into the tuple.     *)
LEMMA MergeSound ==
  ASSUME NEW g, Sound(g), NEW n \in Node, NEW T \in SUBSET Url
  PROVE  /\ Sound(Merge(g, n, T))
         /\ Merge(g, n, T).exhausted = g.exhausted
         /\ Merge(g, n, T).url = g.url
<1> DEFINE h == Merge(g, n, T)
           E == MergedEdges(g, n, T)
<1>1. g \in GraphType BY DEF Sound
<1>2. E \in [Edge -> EdgeStatus]
  BY <1>1 DEF MergedEdges, GraphType, EdgeStatus
<1>3. \A e \in Edge : g.edge[e] = "discovered" => E[e] = "discovered"
  BY DEF MergedEdges
<1> HIDE DEF E
<1>4. /\ h.url = g.url /\ h.index = g.index /\ h.edge = E /\ h.exhausted = g.exhausted
      /\ h.pending = [g.pending EXCEPT ![n] = @ \cup {u \in T : E[<<n, u>>] = "discovered"}]
  BY <1>1 DEF Merge, GraphType, E
<1>5. h \in GraphType
  BY <1>1, <1>2 DEF Merge, GraphType, E
<1>6. Unique(h) /\ Listed(h) BY <1>4 DEF Sound, Unique, Listed
<1>7. Tidy(h)
  BY <1>1, <1>3, <1>4 DEF Sound, Tidy, GraphType, PendingEdges, Edge
<1> QED BY <1>4, <1>5, <1>6, <1>7 DEF Sound

LEMMA MarkNodeSound ==
  ASSUME NEW g, Sound(g), NEW n \in Node
  PROVE  /\ Sound(MarkInspected(g, n)) /\ Sound(MarkExhausted(g, n))
         /\ MarkInspected(g, n).exhausted = g.exhausted
         /\ MarkInspected(g, n).url = g.url
         /\ MarkExhausted(g, n).exhausted = g.exhausted \cup {n}
         /\ MarkExhausted(g, n).pending = g.pending
         /\ MarkExhausted(g, n).url = g.url
<1>1. g \in GraphType BY DEF Sound
<1>2. MarkInspected(g, n) \in GraphType /\ MarkExhausted(g, n) \in GraphType
  BY <1>1 DEF MarkInspected, MarkExhausted, GraphType
<1>3. \A h \in {MarkInspected(g, n), MarkExhausted(g, n)} :
        h.url = g.url /\ h.index = g.index /\ h.edge = g.edge /\ h.pending = g.pending
  BY <1>1 DEF MarkInspected, MarkExhausted, GraphType
<1> QED BY <1>1, <1>2, <1>3 DEF Sound, Unique, Tidy, Listed, PendingEdges, MarkInspected, MarkExhausted, GraphType

LEMMA MarkUsefulSound ==
  ASSUME NEW g, Sound(g), NEW e \in Edge
  PROVE  /\ Sound(MarkUseful(g, e)) /\ MarkUseful(g, e).exhausted = g.exhausted
         /\ MarkUseful(g, e).url = g.url
<1> DEFINE h == MarkUseful(g, e)
<1>1. g \in GraphType /\ e[1] \in Node /\ e[2] \in Url /\ e = <<e[1], e[2]>>
  BY DEF Sound, Edge
<1>2. h \in GraphType BY <1>1 DEF MarkUseful, GraphType, EdgeStatus
<1>3. /\ h.url = g.url /\ h.index = g.index /\ h.exhausted = g.exhausted
      /\ h.edge = [g.edge EXCEPT ![e] = "useful"]
      /\ h.pending = [g.pending EXCEPT ![e[1]] = @ \ {e[2]}]
  BY <1>1 DEF MarkUseful, GraphType
<1>4. Tidy(h) BY <1>1, <1>3 DEF Sound, Tidy, GraphType, PendingEdges, Edge
<1> QED BY <1>2, <1>3, <1>4 DEF Sound, Unique, Listed

(* A failure also exhausts the origin, but only one without other pending   *)
(* edges.                                                                   *)
LEMMA MarkFailedSound ==
  ASSUME NEW g, Sound(g), NEW e \in Edge
  PROVE  /\ Sound(MarkFailed(g, e)) /\ MarkFailed(g, e).url = g.url
         /\ \A n \in Node : n \in MarkFailed(g, e).exhausted \ g.exhausted
                             => ~ HasPendingEdges(MarkFailed(g, e), n)
<1> DEFINE h == MarkFailed(g, e)
<1>1. g \in GraphType /\ e[1] \in Node /\ e[2] \in Url /\ e = <<e[1], e[2]>>
  BY DEF Sound, Edge
<1>2. h \in GraphType BY <1>1 DEF MarkFailed, GraphType, EdgeStatus
<1>3. /\ h.url = g.url /\ h.index = g.index
      /\ h.edge = [g.edge EXCEPT ![e] = "failed"]
      /\ h.pending = [g.pending EXCEPT ![e[1]] = @ \ {e[2]}]
      /\ h.exhausted = g.exhausted \cup {n \in {e[1]} : g.pending[n] \subseteq {e[2]}}
  BY <1>1 DEF MarkFailed, GraphType
<1>4. Tidy(h) BY <1>1, <1>3 DEF Sound, Tidy, GraphType, PendingEdges, Edge
<1>5. \A n \in Node : n \in h.exhausted \ g.exhausted => ~ HasPendingEdges(h, n)
  BY <1>1, <1>3 DEF HasPendingEdges, GraphType
<1> QED BY <1>2, <1>3, <1>4, <1>5 DEF Sound, Unique, Listed

---------------------------------------------------------------------------
(* Choice points, anchors and what the policy answers.                      *)

AnchorsType == [Node -> Anchor]

LEMMA PriorityType ==
  ASSUME NEW u \in Url, NEW years
  PROVE  Priority(u, years) \in Nat
<1>1. IsFiniteSet(Mentions[u] \cap years)
  BY PolicyAssumption, FS_Subset
<1>2. Cardinality(Mentions[u] \cap years) \in Nat
  BY <1>1, FS_CardinalityType
<1>3. Score[u] \in Nat BY PolicyAssumption
<1> QED BY <1>2, <1>3 DEF Priority, Alignment

LEMMA SeedPointsType ==
  ASSUME NEW n \in Node, NEW T \in SUBSET Url, NEW origin \in Step, NEW years
  PROVE  SeedPoints(n, T, origin, years) \subseteq Point
BY PriorityType DEF SeedPoints, Point

LEMMA ReprioritizeType ==
  ASSUME NEW points \in SUBSET Point, NEW years
  PROVE  /\ Reprioritize(points, years) \subseteq Point
         /\ \A q \in Reprioritize(points, years) : \E p \in points : p.from = q.from
<1>1. \A p \in points : /\ [p EXCEPT !.prio = Priority(p.to, years)] \in Point
                         /\ [p EXCEPT !.prio = Priority(p.to, years)].from = p.from
  BY PriorityType DEF Point
<1> QED BY <1>1 DEF Reprioritize

LEMMA RegisterAnchorType ==
  ASSUME NEW anchors \in AnchorsType, NEW g, NEW n \in Node, NEW prio \in Nat,
         NEW origin \in Step
  PROVE  /\ RegisterAnchor(anchors, g, n, prio, origin) \in AnchorsType
         /\ \A m \in Node : RegisterAnchor(anchors, g, n, prio, origin)[m].status # "none"
                            => m = n \/ anchors[m].status # "none"
BY DEF RegisterAnchor, AnchorsType, Anchor

(* The policy only ever answers with a live node: an anchor that is not     *)
(* exhausted, a choice point whose parent is not exhausted and whose edge   *)
(* did not fail, the root if it is not exhausted, or the end of the run.    *)
Live(r, points, anchors, g, n) ==
  \/ r.kind = "anchor" /\ r.node \in Node \ g.exhausted /\ anchors[r.node].status = "open"
  \/ r.kind = "point" /\ r.point \in Viable(points, g, n)
  \/ r.kind = "root" /\ RootAvailable(g)
  \/ r.kind = "stop"

LEMMA PointChoicesLive ==
  ASSUME NEW points, NEW g, NEW n, NEW p \in PointChoices(points, g, n)
  PROVE  p = NoPoint \/ p \in Viable(points, g, n)
BY DEF PointChoices

LEMMA AnchorChoicesLive ==
  ASSUME NEW anchors, NEW g, NEW n, NEW a \in AnchorChoices(anchors, g, n)
  PROVE  a = NoUrl \/ (a \in Node \ g.exhausted /\ anchors[a].status = "open")
BY DEF AnchorChoices, BestAnchors, OpenAnchors

LEMMA ResumptionsLive ==
  ASSUME NEW points, NEW anchors, NEW g, NEW n,
         NEW r \in Resumptions(points, anchors, g, n)
  PROVE  Live(r, points, anchors, g, n)
<1> DEFINE lower == IF RootAvailable(g) THEN "root" ELSE "stop"
           Of(p) == IF p = NoPoint THEN [kind |-> lower, node |-> NoUrl, point |-> NoPoint]
                    ELSE [kind |-> "point", node |-> NoUrl, point |-> p]
           below == {Of(p) : p \in PointChoices(points, g, n)}
<1>1. \A x \in below : Live(x, points, anchors, g, n)
  <2> SUFFICES ASSUME NEW p \in PointChoices(points, g, n)
               PROVE  Live(Of(p), points, anchors, g, n)
    OBVIOUS
  <2>1. CASE p = NoPoint
    <3>1. Of(p).kind = lower BY <2>1
    <3> QED BY <3>1 DEF Live
  <2>2. CASE p # NoPoint
    <3>1. Of(p).kind = "point" /\ Of(p).point = p BY <2>2
    <3> QED BY <3>1, <2>2, PointChoicesLive DEF Live
  <2> QED BY <2>1, <2>2
<1>2. PICK a \in AnchorChoices(anchors, g, n) :
        r \in IF a = NoUrl THEN below
              ELSE {[kind |-> "anchor", node |-> a, point |-> NoPoint]}
  BY DEF Resumptions
<1>3. CASE a = NoUrl BY <1>1, <1>2, <1>3
<1>4. CASE a # NoUrl
  <2>1. r.kind = "anchor" /\ r.node = a BY <1>2, <1>4
  <2> QED BY <2>1, <1>4, AnchorChoicesLive DEF Live
<1> QED BY <1>3, <1>4
=============================================================================
