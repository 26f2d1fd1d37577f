---------------------------- MODULE GraphMemory ----------------------------
(***************************************************************************)
(* The exploration graph of a run: domain/graph.py (GraphMemory,           *)
(* GraphNodeState, EdgeState), domain/graph_merge.py (the policy that      *)
(* turns observed candidates into edges) and the two operations of         *)
(* graph_updater.py that close an edge.                                    *)
(*                                                                         *)
(* Identities.  Node ids are opaque and unique; the model names a node id  *)
(* by the URL under which the id was first registered.  An edge is known   *)
(* by its origin and its target URL: the merge policy never creates a      *)
(* second edge with the same pair, so <<from, to>> stands for edge_id.     *)
(***************************************************************************)
EXTENDS Naturals, FiniteSets

CONSTANTS
  Url,       \* normalised URLs the run may meet
  EntryUrl,  \* the URL the run starts from
  NoUrl      \* absent URL, absent node (None in the code)

ASSUME UrlAssumption ==
  /\ IsFiniteSet(Url)
  /\ EntryUrl \in Url
  /\ NoUrl \notin Url

Node == Url
Edge == Node \X Url
NoEdge == <<NoUrl, NoUrl>>
MaybeUrl == Url \cup {NoUrl}

(* Statuses the code assigns to an edge; queued, blocked and rejected are   *)
(* declared in EdgeStatus and never assigned.  "absent" is no edge at all.  *)
EdgeStatus == {"absent", "discovered", "useful", "failed"}

(***************************************************************************)
(* The graph: canonical_url of each node, url_to_node_id, the status and   *)
(* child_node_id of each edge, and per node pending_edge_ids (as target    *)
(* URLs) and the flags inspected and exhausted (as sets of nodes).         *)
(***************************************************************************)
GraphType ==
  [ url       : [Node -> MaybeUrl],
    index     : [Url -> Node \cup {NoUrl}],
    edge      : [Edge -> EdgeStatus],
    child     : [Edge -> Node \cup {NoUrl}],
    pending   : [Node -> SUBSET Url],
    inspected : SUBSET Node,
    exhausted : SUBSET Node ]

EmptyGraph ==
  [ url       |-> [n \in Node |-> NoUrl],
    index     |-> [u \in Url |-> NoUrl],
    edge      |-> [e \in Edge |-> "absent"],
    child     |-> [e \in Edge |-> NoUrl],
    pending   |-> [n \in Node |-> {}],
    inspected |-> {},
    exhausted |-> {} ]

(* GraphMemory.register_node: a fresh node object under id n replaces the   *)
(* node that had the id; edges and indexes of the old object stay.          *)
RegisterNode(g, n, u) ==
  [ g EXCEPT !.url[n] = u, !.index[u] = n, !.pending[n] = {},
             !.inspected = @ \ {n}, !.exhausted = @ \ {n} ]

(* GraphMemory.ensure_node looks the URL up first; only an unknown URL      *)
(* registers a node under the proposed id.                                  *)
EnsuredNode(g, n, u) == IF g.index[u] = NoUrl THEN n ELSE g.index[u]
EnsureNode_NoLookup(g, n, u) == RegisterNode(g, n, u)  \* mutant
EnsureNode(g, n, u)  == IF g.index[u] = NoUrl THEN RegisterNode(g, n, u) ELSE g

(* GraphMemory.pending_edges_from_node: computed from the edges, while      *)
(* has_pending_edges reads the node's own tuple.                            *)
PendingEdges(g, n)    == {u \in Url : g.edge[<<n, u>>] = "discovered"}
HasPendingEdges(g, n) == g.pending[n] # {}

(* ObservedCandidateMergePolicy.merge: new targets become edges, every      *)
(* observed edge that is pending enters the node's pending tuple.           *)
MergedEdges_ReopensFailed(g, n, targets) ==  \* mutant: failed edges are new again
  [ e \in Edge |-> IF e[1] = n /\ e[2] \in targets /\ g.edge[e] # "useful"
                   THEN "discovered" ELSE g.edge[e] ]
MergedEdges(g, n, targets) ==
  [ e \in Edge |-> IF e[1] = n /\ e[2] \in targets /\ g.edge[e] = "absent"
                   THEN "discovered" ELSE g.edge[e] ]

Merge_AnyStatus(g, n, targets) ==  \* mutant: the tuple takes every observed edge
  [ g EXCEPT !.edge = MergedEdges(g, n, targets), !.pending[n] = @ \cup targets ]
Merge(g, n, targets) ==
  [ g EXCEPT !.edge = MergedEdges(g, n, targets),
             !.pending[n] = @ \cup {u \in targets :
                 MergedEdges(g, n, targets)[<<n, u>>] = "discovered"} ]

MarkInspected(g, n) == [g EXCEPT !.inspected = @ \cup {n}]
MarkExhausted(g, n) == [g EXCEPT !.exhausted = @ \cup {n}]

(* GraphUpdater._mark_edge_useful *)
MarkUseful_KeepsTuple(g, e) == [g EXCEPT !.edge[e] = "useful"]  \* mutant
MarkUseful(g, e) ==
  [g EXCEPT !.edge[e] = "useful", !.pending[e[1]] = @ \ {e[2]}]

(* GraphUpdater._mark_edge_failed: the origin is exhausted when this was    *)
(* its last pending edge.                                                   *)
MarkFailed(g, e) ==
  [ g EXCEPT !.edge[e] = "failed",
             !.pending[e[1]] = @ \ {e[2]},
             !.exhausted = @ \cup {n \in {e[1]} : g.pending[n] \subseteq {e[2]}} ]
=============================================================================
