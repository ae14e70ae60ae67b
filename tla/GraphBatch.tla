------------------------------ MODULE GraphBatch ------------------------------
(***************************************************************************)
(* How the facts of one command enter a session's graph.  The passes stage *)
(* mutations; an allowed request validates the batch twice and applies it: *)
(* its anchor, then every node, then every edge.  What a command was seen  *)
(* to change is committed the same way, without an anchor of its own.      *)
(* Nodes have fixed ids, so a batch may contradict the graph or itself.    *)
(***************************************************************************)
EXTENDS Integers, Sequences, FiniteSetsExt

CONSTANTS
  Tag,         \* the prefixes of node ids
  Path,
  Rest,        \* what of a node's content no lookup uses
  NoNode,      \* None of a node
  NoId,        \* of a mutation without a node
  NoEdge,      \* of a mutation without an edge
  NoPath,      \* None of concrete_path
  AnyPath,     \* the key of the indexes of all path facts and path contents
  Implicit,    \* the edge starts at the command, whichever it is
  Parsed,      \* the top-level commands a request may be parsed into
  Staged,      \* what the passes may derive from a request
  Deltas,      \* what a command may be reported to have changed
  MaxSequence, \* bound: the requests of the session
  MaxBatch,    \* bound: the mutations of a request
  MaxEdges     \* bound: the edges of the graph a report is applied to

SequenceNo == 0..MaxSequence
NodeId == Tag \X SequenceNo
RequestId(n) == <<"request", n>>
CommandId(n) == <<"command", n>>
ReconciliationId(n) == <<"reconciliation", n>>

Unit == {"command", "derived"}
Kind == Unit \union {"request", "reconciliation", "payload", "semantics", "path", "artifact", "state"}

Content == [kind : Kind, at : SequenceNo, path : Path \union {NoPath}, rest : Rest]
RequestNode(n) == [kind |-> "request", at |-> n, path |-> NoPath, rest |-> CHOOSE r \in Rest : TRUE]
ReconciliationNode(n) == [RequestNode(n) EXCEPT !.kind = "reconciliation"]
Artifact == [kind : {"artifact"}, at : SequenceNo, path : Path \union {NoPath}, rest : Rest]

Edge == [from : NodeId, to : NodeId, kind : {"Defines", "other"}]
StagedEdge == [from : NodeId \union {Implicit}, to : NodeId, kind : {"Defines", "other"}]

(* PendingMutation, by the nodes and the edge it is projected to.          *)
Anchoring == {"request", "reconciliation"}
Mutation ==
  [op : Anchoring \union {"command"}, id : NodeId, content : Content, edge : {NoEdge}]
  \union [op : {"fact"}, id : NodeId, content : Content, edge : StagedEdge \union {NoEdge}]
  \union [op : {"replace"}, id : NodeId, content : Artifact, edge : {NoEdge}]
  \union [op : {"flow"}, id : {NoId}, content : {NoNode}, edge : StagedEdge]
  \union [op : {"summary"}, id : {NoId}, content : {NoNode}, edge : {NoEdge}]

AddRequestAnchor(n) ==
  [op |-> "request", id |-> RequestId(n), content |-> RequestNode(n), edge |-> NoEdge]
AddReconciliationAnchor(n) ==
  [op |-> "reconciliation", id |-> ReconciliationId(n), content |-> ReconciliationNode(n),
   edge |-> NoEdge]

Writes(m) == m.op \notin {"flow", "summary"}
TouchesGraph(m) == m.op # "summary"
RequiresAnchor(m) == m.op \in {"fact", "flow"}

ASSUME BoundsAssumption == {MaxSequence, MaxBatch, MaxEdges} \subseteq Nat
ASSUME NonesAssumption ==
  /\ NoNode \notin Content
  /\ NoId \notin NodeId
  /\ Implicit \notin NodeId
  /\ NoEdge \notin StagedEdge
  /\ AnyPath \notin Path /\ NoPath \notin Path
ASSUME TagAssumption == Anchoring \union {"command"} \subseteq Tag /\ Rest # {}
ASSUME StagedAssumption ==
  /\ Parsed \in [SequenceNo -> SUBSET Seq(Mutation)]
  /\ Staged \in [SequenceNo -> SUBSET Mutation]
  /\ Deltas \in [SequenceNo -> SUBSET Seq(Mutation)]

(* Every mutation there may be, and those that describe a unit.            *)
Made ==
  UNION {{AddRequestAnchor(n), AddReconciliationAnchor(n)} \union Staged[n]
           \union UNION {{batch[i] : i \in DOMAIN batch} : batch \in Parsed[n] \union Deltas[n]} :
           n \in SequenceNo}
Describes(m) == Writes(m) /\ m.content.kind = "semantics"

(* Semantics have the id of their unit, prefixed, so that all that have    *)
(* one id come from one unit; no other node has that id, and no other      *)
(* mutation an edge to it that could number it.                            *)
ASSUME SemanticsAssumption ==
  \A m \in Made : Describes(m) =>
    /\ m.edge # NoEdge
    /\ m.edge.kind = "Defines" /\ m.edge.from # Implicit /\ m.edge.to = m.id
    /\ \A l \in Made :
         /\ Writes(l) /\ l.id = m.id => Describes(l) /\ l.edge = m.edge
         /\ l.edge # NoEdge /\ ~Describes(l) =>
              ~(l.edge.kind = "Defines" /\ l.edge.to = m.id)

-----------------------------------------------------------------------------
(***************************************************************************)
(* The graph and its lookups: units, payloads and semantics by sequence    *)
(* number, path facts and path contents by path and all together.          *)
(***************************************************************************)
Key ==
  ({"command", "derived", "payload", "semantics"} \X SequenceNo)
  \union ({"path", "artifact"} \X (Path \union {AnyPath}))

Graph ==
  [nodes : [NodeId -> Content \union {NoNode}], edges : Seq(Edge), index : [Key -> SUBSET NodeId]]

EmptyGraph ==
  [nodes |-> [id \in NodeId |-> NoNode], edges |-> <<>>, index |-> [k \in Key |-> {}]]

(* index_node, but for semantics.                                          *)
KeysOf(content) ==
  IF content.kind \in Unit \union {"payload"}
    THEN {<<content.kind, content.at>>}
    ELSE {<<content.kind, p>> :
            p \in CASE content.kind = "path" -> {AnyPath, content.path} \ {NoPath}
                    [] content.kind = "artifact" /\ content.path # NoPath -> {AnyPath, content.path}
                    [] OTHER -> {}}

IsUnit(nodes, id) == IF nodes[id] = NoNode THEN FALSE ELSE nodes[id].kind \in Unit
IsSemantics(nodes, id) == IF nodes[id] = NoNode THEN FALSE ELSE nodes[id].kind = "semantics"

(* An edge from a unit that gives semantics their sequence number.         *)
Numbers(nodes, edge) ==
  edge.kind = "Defines" /\ IsUnit(nodes, edge.from) /\ IsSemantics(nodes, edge.to)

SemanticsKey(nodes, edge) == <<"semantics", nodes[edge.from].at>>

(* execution_semantics_sequence_no: the first such edge counts.            *)
SemanticsKeysOf(nodes, edges, id) ==
  LET numbering == {i \in DOMAIN edges : edges[i].to = id /\ Numbers(nodes, edges[i])}
  IN  IF numbering = {} THEN {} ELSE {SemanticsKey(nodes, edges[Min(numbering)])}

AddNode(g, id, content) ==
  LET nodes   == [g.nodes EXCEPT ![id] = content]
      old     == IF g.nodes[id] = NoNode THEN {}
                 ELSE KeysOf(g.nodes[id]) \union
                        SemanticsKeysOf([nodes EXCEPT ![id] = g.nodes[id]], g.edges, id)
      new     == KeysOf(content) \union SemanticsKeysOf(nodes, g.edges, id)
  IN  [nodes |-> nodes, edges |-> g.edges,
       index |-> [k \in Key |-> (g.index[k] \ (IF k \in old THEN {id} ELSE {}))
                                  \union (IF k \in new THEN {id} ELSE {})]]

Linkable(g, edge) == g.nodes[edge.from] # NoNode /\ g.nodes[edge.to] # NoNode

(* Deliberately wrong: index_edge is left out. *)
AddEdge_Unindexed(g, edge) == [g EXCEPT !.edges = Append(@, edge)]

AddEdge(g, edge) ==
  [nodes |-> g.nodes, edges |-> Append(g.edges, edge),
   index |-> [k \in Key |-> IF Numbers(g.nodes, edge) /\ k = SemanticsKey(g.nodes, edge)
                              THEN g.index[k] \union {edge.to} ELSE g.index[k]]]

(* The indexes of a graph rebuilt from its nodes, then its edges.          *)
Indexed(nodes, edges) ==
  [k \in Key |->
     {id \in NodeId :
        \/ nodes[id] # NoNode /\ k \in KeysOf(nodes[id])
        \/ \E i \in DOMAIN edges :
             edges[i].to = id /\ Numbers(nodes, edges[i]) /\ k = SemanticsKey(nodes, edges[i])}]

FromSnapshot(nodes, edges) == [nodes |-> nodes, edges |-> edges, index |-> Indexed(nodes, edges)]

-----------------------------------------------------------------------------
(***************************************************************************)
(* Batches.  The nodes a batch leaves: the last write of an id, over what  *)
(* was there.                                                              *)
(***************************************************************************)
Writers(batch, i, id) == {j \in 1..i : Writes(batch[j]) /\ batch[j].id = id}

View(nodes, batch, i, id) ==
  IF Writers(batch, i, id) = {} THEN nodes[id] ELSE batch[Max(Writers(batch, i, id))].content

(* graph_projections: implicit edges start at the first command, if any.   *)
Source(batch, anchor) ==
  LET commands == {i \in DOMAIN batch : batch[i].op = "command"}
  IN  IF commands = {} THEN anchor ELSE batch[Min(commands)].id

HasEdge(m) == m.edge # NoEdge
EdgeOf(m, source) ==
  [m.edge EXCEPT !.from = IF m.edge.from = Implicit THEN source ELSE m.edge.from]

(* A node may be added once, or again as it is; only provenance artifacts  *)
(* are replaced.  A virtual node is there without content.                 *)
NodeIsValid(nodes, virtual, batch, i) ==
  LET m    == batch[i]
      seen == View(nodes, batch, i - 1, m.id)
  IN  IF m.op = "replace"
        THEN seen \in Artifact
        ELSE \/ seen \in {NoNode, m.content}
             \/ m.id \in virtual /\ Writers(batch, i - 1, m.id) = {}

Exists(nodes, virtual, batch, id) ==
  nodes[id] # NoNode \/ id \in virtual \/ Writers(batch, Len(batch), id) # {}

EdgeIsValid(nodes, virtual, batch, edge) ==
  Exists(nodes, virtual, batch, edge.from) /\ Exists(nodes, virtual, batch, edge.to)

(* Deliberately wrong: only the nodes are looked at. *)
Valid_Nodes(nodes, virtual, batch, source) ==
  \A i \in DOMAIN batch : Writes(batch[i]) => NodeIsValid(nodes, virtual, batch, i)

Valid(nodes, virtual, batch, source) ==
  \A i \in DOMAIN batch :
    /\ Writes(batch[i]) => NodeIsValid(nodes, virtual, batch, i)
    /\ HasEdge(batch[i]) => EdgeIsValid(nodes, virtual, batch, EdgeOf(batch[i], source))

(* What the analysis passes see: the graph under the staged mutations.     *)
StagedEdges(batch) == {i \in DOMAIN batch : HasEdge(batch[i]) /\ batch[i].edge.from # Implicit}

(* Deliberately wrong: semantics have no staged number. *)
StagedKeysOf_Unnumbered(nodes, batch, id) == KeysOf(View(nodes, batch, Len(batch), id))

StagedKeysOf(nodes, batch, id) ==
  LET seen      == [x \in NodeId |-> View(nodes, batch, Len(batch), x)]
      numbering == {i \in StagedEdges(batch) :
                      batch[i].edge.to = id /\ Numbers(seen, batch[i].edge)}
  IN  KeysOf(seen[id]) \union
        IF numbering = {} THEN {} ELSE {SemanticsKey(seen, batch[Min(numbering)].edge)}

StagedLookup(g, batch, k) ==
  LET overlay == {id \in NodeId : Writers(batch, Len(batch), id) # {}}
  IN  (g.index[k] \ overlay) \union {id \in overlay : k \in StagedKeysOf(g.nodes, batch, id)}

-----------------------------------------------------------------------------
VARIABLES
  phase,   \* of the request in hand: idle, checking, applying, linking, committed, failed
  graph,   \* of the live session
  base,    \* what the last commit left
  last,    \* the last sequence number observed
  number,  \* the sequence number in hand
  pending, \* the mutations in hand
  anchor,  \* the node they hang on
  pos      \* the next mutation to apply

vars == <<phase, graph, base, last, number, pending, anchor, pos>>
inHand == <<number, pending, anchor>>

Init ==
  /\ phase = "idle"
  /\ graph = EmptyGraph /\ base = EmptyGraph
  /\ last = 0 /\ number = 0
  /\ pending = <<>> /\ anchor = RequestId(0) /\ pos = 1

(* ProjectTopLevelCommandsPass.                                            *)
StartCheck(commands) ==
  /\ phase = "idle"
  /\ last < MaxSequence
  /\ phase' = "checking"
  /\ number' = last + 1
  /\ pending' = <<AddRequestAnchor(last + 1)>> \o commands
  /\ anchor' = RequestId(last + 1)
  /\ UNCHANGED <<graph, base, last, pos>>

(* stage_mutation: staged again, a mutation is dropped.                    *)
StageMutation(m) ==
  /\ phase = "checking"
  /\ Len(pending) < MaxBatch
  /\ \A i \in DOMAIN pending : pending[i] # m
  /\ pending' = Append(pending, m)
  /\ UNCHANGED <<phase, graph, base, last, number, anchor, pos>>

(* Nothing is in hand any more.                                            *)
Settle(observed) ==
  /\ phase' = "idle"
  /\ last' = observed /\ number' = observed
  /\ pending' = <<>> /\ anchor' = RequestId(observed) /\ pos' = 1

(* A command that is not allowed leaves its sequence number only.          *)
ObserveRequest ==
  /\ phase = "checking"
  /\ Settle(number)
  /\ UNCHANGED <<graph, base>>

(* commit_allowed_request, until the batch is known to be valid: first     *)
(* with the anchor to come, then with the anchor in the graph.             *)
CommitAllowedRequest ==
  LET source   == Source(pending, anchor)
      anchored == AddNode(graph, anchor, RequestNode(number))
      first    == graph.nodes[anchor] = NoNode /\ Valid(graph.nodes, {anchor}, pending, source)
      second   == Valid(anchored.nodes, {}, pending, source)
  IN  /\ phase = "checking"
      /\ graph' = IF first THEN anchored ELSE graph
      /\ phase' = IF first /\ second THEN "applying" ELSE "failed"
      /\ UNCHANGED <<base, last, inHand, pos>>

(* commit_observed_shell_state_mutations, until the batch is known to be   *)
(* valid.  The anchor is the command's, the request's, or one it brings.   *)
AnchorOf(batch, n) ==
  LET provided == {i \in DOMAIN batch : batch[i].op \in Anchoring}
      own      == IF graph.nodes[CommandId(n)] # NoNode THEN CommandId(n) ELSE RequestId(n)
  IN  IF graph.nodes[own] # NoNode \/ provided = {} THEN own ELSE batch[Min(provided)].id

Anchored(batch, n) ==
  \/ graph.nodes[AnchorOf(batch, n)] # NoNode
  \/ \E i \in DOMAIN batch : batch[i].op \in Anchoring
  \/ \A i \in DOMAIN batch : ~RequiresAnchor(batch[i])

CommitObserved(batch, n) ==
  LET at     == AnchorOf(batch, n)
      source == Source(batch, at)
      valid  == Valid(graph.nodes, {at}, batch, source) /\ Valid(graph.nodes, {}, batch, source)
  IN  /\ phase = "idle"
      /\ 0 < n /\ n <= last
      /\ Len(graph.edges) <= MaxEdges
      /\ number' = n /\ pending' = batch /\ anchor' = at
      /\ phase' = IF ~Anchored(batch, n) THEN "failed"
                  ELSE IF \A i \in DOMAIN batch : ~TouchesGraph(batch[i]) THEN "committed"
                  ELSE IF valid THEN "applying" ELSE "failed"
      /\ UNCHANGED <<graph, base, last, pos>>

(* Where the value of a reported variable comes from.                      *)
IsProvenance(m) == m.op = "fact" /\ m.content \in Artifact /\ HasEdge(m)

(* runtime_produced_variable_provenance_mutation: a value that is already  *)
(* in the graph is replaced.                                               *)
Produced(m, source) ==
  IF ~IsProvenance(m) THEN m
  ELSE IF graph.nodes[m.id] # NoNode THEN [m EXCEPT !.op = "replace", !.edge = NoEdge]
  ELSE [m EXCEPT !.edge.from = source]

(* apply_shell_state_delta: a runtime reports what the last command or an  *)
(* earlier one has changed, but not where values come from.                *)
ApplyShellStateDelta(batch, n) ==
  /\ \A i \in DOMAIN batch : ~IsProvenance(batch[i])
  /\ CommitObserved(batch, n)

(* reconcile_runtime_shell_state_before: the daemon finds what has changed *)
(* and brings an anchor, if the request itself was not committed.          *)
Reconcile(batch) ==
  LET bare     == graph.nodes[RequestId(last)] = NoNode
      source   == IF bare THEN ReconciliationId(last) ELSE RequestId(last)
      produced == [i \in DOMAIN batch |-> Produced(batch[i], source)]
  IN  CommitObserved((IF bare THEN <<AddReconciliationAnchor(last)>> ELSE <<>>) \o produced, last)

Applied(g, m) ==
  IF Writes(m) /\ (m.op = "replace" \/ g.nodes[m.id] = NoNode)
    THEN AddNode(g, m.id, m.content) ELSE g

(* apply_graph_batch, the nodes of one mutation after the other ...        *)
ApplyNodes ==
  /\ phase = "applying"
  /\ graph' = Applied(graph, pending[pos])
  /\ IF pos < Len(pending) THEN phase' = phase /\ pos' = pos + 1
                           ELSE phase' = "linking" /\ pos' = 1
  /\ UNCHANGED <<base, last, inHand>>

(* ... and then their edges.                                               *)
ApplyEdges ==
  LET m      == pending[pos]
      edge   == EdgeOf(m, Source(pending, anchor))
      broken == HasEdge(m) /\ ~Linkable(graph, edge)
  IN  /\ phase = "linking"
      /\ graph' = IF HasEdge(m) /\ ~broken THEN AddEdge(graph, edge) ELSE graph
      /\ phase' = IF broken THEN "failed" ELSE IF pos < Len(pending) THEN phase ELSE "committed"
      /\ pos' = IF broken \/ pos = Len(pending) THEN pos ELSE pos + 1
      /\ UNCHANGED <<base, last, inHand>>

(* The summary is updated, and the session goes on.                        *)
Finish ==
  /\ phase = "committed"
  /\ Settle(IF last < number THEN number ELSE last)
  /\ base' = graph
  /\ UNCHANGED graph

(* Deliberately wrong: the batch in hand is restored as far as it got.     *)
Restart_Partial ==
  /\ Settle(last)
  /\ graph' = FromSnapshot(graph.nodes, graph.edges)
  /\ base' = graph'

(* The daemon ends, at an error or at any time, and another one restores   *)
(* what the last commit left.                                              *)
Restart ==
  /\ Settle(last)
  /\ graph' = FromSnapshot(base.nodes, base.edges)
  /\ base' = graph'

Next ==
  \/ \E commands \in Parsed[last] : StartCheck(commands)
  \/ \E m \in Staged[number] : StageMutation(m)
  \/ ObserveRequest
  \/ CommitAllowedRequest
  \/ \E n \in 1..last : \E batch \in Deltas[n] : ApplyShellStateDelta(batch, n)
  \/ \E batch \in Deltas[last] : Reconcile(batch)
  \/ ApplyNodes
  \/ ApplyEdges
  \/ Finish
  \/ Restart

Spec == Init /\ [][Next]_vars

-----------------------------------------------------------------------------
(* Every variable has its type (state.rs:51, mutation.rs:15).              *)
TypeOK ==
  /\ phase \in {"idle", "checking", "applying", "linking", "committed", "failed"}
  /\ graph \in Graph /\ base \in Graph
  /\ last \in SequenceNo /\ number \in SequenceNo
  /\ pending \in Seq(Mutation)
  /\ anchor \in NodeId
  /\ pos \in 1..(Len(pending) + 1)

(* A batch that is refused, for whatever reason and at whatever point, has *)
(* changed nothing: what validation accepts can be applied to its end      *)
(* (state.rs:96-121, mutation.rs:255-283).                                 *)
FailedCommitLeavesGraph == phase = "failed" => graph = base

(* When its nodes are in, the graph holds for every id exactly what the    *)
(* passes were shown, although a node that is there is not written again   *)
(* and the anchor came first (mutation.rs:264-274, staged.rs:68-100).      *)
StagedNodesAreCommitted ==
  phase \in {"linking", "committed"} =>
    \A id \in NodeId : graph.nodes[id] = View(base.nodes, pending, Len(pending), id)

(* What a request was judged by is what later requests find: every lookup  *)
(* of the staged session answers as the graph does once the batch is in    *)
(* (staged.rs:181-232, graph.rs:237-385).                                  *)
StagedLookupsAreCommitted ==
  phase = "committed" => \A k \in Key : graph.index[k] = StagedLookup(base, pending, k)

(* The indexes kept along with nodes and edges are those a restart would   *)
(* rebuild from a snapshot, and no edge lacks an end that would make the   *)
(* snapshot unusable, at any point of a batch (graph.rs:195-235).          *)
GraphCanBeRestored ==
  /\ graph.index = FromSnapshot(graph.nodes, graph.edges).index
  /\ \A i \in DOMAIN graph.edges : Linkable(graph, graph.edges[i])

(* The edges of a graph, and those of the first i mutations in hand.       *)
EdgesIn(g) == {g.edges[i] : i \in DOMAIN g.edges}
Links(i) ==
  {EdgeOf(pending[j], Source(pending, anchor)) : j \in {l \in 1..i : HasEdge(pending[l])}}

(* The batch that is being applied, as one: the last write of every id,    *)
(* and every edge.                                                         *)
InHand ==
  IF phase \in {"applying", "linking", "committed"}
    THEN {[nodes |-> [id \in NodeId |->
                        View([x \in NodeId |-> NoNode], pending, Len(pending), id)],
           edges |-> Links(Len(pending))]}
    ELSE {}

(* A batch is applied to its end or leaves no trace: what validation       *)
(* accepts never fails half-way, and a daemon that ends among its nodes    *)
(* and edges loses all of it (mutation.rs:255-283, state.rs:90-185).       *)
Batches == INSTANCE AtomicBatches WITH
  nodes <- base.nodes, edges <- EdgesIn(base), accepted <- InHand

ImplementsBatches == Batches!Spec
=============================================================================
