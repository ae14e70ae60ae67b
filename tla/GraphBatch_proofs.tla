-------------------------- MODULE GraphBatch_proofs ---------------------------
(***************************************************************************)
(* Proofs about batches of graph mutations, for any facts the passes may   *)
(* derive, any reports, and any number of requests, mutations and edges.   *)
(***************************************************************************)
EXTENDS GraphBatch, WellFoundedInduction, TLAPS

(* The nodes a valid batch is applied to: a check has added its anchor.    *)
Start ==
  IF number > last THEN [base.nodes EXCEPT ![anchor] = RequestNode(number)] ELSE base.nodes

(* The nodes of the first i mutations are in, and nothing is lost.         *)
NodesApplied(i) ==
  /\ \A id \in NodeId : graph.nodes[id] = View(Start, pending, i, id)
  /\ \A j \in 1..i : Writes(pending[j]) => graph.nodes[pending[j].id] # NoNode
  /\ \A id \in NodeId : Start[id] # NoNode => graph.nodes[id] # NoNode

(* Nothing has happened to the graph before a batch is known to be valid.  *)
BaseInv == phase \in {"idle", "checking", "failed"} => graph = base

(* A batch starts with its first mutation, and a check with its anchor.    *)
HandInv ==
  /\ phase \in {"idle", "checking"} => pos = 1
  /\ phase = "checking" => number > last
  /\ phase # "failed" /\ number > last =>
       /\ Len(pending) > 0 /\ pending[1] = AddRequestAnchor(number)
       /\ anchor = RequestId(number)

BatchInv ==
  /\ phase \in {"applying", "linking"} =>
       /\ pos \in 1..Len(pending)
       /\ Valid(Start, {}, pending, Source(pending, anchor))
  /\ phase = "applying" => NodesApplied(pos - 1)
  /\ phase \in {"linking", "committed"} => NodesApplied(Len(pending))

(* A graph that a restart would find the same.                             *)
Restorable(g) ==
  /\ g.index = Indexed(g.nodes, g.edges)
  /\ \A i \in DOMAIN g.edges : Linkable(g, g.edges[i])

RestoreInv == Restorable(graph) /\ Restorable(base)

BatchIndInv == TypeOK /\ BaseInv /\ HandInv /\ BatchInv /\ RestoreInv

(* What the last commit left is there, or an artifact in its place.        *)
KeptInv ==
  phase \in {"applying", "linking", "committed"} =>
    \A id \in NodeId : base.nodes[id] # NoNode =>
      graph.nodes[id] = base.nodes[id] \/ {graph.nodes[id], base.nodes[id]} \subseteq Artifact

(* The edges of the mutations before pos have come to those that were.     *)
EdgesInv ==
  /\ phase = "applying" => graph.edges = base.edges
  /\ phase = "linking" => EdgesIn(graph) = EdgesIn(base) \union Links(pos - 1)
  /\ phase = "committed" => EdgesIn(graph) = EdgesIn(base) \union Links(Len(pending))

(* A mutation that writes an id of semantics, or an edge that could number *)
(* them, is one that describes their unit.                                 *)
Semantics == {m \in Made : Describes(m)}
Proper(m) ==
  /\ Describes(m) => m \in Made
  /\ \A x \in Semantics :
       /\ Writes(m) /\ m.id = x.id => Describes(m)
       /\ HasEdge(m) /\ m.edge.kind = "Defines" /\ m.edge.to = x.id => Describes(m)

(* Semantics have an id that is theirs, and one edge numbers them.         *)
Numbered(g) ==
  /\ \A id \in NodeId : IsSemantics(g.nodes, id) => \E x \in Semantics : x.id = id
  /\ \A edge \in EdgesIn(g), x \in Semantics :
       edge.kind = "Defines" /\ edge.to = x.id => edge = x.edge

ProperInv == \A i \in DOMAIN pending : Proper(pending[i])

LookupIndInv == KeptInv /\ EdgesInv /\ ProperInv /\ Numbered(graph) /\ Numbered(base)

-----------------------------------------------------------------------------
(* Mutations and edges have their types.                                   *)

(* The least element of a set of numbers is one of it, and the least.      *)
LEMMA MinIsElement ==
  ASSUME NEW S \in SUBSET Nat, S # {}
  PROVE  Min(S) \in S /\ \A x \in S : Min(S) <= x
<1> DEFINE R == OpToRel(<, Nat)
<1>1. IsWellFoundedOn(R, Nat)
  BY NatLessThanWellFounded
<1>2. \A x, y \in Nat : x < y => <<x, y>> \in R
  BY DEF OpToRel
<1> HIDE DEF R
<1>3. PICK m \in S : \A x \in S : ~(<<x, m>> \in R)
  BY <1>1, WFMin, S \subseteq Nat, Zenon
<1>4. \A x \in S : ~(x < m)
  BY <1>2, <1>3
<1>5. \A x \in S : m <= x
  BY <1>4
<1> QED BY <1>5 DEF Min

(* The anchors the code makes up are contents, and their ids are node ids. *)
LEMMA AnchorsTyped ==
  ASSUME NEW n \in SequenceNo
  PROVE  /\ RequestNode(n) \in Content /\ ReconciliationNode(n) \in Content
         /\ RequestId(n) \in NodeId /\ CommandId(n) \in NodeId /\ ReconciliationId(n) \in NodeId
         /\ AddRequestAnchor(n) \in Mutation /\ AddReconciliationAnchor(n) \in Mutation
<1>1. (CHOOSE r \in Rest : TRUE) \in Rest
  BY TagAssumption
<1>2. RequestNode(n) \in Content /\ ReconciliationNode(n) \in Content
  BY <1>1 DEF RequestNode, ReconciliationNode, Content, Kind
<1>3. RequestId(n) \in NodeId /\ CommandId(n) \in NodeId /\ ReconciliationId(n) \in NodeId
  BY TagAssumption DEF RequestId, CommandId, ReconciliationId, NodeId, Anchoring
<1>4. AddRequestAnchor(n) \in Mutation /\ AddReconciliationAnchor(n) \in Mutation
  BY <1>2, <1>3 DEF AddRequestAnchor, AddReconciliationAnchor, Mutation, Anchoring
<1> QED BY <1>2, <1>3, <1>4

(* What a mutation that writes has; NoEdge is no edge.                     *)
LEMMA MutationFields ==
  ASSUME NEW m \in Mutation
  PROVE  /\ Writes(m) => m.id \in NodeId /\ m.content \in Content
         /\ m.op = "replace" => m.content \in Artifact /\ Writes(m)
         /\ m.op \in Anchoring \union {"command"} => Writes(m)
         /\ HasEdge(m) => m.edge \in StagedEdge
<1>1. Artifact \subseteq Content
  BY DEF Artifact, Content, Kind
<1> QED BY <1>1 DEF Mutation, Writes, HasEdge, Anchoring

(* Implicit edges start at a node id.                                      *)
LEMMA SourceTyped ==
  ASSUME NEW batch \in Seq(Mutation), NEW at \in NodeId
  PROVE  Source(batch, at) \in NodeId
<1> DEFINE commands == {i \in DOMAIN batch : batch[i].op = "command"}
<1>1. CASE commands = {}
  BY <1>1 DEF Source
<1>2. CASE commands # {}
  <2>1. Min(commands) \in commands
    <3>1. commands \in SUBSET Nat
      OBVIOUS
    <3> QED BY <1>2, <3>1, MinIsElement, Zenon
  <2>2. batch[Min(commands)] \in Mutation /\ batch[Min(commands)].op = "command"
    BY <2>1
  <2> QED BY <1>2, <2>2, MutationFields DEF Source
<1> QED BY <1>1, <1>2

(* An edge whose source is known is an edge of the graph.                  *)
LEMMA EdgeTyped ==
  ASSUME NEW m \in Mutation, HasEdge(m), NEW source \in NodeId
  PROVE  EdgeOf(m, source) \in Edge
<1>1. m.edge \in StagedEdge
  BY MutationFields
<1> QED BY <1>1, NonesAssumption DEF EdgeOf, StagedEdge, Edge

(* The anchor of a report.                                                 *)
LEMMA AnchorTyped ==
  ASSUME NEW batch \in Seq(Mutation), NEW n \in SequenceNo
  PROVE  AnchorOf(batch, n) \in NodeId
<1> DEFINE provided == {i \in DOMAIN batch : batch[i].op \in Anchoring}
<1>1. provided # {} => batch[Min(provided)].id \in NodeId
  <2> SUFFICES ASSUME provided # {} PROVE batch[Min(provided)].id \in NodeId
    OBVIOUS
  <2>1. Min(provided) \in provided
    <3>1. provided \in SUBSET Nat
      OBVIOUS
    <3> QED BY <3>1, MinIsElement, Zenon
  <2>2. batch[Min(provided)] \in Mutation /\ batch[Min(provided)].op \in Anchoring
    BY <2>1
  <2> QED BY <2>2, MutationFields
<1> QED BY <1>1, AnchorsTyped DEF AnchorOf

-----------------------------------------------------------------------------
(* The graph.                                                              *)

(* Adding a node gives a graph.                                            *)
LEMMA AddNodeTyped ==
  ASSUME NEW g \in Graph, NEW id \in NodeId, NEW c \in Content
  PROVE  AddNode(g, id, c) \in Graph /\ AddNode(g, id, c).nodes = [g.nodes EXCEPT ![id] = c]
<1> DEFINE h == AddNode(g, id, c)
<1>1. h.nodes = [g.nodes EXCEPT ![id] = c] /\ h.edges = g.edges
  BY DEF AddNode
<1>2. h.nodes \in [NodeId -> Content \union {NoNode}] /\ h.edges \in Seq(Edge)
  BY <1>1 DEF Graph
<1>3. h.index \in [Key -> SUBSET NodeId]
  BY DEF AddNode, Graph
<1>4. h = [nodes |-> h.nodes, edges |-> h.edges, index |-> h.index]
  BY DEF AddNode
<1> QED BY <1>1, <1>2, <1>3, <1>4 DEF Graph

(* Adding an edge gives a graph.                                           *)
LEMMA AddEdgeTyped ==
  ASSUME NEW g \in Graph, NEW e \in Edge
  PROVE  AddEdge(g, e) \in Graph /\ AddEdge(g, e).nodes = g.nodes
<1> DEFINE h == AddEdge(g, e)
<1>1. h.nodes = g.nodes /\ h.edges = Append(g.edges, e)
  BY DEF AddEdge
<1>2. h.edges \in Seq(Edge) /\ h.nodes \in [NodeId -> Content \union {NoNode}]
  BY <1>1 DEF Graph
<1>3. h.index \in [Key -> SUBSET NodeId]
  BY DEF AddEdge, Graph, Edge
<1>4. h = [nodes |-> h.nodes, edges |-> h.edges, index |-> h.index]
  BY DEF AddEdge
<1> QED BY <1>1, <1>2, <1>3, <1>4 DEF Graph

(* A graph restored from nodes and edges is one.                           *)
LEMMA FromSnapshotTyped ==
  ASSUME NEW g \in Graph
  PROVE  FromSnapshot(g.nodes, g.edges) \in Graph
<1>1. Indexed(g.nodes, g.edges) \in [Key -> SUBSET NodeId]
  BY DEF Indexed
<1> QED BY <1>1 DEF FromSnapshot, Graph

(* A new node, or an artifact in the place of another, changes no number   *)
(* of semantics.                                                           *)
LEMMA NumbersKept ==
  ASSUME NEW g \in Graph, NEW id \in NodeId, NEW c \in Content, NEW e \in Edge,
         Linkable(g, e),
         g.nodes[id] = NoNode \/ (g.nodes[id] \in Artifact /\ c \in Artifact)
  PROVE  LET nodes == [g.nodes EXCEPT ![id] = c] IN
         /\ Numbers(nodes, e) <=> Numbers(g.nodes, e)
         /\ Numbers(g.nodes, e) => SemanticsKey(nodes, e) = SemanticsKey(g.nodes, e) /\ e.to # id
<1> DEFINE nodes == [g.nodes EXCEPT ![id] = c]
<1>1. g.nodes \in [NodeId -> Content \union {NoNode}] /\ e.from \in NodeId /\ e.to \in NodeId
  BY DEF Graph, Edge
<1>2. \A x \in NodeId : nodes[x] = IF x = id THEN c ELSE g.nodes[x]
  BY <1>1
<1>3. g.nodes[e.from] # NoNode /\ g.nodes[e.to] # NoNode
  BY DEF Linkable
<1>4. \A a \in Artifact : a.kind = "artifact" /\ a # NoNode
  <2>1. Artifact \subseteq Content
    BY DEF Artifact, Content, Kind
  <2> QED BY <2>1, NonesAssumption DEF Artifact
<1>5. e.from = id \/ e.to = id =>
        g.nodes[id].kind = "artifact" /\ c.kind = "artifact" /\ c # NoNode /\ g.nodes[id] # NoNode
  BY <1>3, <1>4
<1>6. IsUnit(nodes, e.from) <=> IsUnit(g.nodes, e.from)
  BY <1>1, <1>2, <1>5 DEF IsUnit, Unit
<1>7. IsSemantics(nodes, e.to) <=> IsSemantics(g.nodes, e.to)
  BY <1>1, <1>2, <1>5 DEF IsSemantics
<1>8. Numbers(g.nodes, e) => e.from # id /\ e.to # id
  BY <1>5 DEF Numbers, IsUnit, IsSemantics, Unit
<1> QED BY <1>1, <1>2, <1>6, <1>7, <1>8 DEF Numbers, SemanticsKey

(* No semantics get their number from the edges into such a node.          *)
LEMMA NoSemanticsKeys ==
  ASSUME NEW nodes, NEW edges \in Seq(Edge), NEW id \in NodeId,
         \A i \in DOMAIN edges : Numbers(nodes, edges[i]) => edges[i].to # id
  PROVE  SemanticsKeysOf(nodes, edges, id) = {}
BY DEF SemanticsKeysOf

(* Adding a new node, or replacing an artifact, keeps the graph one that a *)
(* restart would find the same.                                            *)
LEMMA AddNodeRestorable ==
  ASSUME NEW g \in Graph, NEW id \in NodeId, NEW c \in Content, Restorable(g),
         g.nodes[id] = NoNode \/ (g.nodes[id] \in Artifact /\ c \in Artifact)
  PROVE  Restorable(AddNode(g, id, c))
<1> DEFINE nodes == [g.nodes EXCEPT ![id] = c]
           same  == [nodes EXCEPT ![id] = g.nodes[id]]
           h == AddNode(g, id, c)
           old == IF g.nodes[id] = NoNode THEN {} ELSE KeysOf(g.nodes[id])
<1>1. /\ g.nodes \in [NodeId -> Content \union {NoNode}] /\ g.edges \in Seq(Edge)
      /\ \A i \in DOMAIN g.edges : g.edges[i] \in Edge /\ Linkable(g, g.edges[i])
  BY DEF Graph, Restorable
<1>2. \A x \in NodeId : nodes[x] = IF x = id THEN c ELSE g.nodes[x]
  BY <1>1
<1>3. same = g.nodes
  BY <1>1
<1>4. \A i \in DOMAIN g.edges :
        /\ Numbers(nodes, g.edges[i]) <=> Numbers(g.nodes, g.edges[i])
        /\ Numbers(g.nodes, g.edges[i]) =>
             SemanticsKey(nodes, g.edges[i]) = SemanticsKey(g.nodes, g.edges[i]) /\ g.edges[i].to # id
  BY <1>1, NumbersKept
<1>5. SemanticsKeysOf(nodes, g.edges, id) = {} /\ SemanticsKeysOf(same, g.edges, id) = {}
  <2> HIDE DEF nodes
  <2> QED BY <1>1, <1>3, <1>4, NoSemanticsKeys
<1>6. c # NoNode
  BY NonesAssumption
<1>7. h.nodes = nodes /\ h.edges = g.edges
  BY DEF AddNode
<1>8. \A k \in Key :
        h.index[k] = (g.index[k] \ (IF k \in old THEN {id} ELSE {}))
                       \union (IF k \in KeysOf(c) THEN {id} ELSE {})
  <2>1. \A S : S \union {} = S
    OBVIOUS
  <2>2. KeysOf(c) \union SemanticsKeysOf(nodes, g.edges, id) = KeysOf(c)
    BY <1>5
  <2>3. (IF g.nodes[id] = NoNode THEN {}
         ELSE KeysOf(g.nodes[id]) \union SemanticsKeysOf(same, g.edges, id)) = old
    BY <1>5, <2>1
  <2> HIDE DEF old
  <2> QED BY <2>2, <2>3 DEF AddNode
<1>9. h.index = Indexed(h.nodes, h.edges)
  <2> DEFINE ind == Indexed(nodes, g.edges)
  <2>1. ASSUME NEW k \in Key
        PROVE  h.index[k] = ind[k]
    <3>1. g.index[k] =
            {x \in NodeId :
               \/ g.nodes[x] # NoNode /\ k \in KeysOf(g.nodes[x])
               \/ \E i \in DOMAIN g.edges : g.edges[i].to = x /\ Numbers(g.nodes, g.edges[i])
                                              /\ k = SemanticsKey(g.nodes, g.edges[i])}
      BY DEF Restorable, Indexed
    <3>2. ind[k] =
            {x \in NodeId :
               \/ nodes[x] # NoNode /\ k \in KeysOf(nodes[x])
               \/ \E i \in DOMAIN g.edges : g.edges[i].to = x /\ Numbers(nodes, g.edges[i])
                                              /\ k = SemanticsKey(nodes, g.edges[i])}
      BY DEF Indexed
    <3> DEFINE numbered(x) ==
          \E i \in DOMAIN g.edges : g.edges[i].to = x /\ Numbers(g.nodes, g.edges[i])
                                      /\ k = SemanticsKey(g.nodes, g.edges[i])
    <3>3. \A x \in NodeId :
            (\E i \in DOMAIN g.edges : g.edges[i].to = x /\ Numbers(nodes, g.edges[i])
                                         /\ k = SemanticsKey(nodes, g.edges[i])) <=> numbered(x)
      <4> HIDE DEF nodes
      <4> QED BY <1>4
    <3>4. ~numbered(id)
      BY <1>4
    <3> HIDE DEF numbered
    <3>5. \A x \in NodeId : x \in g.index[k] <=>
            (g.nodes[x] # NoNode /\ k \in KeysOf(g.nodes[x])) \/ numbered(x)
      BY <3>1 DEF numbered
    <3>6. \A x \in NodeId : x \in ind[k] <=>
            (nodes[x] # NoNode /\ k \in KeysOf(nodes[x])) \/ numbered(x)
      <4> HIDE DEF ind, nodes
      <4> QED BY <3>2, <3>3
    <3>7. ASSUME NEW x \in NodeId
          PROVE  x \in h.index[k] <=> x \in ind[k]
      <4>1. CASE x = id
        <5>1. x \in g.index[k] => k \in old
          BY <3>4, <3>5, <4>1
        <5>2. x \in h.index[k] <=> k \in KeysOf(c)
          <6> HIDE DEF h, old
          <6> QED BY <1>8, <4>1, <5>1
        <5>3. x \in ind[k] <=> k \in KeysOf(c)
          <6>1. nodes[x] = c
            BY <1>2, <4>1
          <6> HIDE DEF ind, nodes
          <6> QED BY <1>6, <3>4, <3>6, <4>1, <6>1
        <5> QED BY <5>2, <5>3
      <4>2. CASE x # id
        <5>1. x \in h.index[k] <=> x \in g.index[k]
          <6> HIDE DEF h, old
          <6> QED BY <1>8, <4>2
        <5>2. nodes[x] = g.nodes[x]
          BY <1>2, <4>2
        <5> HIDE DEF h, nodes, ind
        <5> QED BY <3>5, <3>6, <5>1, <5>2
      <4> QED BY <4>1, <4>2
    <3>8. h.index[k] \subseteq NodeId /\ ind[k] \subseteq NodeId
      <4>1. h \in Graph
        BY AddNodeTyped
      <4> HIDE DEF h, ind, nodes
      <4> QED BY <3>2, <4>1 DEF Graph
    <3> HIDE DEF h, ind
    <3> QED BY <3>7, <3>8
  <2>2. h.index \in [Key -> SUBSET NodeId]
    <3>1. h \in Graph
      BY AddNodeTyped
    <3> HIDE DEF h
    <3> QED BY <3>1 DEF Graph
  <2>3. h.index = [k \in Key |-> h.index[k]] /\ ind = [k \in Key |-> ind[k]]
    <3>1. ind = [k \in Key |-> ind[k]]
      BY DEF Indexed
    <3> HIDE DEF h, ind
    <3> QED BY <2>2, <3>1
  <2>4. h.index = ind
    <3> HIDE DEF h, ind
    <3> QED BY <2>1, <2>3
  <2> HIDE DEF h, nodes
  <2> QED BY <1>7, <2>4
<1>10. \A i \in DOMAIN h.edges : Linkable(h, h.edges[i])
  <2>1. \A x \in NodeId : g.nodes[x] # NoNode => h.nodes[x] # NoNode
    <3> HIDE DEF h, nodes
    <3> QED BY <1>2, <1>6, <1>7
  <2> HIDE DEF h
  <2> QED BY <1>1, <1>7, <2>1 DEF Linkable, Edge
<1>11. Restorable(h)
  <2> HIDE DEF h
  <2> QED BY <1>9, <1>10 DEF Restorable
<1> QED BY <1>11

(* So does adding an edge between nodes that are there.                    *)
LEMMA AddEdgeRestorable ==
  ASSUME NEW g \in Graph, NEW e \in Edge, Restorable(g), Linkable(g, e)
  PROVE  Restorable(AddEdge(g, e))
<1> DEFINE h == AddEdge(g, e)
           edges == Append(g.edges, e)
<1>1. h.nodes = g.nodes /\ h.edges = edges /\ g.edges \in Seq(Edge)
  BY DEF AddEdge, Graph
<1>2. /\ DOMAIN edges = DOMAIN g.edges \union {Len(g.edges) + 1}
      /\ \A i \in DOMAIN g.edges : edges[i] = g.edges[i]
      /\ edges[Len(g.edges) + 1] = e
  BY <1>1
<1>3. \A i \in DOMAIN h.edges : Linkable(h, h.edges[i])
  <2> HIDE DEF h, edges
  <2> QED BY <1>1, <1>2 DEF Linkable, Restorable
<1>4. ASSUME NEW k \in Key
      PROVE  h.index[k] = Indexed(g.nodes, edges)[k]
  <2>1. h.index[k] = IF Numbers(g.nodes, e) /\ k = SemanticsKey(g.nodes, e)
                       THEN g.index[k] \union {e.to} ELSE g.index[k]
    BY DEF AddEdge
  <2>2. g.index[k] =
          {x \in NodeId :
             \/ g.nodes[x] # NoNode /\ k \in KeysOf(g.nodes[x])
             \/ \E i \in DOMAIN g.edges : g.edges[i].to = x /\ Numbers(g.nodes, g.edges[i])
                                            /\ k = SemanticsKey(g.nodes, g.edges[i])}
    BY DEF Restorable, Indexed
  <2>3. Indexed(g.nodes, edges)[k] =
          {x \in NodeId :
             \/ g.nodes[x] # NoNode /\ k \in KeysOf(g.nodes[x])
             \/ \E i \in DOMAIN edges : edges[i].to = x /\ Numbers(g.nodes, edges[i])
                                            /\ k = SemanticsKey(g.nodes, edges[i])}
    BY DEF Indexed
  <2>4. e.to \in NodeId
    BY DEF Edge
  <2> HIDE DEF h, edges
  <2> QED BY <1>2, <2>1, <2>2, <2>3, <2>4
<1>5. h.index \in [Key -> SUBSET NodeId]
  <2>1. h \in Graph
    BY AddEdgeTyped
  <2> HIDE DEF h
  <2> QED BY <2>1 DEF Graph
<1>6. h.index = Indexed(h.nodes, h.edges)
  <2> DEFINE ind == Indexed(g.nodes, edges)
  <2>1. ind = [k \in Key |-> ind[k]]
    BY DEF Indexed
  <2> HIDE DEF h, ind
  <2>2. h.index = ind
    BY <1>4, <1>5, <2>1 DEF ind
  <2> QED BY <1>1, <2>2 DEF ind
<1>7. Restorable(h)
  <2> HIDE DEF h
  <2> QED BY <1>3, <1>6 DEF Restorable
<1> QED BY <1>7

-----------------------------------------------------------------------------
(* Batches.                                                                *)

(* The last write of an id among i mutations is the i-th, or an older one. *)
LEMMA ViewStep ==
  ASSUME NEW nodes, NEW batch, NEW i \in Nat \ {0}, NEW id
  PROVE  View(nodes, batch, i, id) =
           IF Writes(batch[i]) /\ batch[i].id = id THEN batch[i].content
           ELSE View(nodes, batch, i - 1, id)
<1> DEFINE W == Writers(batch, i, id)
<1>1. CASE Writes(batch[i]) /\ batch[i].id = id
  <2>1. i \in W /\ W \subseteq 1..i
    BY <1>1 DEF Writers
  <2>2. Max(W) = i
    <3>1. \A y \in W : i >= y
      BY <2>1
    <3>2. \A x \in W : (\A y \in W : x >= y) => x = i
      <4> HIDE DEF W
      <4> QED BY <2>1
    <3> HIDE DEF W
    <3> QED BY <2>1, <3>1, <3>2 DEF Max
  <2>3. W # {}
    BY <2>1
  <2>4. View(nodes, batch, i, id) = batch[i].content
    BY <2>2, <2>3 DEF View
  <2> QED BY <1>1, <2>4
<1>2. CASE ~(Writes(batch[i]) /\ batch[i].id = id)
  <2>1. 1..i = (1..(i - 1)) \union {i}
    OBVIOUS
  <2>2. W = Writers(batch, i - 1, id)
    BY <1>2, <2>1 DEF Writers
  <2>3. View(nodes, batch, i, id) = View(nodes, batch, i - 1, id)
    <3> HIDE DEF W
    <3> QED BY <2>2 DEF View, W
  <2> QED BY <1>2, <2>3
<1> QED BY <1>1, <1>2

(* Before the first mutation there is what was there.                      *)
LEMMA ViewStart ==
  ASSUME NEW nodes, NEW batch, NEW id
  PROVE  View(nodes, batch, 0, id) = nodes[id]
<1>1. Writers(batch, 0, id) = {}
  BY DEF Writers
<1> QED BY <1>1 DEF View

(* What was there does not matter once an id is written.                   *)
LEMMA ViewOver ==
  ASSUME NEW nodes, NEW other, NEW batch, NEW i, NEW id,
         nodes[id] = other[id] \/ Writers(batch, i, id) # {}
  PROVE  View(nodes, batch, i, id) = View(other, batch, i, id)
BY DEF View

(* A batch that is valid with an anchor to come is valid with the anchor   *)
(* in the graph, because it starts with that anchor.                       *)
LEMMA VirtualIsReal ==
  ASSUME NEW nodes \in [NodeId -> Content \union {NoNode}], NEW n \in SequenceNo,
         NEW batch \in Seq(Mutation), NEW source \in NodeId,
         Len(batch) > 0, batch[1] = AddRequestAnchor(n), nodes[RequestId(n)] = NoNode,
         Valid(nodes, {RequestId(n)}, batch, source)
  PROVE  Valid([nodes EXCEPT ![RequestId(n)] = RequestNode(n)], {}, batch, source)
<1> DEFINE at == RequestId(n)
           real == [nodes EXCEPT ![at] = RequestNode(n)]
<1>1. /\ RequestNode(n) \in Content /\ RequestNode(n) # NoNode /\ at \in NodeId
  BY AnchorsTyped, NonesAssumption
<1>2. \A id \in NodeId : real[id] = IF id = at THEN RequestNode(n) ELSE nodes[id]
  BY <1>1
<1>3. Writes(batch[1]) /\ batch[1].id = at /\ batch[1].content = RequestNode(n)
        /\ batch[1].op = "request"
  BY DEF AddRequestAnchor, Writes
<1> HIDE DEF real, at
<1>4. ASSUME NEW i \in DOMAIN batch, Writes(batch[i])
      PROVE  NodeIsValid(real, {}, batch, i)
  <2>1. NodeIsValid(nodes, {at}, batch, i)
    BY <1>4 DEF Valid, at
  <2>2. CASE i = 1
    <3>1. View(real, batch, i - 1, batch[i].id) = batch[i].content
      BY <1>1, <1>2, <1>3, <2>2, ViewStart
    <3> QED BY <1>3, <2>2, <3>1 DEF NodeIsValid
  <2>3. CASE i # 1
    <3>1. batch[i].id = at => Writers(batch, i - 1, batch[i].id) # {}
      <4>1. 1 \in 1..(i - 1)
        BY <2>3
      <4> QED BY <1>3, <4>1 DEF Writers
    <3>2. batch[i].id \in NodeId
      BY <1>4, MutationFields
    <3>3. real[batch[i].id] = nodes[batch[i].id] \/ Writers(batch, i - 1, batch[i].id) # {}
      BY <1>2, <3>1, <3>2
    <3>4. View(real, batch, i - 1, batch[i].id) = View(nodes, batch, i - 1, batch[i].id)
      BY <3>3, ViewOver
    <3> QED BY <2>1, <3>1, <3>4 DEF NodeIsValid
  <2> QED BY <2>2, <2>3
<1>5. ASSUME NEW i \in DOMAIN batch, HasEdge(batch[i])
      PROVE  EdgeIsValid(real, {}, batch, EdgeOf(batch[i], source))
  <2> DEFINE edge == EdgeOf(batch[i], source)
  <2>1. EdgeIsValid(nodes, {at}, batch, edge)
    BY <1>5 DEF Valid, at
  <2>2. edge.from \in NodeId /\ edge.to \in NodeId
    BY <1>5, EdgeTyped DEF Edge
  <2> HIDE DEF edge
  <2>3. \A id \in NodeId : Exists(nodes, {at}, batch, id) => Exists(real, {}, batch, id)
    BY <1>1, <1>2 DEF Exists
  <2>4. EdgeIsValid(real, {}, batch, edge)
    BY <2>1, <2>2, <2>3 DEF EdgeIsValid
  <2> QED BY <2>4 DEF edge
<1>6. Valid(real, {}, batch, source)
  BY <1>4, <1>5 DEF Valid
<1> QED BY <1>6 DEF real, at

-----------------------------------------------------------------------------
(* The invariant holds at the start, and every action keeps it.            *)

(* Numbers: 0 is a sequence number, and so is the next one within bounds.  *)
LEMMA SequenceNumbers ==
  /\ 0 \in SequenceNo
  /\ \A n \in SequenceNo : n < MaxSequence => n + 1 \in SequenceNo /\ n + 1 > n
BY BoundsAssumption DEF SequenceNo

(* The empty session satisfies the invariant.                              *)
LEMMA InitKeeps == Init => BatchIndInv
<1> SUFFICES ASSUME Init PROVE BatchIndInv
  OBVIOUS
<1>1. EmptyGraph \in Graph
  BY DEF EmptyGraph, Graph
<1>2. Restorable(EmptyGraph)
  BY DEF EmptyGraph, Restorable, Indexed
<1>3. TypeOK
  BY <1>1, SequenceNumbers, AnchorsTyped DEF Init, TypeOK
<1> QED BY <1>2, <1>3 DEF Init, BatchIndInv, BaseInv, HandInv, BatchInv, RestoreInv

(* With nothing in hand, only the graph matters.                           *)
LEMMA SettleKeeps ==
  ASSUME NEW n \in SequenceNo, Settle(n), graph' \in Graph, Restorable(graph'), base' = graph'
  PROVE  BatchIndInv'
<1>1. TypeOK'
  BY AnchorsTyped DEF Settle, TypeOK
<1>2. ~(n > n)
  BY DEF SequenceNo
<1> QED BY <1>1, <1>2 DEF Settle, BatchIndInv, BaseInv, HandInv, BatchInv, RestoreInv

(* A request starts with its anchor.                                       *)
LEMMA StartCheckKeeps ==
  ASSUME BatchIndInv, NEW commands \in Parsed[last], StartCheck(commands)
  PROVE  BatchIndInv'
<1>1. last \in SequenceNo /\ last + 1 \in SequenceNo /\ last + 1 > last
  BY SequenceNumbers DEF BatchIndInv, TypeOK, StartCheck
<1>2. commands \in Seq(Mutation) /\ AddRequestAnchor(last + 1) \in Mutation
  BY <1>1, StagedAssumption, AnchorsTyped
<1>3. /\ pending' \in Seq(Mutation) /\ Len(pending') > 0
      /\ pending'[1] = AddRequestAnchor(last + 1)
  BY <1>2 DEF StartCheck
<1>4. pos' = 1 /\ TypeOK'
  BY <1>1, <1>3, AnchorsTyped DEF BatchIndInv, TypeOK, HandInv, StartCheck
<1> QED BY <1>1, <1>3, <1>4
        DEF BatchIndInv, StartCheck, BaseInv, HandInv, BatchInv, RestoreInv

(* Staged mutations come after it.                                         *)
LEMMA StageMutationKeeps ==
  ASSUME BatchIndInv, NEW m \in Staged[number], StageMutation(m)
  PROVE  BatchIndInv'
<1>1. m \in Mutation /\ pending \in Seq(Mutation)
  BY StagedAssumption DEF BatchIndInv, TypeOK
<1>2. Len(pending) > 0 /\ pending[1] = AddRequestAnchor(number) /\ pos = 1
  BY DEF BatchIndInv, HandInv, StageMutation
<1>3. /\ pending' \in Seq(Mutation) /\ Len(pending') = Len(pending) + 1
      /\ pending'[1] = pending[1]
  BY <1>1, <1>2 DEF StageMutation
<1>4. TypeOK'
  BY <1>2, <1>3 DEF BatchIndInv, TypeOK, StageMutation
<1> QED BY <1>2, <1>3, <1>4 DEF BatchIndInv, StageMutation, BaseInv, HandInv, BatchInv, RestoreInv

(* The commit of a request.                                                *)
LEMMA CommitAllowedRequestKeeps ==
  ASSUME BatchIndInv, CommitAllowedRequest
  PROVE  BatchIndInv'
<1> DEFINE source   == Source(pending, anchor)
           anchored == AddNode(graph, anchor, RequestNode(number))
           start    == [graph.nodes EXCEPT ![anchor] = RequestNode(number)]
           first    == graph.nodes[anchor] = NoNode /\ Valid(graph.nodes, {anchor}, pending, source)
<1>1. /\ phase = "checking" /\ graph = base /\ pos = 1 /\ number > last
      /\ Len(pending) > 0 /\ pending[1] = AddRequestAnchor(number) /\ anchor = RequestId(number)
      /\ graph \in Graph /\ number \in SequenceNo /\ pending \in Seq(Mutation) /\ anchor \in NodeId
  BY DEF BatchIndInv, TypeOK, BaseInv, HandInv, CommitAllowedRequest
<1>2. graph.nodes \in [NodeId -> Content \union {NoNode}] /\ RequestNode(number) \in Content
  BY <1>1, AnchorsTyped DEF Graph
<1>3. anchored \in Graph /\ anchored.nodes = start
  BY <1>1, <1>2, AddNodeTyped
<1>4. first => Valid(start, {}, pending, source)
  BY <1>1, <1>2, VirtualIsReal, SourceTyped
<1> HIDE DEF source, start
<1>5. CASE ~first
  <2>1. phase' = "failed" /\ UNCHANGED <<graph, base, last, number, pending, anchor, pos>>
    <3> HIDE DEF first
    <3> QED BY <1>5 DEF CommitAllowedRequest, inHand, first, source
  <2> HIDE DEF first
  <2> QED BY <1>1, <2>1
          DEF BatchIndInv, TypeOK, BaseInv, HandInv, BatchInv, RestoreInv, Restorable, Linkable
<1>6. CASE first
  <2>1. /\ phase' = "applying" /\ graph' = anchored
        /\ UNCHANGED <<base, last, number, pending, anchor, pos>>
    BY <1>3, <1>4, <1>6 DEF CommitAllowedRequest, inHand, source
  <2>2. graph.nodes[anchor] = NoNode
    BY <1>6
  <2> HIDE DEF first, anchored
  <2>3. TypeOK'
    BY <1>1, <1>3, <2>1 DEF BatchIndInv, TypeOK
  <2>4. Restorable(graph')
    BY <1>1, <1>2, <2>1, <2>2, AddNodeRestorable DEF BatchIndInv, RestoreInv, anchored
  <2>5. Start' = start /\ graph'.nodes = start
    BY <1>1, <1>3, <2>1 DEF Start, start
  <2>6. NodesApplied(0)'
    <3>1. \A id \in NodeId : View(Start', pending', 0, id) = Start'[id]
      BY ViewStart
    <3> QED BY <2>5, <3>1 DEF NodesApplied
  <2>7. BatchInv'
    BY <1>1, <1>4, <1>6, <2>1, <2>5, <2>6 DEF BatchInv, source, TypeOK
  <2>8. HandInv' /\ BaseInv'
    BY <1>1, <2>1 DEF HandInv, BaseInv
  <2> QED BY <2>1, <2>3, <2>4, <2>7, <2>8 DEF BatchIndInv, RestoreInv
<1> QED BY <1>5, <1>6

(* The commit of a report.                                                 *)
LEMMA CommitObservedKeeps ==
  ASSUME BatchIndInv, NEW batch \in Seq(Mutation), NEW n \in SequenceNo,
         CommitObserved(batch, n)
  PROVE  BatchIndInv'
<1> DEFINE at     == AnchorOf(batch, n)
           source == Source(batch, at)
<1>1. /\ phase = "idle" /\ graph = base /\ pos = 1 /\ last \in SequenceNo /\ ~(n > last)
      /\ graph \in Graph
  BY DEF BatchIndInv, TypeOK, BaseInv, HandInv, CommitObserved, SequenceNo
<1>2. /\ number' = n /\ pending' = batch /\ anchor' = at
      /\ phase' \in {"failed", "committed", "applying"}
      /\ phase' = "committed" => \A i \in DOMAIN batch : ~TouchesGraph(batch[i])
      /\ phase' = "applying" =>
           /\ Valid(graph.nodes, {}, batch, source)
           /\ \E i \in DOMAIN batch : TouchesGraph(batch[i])
      /\ UNCHANGED <<graph, base, last, pos>>
  BY DEF CommitObserved
<1>3. at \in NodeId
  BY <1>1, AnchorTyped
<1> HIDE DEF at, source
<1>4. TypeOK'
  BY <1>1, <1>2, <1>3 DEF BatchIndInv, TypeOK
<1>5. Start' = graph.nodes
  BY <1>1, <1>2 DEF Start
<1>6. \A id \in NodeId : View(Start', pending', 0, id) = Start'[id]
  BY ViewStart
<1>7. phase' = "applying" => NodesApplied(0)'
  BY <1>2, <1>5, <1>6 DEF NodesApplied
<1>8. ASSUME phase' = "committed"
      PROVE  NodesApplied(Len(pending))'
  <2>1. \A i \in 1..Len(batch) : ~Writes(batch[i])
    BY <1>2, <1>8 DEF Writes, TouchesGraph
  <2>2. \A id \in NodeId : Writers(batch, Len(batch), id) = {}
    BY <2>1 DEF Writers
  <2> QED BY <1>2, <1>5, <2>1, <2>2 DEF NodesApplied, View
<1>9. BatchInv'
  <2>1. phase' = "applying" => pos' \in 1..Len(pending')
    BY <1>1, <1>2
  <2>2. source = Source(pending', anchor')
    BY <1>2 DEF source
  <2> QED BY <1>1, <1>2, <1>5, <1>7, <1>8, <2>1, <2>2 DEF BatchInv
<1> QED BY <1>1, <1>2, <1>4, <1>9 DEF BatchIndInv, BaseInv, HandInv, RestoreInv

(* What is found in a report about values is a mutation, or a replacement. *)
LEMMA ProducedTyped ==
  ASSUME NEW m \in Mutation, NEW source \in NodeId
  PROVE  Produced(m, source) \in Mutation
<1>1. CASE ~IsProvenance(m)
  BY <1>1 DEF Produced
<1>2. CASE IsProvenance(m)
  <2>1. m.op = "fact" /\ m.content \in Artifact /\ m.edge # NoEdge
    BY <1>2 DEF IsProvenance, HasEdge
  <2>2. m \in [op : {"fact"}, id : NodeId, content : Content, edge : StagedEdge \union {NoEdge}]
    BY <2>1 DEF Mutation, Anchoring
  <2>3. m.edge \in StagedEdge
    BY <2>1, <2>2
  <2>4. [m EXCEPT !.op = "replace", !.edge = NoEdge]
          \in [op : {"replace"}, id : NodeId, content : Artifact, edge : {NoEdge}]
    BY <2>1, <2>2
  <2>5. [m.edge EXCEPT !.from = source] \in StagedEdge
    BY <2>3 DEF StagedEdge
  <2>6. [m EXCEPT !.edge.from = source]
          \in [op : {"fact"}, id : NodeId, content : Content, edge : StagedEdge \union {NoEdge}]
    BY <2>2, <2>5
  <2> QED BY <1>2, <2>4, <2>6 DEF Produced, Mutation
<1> QED BY <1>1, <1>2

(* What the daemon found out is committed as a batch of mutations.         *)
LEMMA ReportTyped ==
  ASSUME BatchIndInv, NEW batch \in Seq(Mutation), last \in SequenceNo, Reconcile(batch)
  PROVE  \E full \in Seq(Mutation) : CommitObserved(full, last)
<1> DEFINE bare     == graph.nodes[RequestId(last)] = NoNode
           source   == IF bare THEN ReconciliationId(last) ELSE RequestId(last)
           produced == [i \in DOMAIN batch |-> Produced(batch[i], source)]
           first    == IF bare THEN <<AddReconciliationAnchor(last)>> ELSE <<>>
<1>1. source \in NodeId /\ AddReconciliationAnchor(last) \in Mutation
  BY AnchorsTyped
<1>2. produced \in Seq(Mutation)
  <2> HIDE DEF source
  <2>1. \A i \in DOMAIN batch : Produced(batch[i], source) \in Mutation
    BY <1>1, ProducedTyped
  <2> QED BY <2>1
<1>3. first \in Seq(Mutation)
  BY <1>1
<1>4. CommitObserved(first \o produced, last)
  BY DEF Reconcile
<1> HIDE DEF first, produced
<1>5. first \o produced \in Seq(Mutation)
  BY <1>2, <1>3
<1> QED BY <1>4, <1>5

(* Reports are about commands of the session.                              *)
LEMMA NumbersReported ==
  ASSUME BatchIndInv, NEW n \in 1..last, NEW batch \in Deltas[n]
  PROVE  batch \in Seq(Mutation) /\ n \in SequenceNo /\ last \in SequenceNo
<1>1. last \in SequenceNo
  BY DEF BatchIndInv, TypeOK
<1>2. n \in SequenceNo
  BY <1>1, BoundsAssumption DEF SequenceNo
<1> QED BY <1>1, <1>2, StagedAssumption

(* A reconciliation follows a command.                                     *)
LEMMA ReconcileFollows ==
  ASSUME BatchIndInv, NEW batch, Reconcile(batch)
  PROVE  last \in 1..last
<1>1. PICK full : CommitObserved(full, last)
  BY DEF Reconcile
<1>2. 0 < last
  BY <1>1 DEF CommitObserved
<1> QED BY <1>2 DEF BatchIndInv, TypeOK, SequenceNo

(* Both kinds of report.                                                   *)
LEMMA ReportsKeep ==
  ASSUME BatchIndInv, NEW n \in 1..last, NEW batch \in Deltas[n],
         ApplyShellStateDelta(batch, n) \/ (n = last /\ Reconcile(batch))
  PROVE  BatchIndInv'
<1>1. batch \in Seq(Mutation) /\ n \in SequenceNo /\ last \in SequenceNo
  BY NumbersReported
<1>2. CASE ApplyShellStateDelta(batch, n)
  BY <1>1, <1>2, CommitObservedKeeps DEF ApplyShellStateDelta
<1>3. CASE n = last /\ Reconcile(batch)
  BY <1>1, <1>3, ReportTyped, CommitObservedKeeps
<1> QED BY <1>2, <1>3

(* A mutation of a valid batch writes what was not there, what was there,  *)
(* or an artifact over an artifact.                                        *)
LEMMA AppliedOver ==
  ASSUME BatchIndInv, phase = "applying", Writes(pending[pos])
  PROVE  LET m == pending[pos] IN
         /\ m.op = "replace" => graph.nodes[m.id] \in Artifact /\ m.content \in Artifact
         /\ m.op # "replace" => graph.nodes[m.id] \in {NoNode, m.content}
<1> DEFINE m == pending[pos]
<1>1. /\ pos \in 1..Len(pending) /\ pending \in Seq(Mutation)
      /\ Valid(Start, {}, pending, Source(pending, anchor)) /\ NodesApplied(pos - 1)
  BY DEF BatchIndInv, BatchInv, TypeOK
<1>2. m \in Mutation /\ pos \in DOMAIN pending
  BY <1>1
<1>3. m.id \in NodeId /\ (m.op = "replace" => m.content \in Artifact)
  BY <1>2, MutationFields
<1>4. NodeIsValid(Start, {}, pending, pos)
  BY <1>1, <1>2 DEF Valid
<1>5. View(Start, pending, pos - 1, m.id) = graph.nodes[m.id]
  BY <1>1, <1>3 DEF NodesApplied
<1> QED BY <1>3, <1>4, <1>5 DEF NodeIsValid

(* One mutation's nodes are in.                                            *)
LEMMA AppliedGraph ==
  ASSUME BatchIndInv, phase = "applying"
  PROVE  LET m == pending[pos]
             g == Applied(graph, m) IN
         /\ g \in Graph /\ Restorable(g)
         /\ \A id \in NodeId :
              g.nodes[id] = IF Writes(m) /\ m.id = id THEN m.content ELSE graph.nodes[id]
<1> DEFINE m == pending[pos]
           g == Applied(graph, m)
<1>1. /\ pos \in 1..Len(pending) /\ pending \in Seq(Mutation) /\ graph \in Graph
      /\ Valid(Start, {}, pending, Source(pending, anchor)) /\ NodesApplied(pos - 1)
      /\ Restorable(graph)
  BY DEF BatchIndInv, BatchInv, RestoreInv, TypeOK
<1>2. m \in Mutation /\ pos \in DOMAIN pending
  BY <1>1
<1>3. graph.nodes \in [NodeId -> Content \union {NoNode}]
  BY <1>1 DEF Graph
<1>4. CASE ~Writes(m)
  <2>1. g = graph
    BY <1>4 DEF Applied
  <2> HIDE DEF m, g
  <2> QED BY <1>1, <1>4, <2>1 DEF g, m
<1>5. CASE Writes(m)
  <2>1. m.id \in NodeId /\ m.content \in Content /\ (m.op = "replace" => m.content \in Artifact)
    BY <1>2, <1>5, MutationFields
  <2>2. /\ m.op = "replace" => graph.nodes[m.id] \in Artifact
        /\ m.op # "replace" => graph.nodes[m.id] \in {NoNode, m.content}
    BY <1>5, AppliedOver
  <2> HIDE DEF m
  <2>3. CASE m.op = "replace" \/ graph.nodes[m.id] = NoNode
    <3>1. g = AddNode(graph, m.id, m.content)
      BY <1>5, <2>3 DEF Applied
    <3>2. g \in Graph /\ g.nodes = [graph.nodes EXCEPT ![m.id] = m.content]
      BY <1>1, <2>1, <3>1, AddNodeTyped
    <3>3. Restorable(g)
      BY <1>1, <2>1, <2>2, <2>3, <3>1, AddNodeRestorable
    <3> HIDE DEF g
    <3>4. \A id \in NodeId :
            g.nodes[id] = IF Writes(m) /\ m.id = id THEN m.content ELSE graph.nodes[id]
      BY <1>3, <1>5, <3>2
    <3> QED BY <3>2, <3>3, <3>4 DEF g, m
  <2>4. CASE m.op # "replace" /\ graph.nodes[m.id] # NoNode
    <3>1. g = graph
      BY <2>4 DEF Applied
    <3>2. graph.nodes[m.id] = m.content
      BY <2>2, <2>4
    <3> HIDE DEF g
    <3> QED BY <1>1, <3>1, <3>2 DEF g, m
  <2> QED BY <2>3, <2>4
<1> QED BY <1>4, <1>5

(* After the i-th mutation's nodes, those of the first i are in.           *)
LEMMA ApplyNodesKeeps ==
  ASSUME BatchIndInv, ApplyNodes
  PROVE  BatchIndInv'
<1> DEFINE m == pending[pos]
<1>1. /\ phase = "applying" /\ graph' = Applied(graph, m)
      /\ UNCHANGED <<base, last, number, pending, anchor>>
      /\ IF pos < Len(pending) THEN phase' = phase /\ pos' = pos + 1
                               ELSE phase' = "linking" /\ pos' = 1
  BY DEF ApplyNodes, inHand
<1>2. /\ pos \in 1..Len(pending) /\ pending \in Seq(Mutation)
      /\ Valid(Start, {}, pending, Source(pending, anchor)) /\ NodesApplied(pos - 1)
  BY <1>1 DEF BatchIndInv, BatchInv, TypeOK
<1>3. /\ graph' \in Graph /\ Restorable(graph')
      /\ \A id \in NodeId :
           graph'.nodes[id] = IF Writes(m) /\ m.id = id THEN m.content ELSE graph.nodes[id]
  BY <1>1, AppliedGraph
<1>4. m \in Mutation /\ (Writes(m) => m.id \in NodeId /\ m.content # NoNode)
  BY <1>2, MutationFields, NonesAssumption
<1>5. Start' = Start
  BY <1>1 DEF Start
<1> PICK n \in Nat : n = pos
  BY <1>2
<1>6. NodesApplied(n)'
  <2>1. \A id \in NodeId : graph'.nodes[id] = View(Start, pending, pos, id)
    BY <1>2, <1>3, ViewStep DEF NodesApplied
  <2>2. \A id \in NodeId : graph.nodes[id] # NoNode => graph'.nodes[id] # NoNode
    BY <1>3, <1>4
  <2>3. ASSUME NEW j \in 1..pos, Writes(pending[j])
        PROVE  graph'.nodes[pending[j].id] # NoNode
    <3>1. pending[j] \in Mutation
      BY <1>2
    <3>2. pending[j].id \in NodeId
      BY <2>3, <3>1, MutationFields
    <3>3. CASE j = pos
      BY <1>3, <1>4, <2>3, <3>3
    <3>4. CASE j # pos
      <4>1. j \in 1..(pos - 1)
        BY <1>2, <3>4
      <4> QED BY <1>2, <2>2, <2>3, <3>2, <4>1 DEF NodesApplied
    <3> QED BY <3>3, <3>4
  <2>4. \A id \in NodeId : Start[id] # NoNode => graph'.nodes[id] # NoNode
    BY <1>2, <2>2 DEF NodesApplied
  <2>5. \A j \in 1..pos : Writes(pending[j]) => graph'.nodes[pending[j].id] # NoNode
    BY <2>3
  <2> HIDE DEF m
  <2> QED BY <1>1, <1>5, <2>1, <2>4, <2>5 DEF NodesApplied
<1> HIDE DEF m
<1>7. CASE pos < Len(pending)
  <2>1. phase' = "applying" /\ pos' = pos + 1 /\ pos' - 1 = pos /\ pos' \in 1..Len(pending')
    BY <1>1, <1>2, <1>7
  <2>2. NodesApplied(pos - 1)'
    BY <1>6, <2>1 DEF NodesApplied
  <2>3. BatchInv'
    BY <1>1, <1>2, <1>5, <2>1, <2>2 DEF BatchInv
  <2>4. TypeOK'
    BY <1>1, <1>2, <1>3, <2>1 DEF BatchIndInv, TypeOK
  <2> QED BY <1>1, <1>3, <2>1, <2>3, <2>4 DEF BatchIndInv, BaseInv, HandInv, RestoreInv
<1>8. CASE ~(pos < Len(pending))
  <2>1. phase' = "linking" /\ pos' = 1 /\ pos = Len(pending') /\ pos' \in 1..Len(pending')
    BY <1>1, <1>2, <1>8
  <2>2. NodesApplied(Len(pending))'
    BY <1>1, <1>6, <2>1 DEF NodesApplied
  <2>3. BatchInv'
    BY <1>1, <1>2, <1>5, <2>1, <2>2 DEF BatchInv
  <2>4. TypeOK'
    BY <1>1, <1>2, <1>3, <2>1 DEF BatchIndInv, TypeOK
  <2> QED BY <1>1, <1>3, <2>1, <2>3, <2>4 DEF BatchIndInv, BaseInv, HandInv, RestoreInv
<1> QED BY <1>7, <1>8

(* Every edge of a valid batch finds its ends.                             *)
LEMMA EdgesLink ==
  ASSUME BatchIndInv, phase = "linking", HasEdge(pending[pos])
  PROVE  LET edge == EdgeOf(pending[pos], Source(pending, anchor)) IN
         edge \in Edge /\ Linkable(graph, edge)
<1> DEFINE edge == EdgeOf(pending[pos], Source(pending, anchor))
<1>1. /\ pos \in 1..Len(pending) /\ pending \in Seq(Mutation) /\ anchor \in NodeId
      /\ Valid(Start, {}, pending, Source(pending, anchor)) /\ NodesApplied(Len(pending))
  BY DEF BatchIndInv, BatchInv, TypeOK
<1>2. pos \in DOMAIN pending /\ pending[pos] \in Mutation
  BY <1>1
<1>3. edge \in Edge
  BY <1>1, <1>2, SourceTyped, EdgeTyped
<1>4. EdgeIsValid(Start, {}, pending, edge)
  BY <1>1, <1>2 DEF Valid
<1> HIDE DEF edge
<1>5. \A id \in NodeId : Exists(Start, {}, pending, id) => graph.nodes[id] # NoNode
  BY <1>1 DEF Exists, NodesApplied, Writers
<1>6. edge \in Edge /\ Linkable(graph, edge)
  BY <1>3, <1>4, <1>5 DEF EdgeIsValid, Linkable, Edge
<1> QED BY <1>6 DEF edge

(* Edges change no node.                                                   *)
LEMMA ApplyEdgesKeeps ==
  ASSUME BatchIndInv, ApplyEdges
  PROVE  BatchIndInv'
<1> DEFINE m    == pending[pos]
           edge == EdgeOf(m, Source(pending, anchor))
<1>1. phase = "linking" /\ (HasEdge(m) => edge \in Edge /\ Linkable(graph, edge))
  BY EdgesLink DEF ApplyEdges
<1>2. /\ graph' = IF HasEdge(m) THEN AddEdge(graph, edge) ELSE graph
      /\ phase' = IF pos < Len(pending) THEN phase ELSE "committed"
      /\ pos' = IF pos = Len(pending) THEN pos ELSE pos + 1
      /\ UNCHANGED <<base, last, number, pending, anchor>>
  BY <1>1 DEF ApplyEdges, inHand
<1>3. /\ pos \in 1..Len(pending) /\ pending \in Seq(Mutation) /\ graph \in Graph
      /\ Valid(Start, {}, pending, Source(pending, anchor)) /\ NodesApplied(Len(pending))
      /\ Restorable(graph)
  BY <1>1 DEF BatchIndInv, BatchInv, RestoreInv, TypeOK
<1> HIDE DEF m, edge
<1>4. graph' \in Graph /\ graph'.nodes = graph.nodes /\ Restorable(graph')
  BY <1>1, <1>2, <1>3, AddEdgeTyped, AddEdgeRestorable
<1>5. Start' = Start
  BY <1>2 DEF Start
<1>6. pos' \in 1..Len(pending') /\ pos' \in 1..(Len(pending') + 1)
  BY <1>2, <1>3
<1>7. TypeOK'
  BY <1>1, <1>2, <1>4, <1>6 DEF BatchIndInv, TypeOK
<1>8. BatchInv'
  BY <1>1, <1>2, <1>3, <1>4, <1>5, <1>6 DEF BatchInv, NodesApplied
<1> QED BY <1>1, <1>2, <1>4, <1>7, <1>8 DEF BatchIndInv, BaseInv, HandInv, RestoreInv

(* A graph restored from a snapshot is one a restart finds the same.       *)
LEMMA RestartKeeps ==
  ASSUME BatchIndInv, Restart
  PROVE  BatchIndInv'
<1>1. last \in SequenceNo /\ base \in Graph /\ Restorable(base)
  BY DEF BatchIndInv, TypeOK, RestoreInv
<1>2. graph' = FromSnapshot(base.nodes, base.edges) /\ base' = graph' /\ Settle(last)
  BY DEF Restart
<1>3. graph' \in Graph
  BY <1>1, <1>2, FromSnapshotTyped
<1>4. Restorable(graph')
  BY <1>1, <1>2 DEF Restorable, FromSnapshot, Linkable
<1> QED BY <1>1, <1>2, <1>3, <1>4, SettleKeeps

-----------------------------------------------------------------------------
(* The invariant holds of every reachable state (mutation.rs:255-283,      *)
(* state.rs:90-185).                                                       *)
THEOREM BatchCorrect == Spec => []BatchIndInv
<1>1. BatchIndInv /\ [Next]_vars => BatchIndInv'
  <2> SUFFICES ASSUME BatchIndInv, [Next]_vars PROVE BatchIndInv'
    OBVIOUS
  <2>1. ASSUME NEW commands \in Parsed[last], StartCheck(commands) PROVE BatchIndInv'
    BY <2>1, StartCheckKeeps
  <2>2. ASSUME NEW m \in Staged[number], StageMutation(m) PROVE BatchIndInv'
    BY <2>2, StageMutationKeeps
  <2>3. CASE ObserveRequest
    <3>1. number \in SequenceNo /\ Settle(number) /\ graph = base /\ graph' = graph /\ base' = base
      BY <2>3 DEF ObserveRequest, BatchIndInv, TypeOK, BaseInv
    <3>2. graph' \in Graph /\ Restorable(graph') /\ base' = graph'
      BY <3>1 DEF BatchIndInv, TypeOK, RestoreInv
    <3> QED BY <3>1, <3>2, SettleKeeps
  <2>4. CASE CommitAllowedRequest
    BY <2>4, CommitAllowedRequestKeeps
  <2>5. ASSUME NEW n \in 1..last, NEW batch \in Deltas[n], ApplyShellStateDelta(batch, n)
        PROVE  BatchIndInv'
    BY <2>5, ReportsKeep
  <2>6. ASSUME NEW batch \in Deltas[last], Reconcile(batch)
        PROVE  BatchIndInv'
    BY <2>6, ReconcileFollows, ReportsKeep
  <2>7. CASE ApplyNodes
    BY <2>7, ApplyNodesKeeps
  <2>8. CASE ApplyEdges
    BY <2>8, ApplyEdgesKeeps
  <2>9. CASE Finish
    <3>1. PICK n \in SequenceNo : Settle(n) /\ graph' = graph /\ base' = graph
      BY <2>9 DEF Finish, BatchIndInv, TypeOK
    <3>2. graph' \in Graph /\ Restorable(graph') /\ base' = graph'
      BY <3>1 DEF BatchIndInv, TypeOK, RestoreInv
    <3> QED BY <3>1, <3>2, SettleKeeps
  <2>10. CASE Restart
    BY <2>10, RestartKeeps
  <2>11. CASE UNCHANGED vars
    <3>1. Start' = Start /\ \A i : NodesApplied(i)' <=> NodesApplied(i)
      BY <2>11 DEF vars, Start, NodesApplied
    <3> QED BY <2>11, <3>1
            DEF vars, BatchIndInv, TypeOK, BaseInv, HandInv, BatchInv, RestoreInv
  <2> QED BY <2>1, <2>2, <2>3, <2>4, <2>5, <2>6, <2>7, <2>8, <2>9, <2>10, <2>11 DEF Next
<1> QED BY InitKeeps, <1>1, PTL DEF Spec

(* Every variable keeps its type.                                          *)
THEOREM BatchTypeCorrect == Spec => []TypeOK
<1>1. BatchIndInv => TypeOK
  BY DEF BatchIndInv
<1> QED BY <1>1, BatchCorrect, PTL

(* A batch that is refused has changed nothing (mutation.rs:255-283).      *)
THEOREM FailedCommitLeavesGraphHolds == Spec => []FailedCommitLeavesGraph
<1>1. BatchIndInv => FailedCommitLeavesGraph
  BY DEF BatchIndInv, BaseInv, FailedCommitLeavesGraph
<1> QED BY <1>1, BatchCorrect, PTL

(* With the nodes in, the graph holds what the passes were shown.          *)
LEMMA NodesCommitted == BatchIndInv => StagedNodesAreCommitted
<1> SUFFICES ASSUME BatchIndInv, phase \in {"linking", "committed"}, NEW id \in NodeId
             PROVE  graph.nodes[id] = View(base.nodes, pending, Len(pending), id)
  BY DEF StagedNodesAreCommitted
<1>1. graph.nodes[id] = View(Start, pending, Len(pending), id)
  BY DEF BatchIndInv, BatchInv, NodesApplied
<1>2. Start[id] = base.nodes[id] \/ Writers(pending, Len(pending), id) # {}
  <2>1. CASE ~(number > last)
    BY <2>1 DEF Start
  <2>2. CASE number > last /\ id # anchor
    <3>1. base.nodes \in [NodeId -> Content \union {NoNode}]
      BY DEF BatchIndInv, TypeOK, Graph
    <3> QED BY <2>2, <3>1 DEF Start
  <2>3. CASE number > last /\ id = anchor
    <3>1. Len(pending) > 0 /\ pending[1] = AddRequestAnchor(number) /\ anchor = RequestId(number)
      BY <2>3 DEF BatchIndInv, HandInv
    <3>2. Len(pending) \in Nat
      BY DEF BatchIndInv, TypeOK
    <3>3. 1 \in Writers(pending, Len(pending), id)
      BY <2>3, <3>1, <3>2 DEF Writers, Writes, AddRequestAnchor
    <3> QED BY <3>3
  <2> QED BY <2>1, <2>2, <2>3
<1> QED BY <1>1, <1>2, ViewOver

(* The graph holds what the passes were shown (staged.rs:68-100).          *)
THEOREM StagedNodesAreCommittedHolds == Spec => []StagedNodesAreCommitted
BY NodesCommitted, BatchCorrect, PTL

(* A restart finds the graph, its edges and all its lookups                *)
(* (graph.rs:195-235).                                                     *)
THEOREM GraphCanBeRestoredHolds == Spec => []GraphCanBeRestored
<1>1. BatchIndInv => GraphCanBeRestored
  BY DEF BatchIndInv, RestoreInv, Restorable, GraphCanBeRestored, FromSnapshot
<1> QED BY <1>1, BatchCorrect, PTL

-----------------------------------------------------------------------------
(* The lookups of semantics, and the edges.                                *)

(* What the code makes is proper (extract_execution_semantics.rs:43-61).   *)
LEMMA MadeProper ==
  ASSUME NEW m \in Made
  PROVE  Proper(m)
<1>1. \A x \in Semantics : x \in Made /\ Describes(x)
  BY DEF Semantics
<1>2. \A x \in Semantics : x.edge # NoEdge /\ x.edge.to = x.id
  BY <1>1, SemanticsAssumption
<1> QED BY <1>1, <1>2, SemanticsAssumption DEF Proper, HasEdge

(* A proper mutation that writes an id of semantics, or has an edge that   *)
(* could number them, has their only such edge.                            *)
LEMMA ProperEdge ==
  ASSUME NEW m, Proper(m), NEW x \in Semantics
  PROVE  /\ x.edge # NoEdge /\ x.edge.kind = "Defines" /\ x.edge.to = x.id
         /\ x.edge.from # Implicit
         /\ Writes(m) /\ m.id = x.id => m \in Semantics /\ m.edge = x.edge
         /\ HasEdge(m) /\ m.edge.kind = "Defines" /\ m.edge.to = x.id =>
              Writes(m) /\ m.id = x.id /\ m.edge = x.edge
<1>1. x \in Made /\ Describes(x)
  BY DEF Semantics
<1>2. /\ x.edge # NoEdge /\ x.edge.kind = "Defines" /\ x.edge.to = x.id
      /\ x.edge.from # Implicit
  BY <1>1, SemanticsAssumption
<1>3. ASSUME Writes(m), m.id = x.id
      PROVE  m \in Semantics /\ m.edge = x.edge
  <2>1. Describes(m) /\ m \in Made
    BY <1>3 DEF Proper
  <2> QED BY <1>1, <1>3, <2>1, SemanticsAssumption DEF Semantics
<1>4. ASSUME HasEdge(m), m.edge.kind = "Defines", m.edge.to = x.id
      PROVE  Writes(m) /\ m.id = x.id /\ m.edge = x.edge
  <2>1. Describes(m) /\ m \in Made
    BY <1>4 DEF Proper
  <2>2. Writes(m) /\ m.id = x.id
    BY <1>4, <2>1, SemanticsAssumption DEF Describes
  <2> QED BY <1>3, <2>2
<1> QED BY <1>2, <1>3, <1>4

(* What a report is made into describes no unit that it did not.           *)
LEMMA ProducedProper ==
  ASSUME NEW m \in Mutation, m \in Made, NEW source \in NodeId
  PROVE  Proper(Produced(m, source))
<1> DEFINE p == Produced(m, source)
<1>1. Proper(m)
  BY MadeProper
<1>2. CASE ~IsProvenance(m)
  BY <1>1, <1>2 DEF Produced
<1>3. CASE IsProvenance(m)
  <2>1. m.op = "fact" /\ m.content \in Artifact /\ m.edge # NoEdge
    BY <1>3 DEF IsProvenance, HasEdge
  <2>2. m \in [op : {"fact"}, id : NodeId, content : Content, edge : StagedEdge \union {NoEdge}]
    BY <2>1 DEF Mutation, Anchoring
  <2>3. m.edge \in StagedEdge
    BY <2>1, <2>2
  <2>4. p.id = m.id /\ p.content = m.content /\ Writes(p) /\ Writes(m)
    BY <1>3, <2>1, <2>2, <2>3 DEF Produced, Writes
  <2>5. p.edge # NoEdge => p.edge.kind = m.edge.kind /\ p.edge.to = m.edge.to
    BY <1>3, <2>1, <2>2, <2>3 DEF Produced, StagedEdge
  <2>6. ~Describes(m) /\ ~Describes(p)
    BY <2>1, <2>4 DEF Describes, Artifact
  <2> HIDE DEF p
  <2>7. Proper(p)
    BY <1>1, <2>1, <2>4, <2>5, <2>6 DEF Proper, HasEdge
  <2> QED BY <2>7 DEF p
<1> QED BY <1>2, <1>3

(* The edges of the mutations, one by one.                                 *)
LEMMA LinksStep ==
  ASSUME NEW i \in Nat \ {0}
  PROVE  Links(i) = Links(i - 1) \union
           (IF HasEdge(pending[i]) THEN {EdgeOf(pending[i], Source(pending, anchor))} ELSE {})
<1>1. 1..i = (1..(i - 1)) \union {i}
  OBVIOUS
<1> QED BY <1>1 DEF Links

(* A graph in which nothing happens to nodes and edges stays numbered, and *)
(* so does one that gets a node without semantics.                         *)
LEMMA NumberedKept ==
  ASSUME NEW g, NEW h, Numbered(g), EdgesIn(h) = EdgesIn(g),
         \A id \in NodeId : IsSemantics(h.nodes, id) =>
           IsSemantics(g.nodes, id) \/ \E x \in Semantics : x.id = id
  PROVE  Numbered(h)
BY DEF Numbered

(* With nothing in hand.                                                   *)
LEMMA SettleLookups ==
  ASSUME NEW n, Settle(n), Numbered(graph'), Numbered(base')
  PROVE  LookupIndInv'
<1>1. ProperInv'
  BY DEF Settle, ProperInv
<1> QED BY <1>1 DEF Settle, LookupIndInv, KeptInv, EdgesInv

(* The commit of a request.                                                *)
LEMMA CommitAllowedRequestLookups ==
  ASSUME BatchIndInv, LookupIndInv, CommitAllowedRequest
  PROVE  LookupIndInv'
<1> DEFINE anchored == AddNode(graph, anchor, RequestNode(number))
<1>1. /\ phase = "checking" /\ graph = base /\ graph \in Graph
      /\ number \in SequenceNo /\ anchor \in NodeId
  BY DEF BatchIndInv, TypeOK, BaseInv, CommitAllowedRequest
<1>2. RequestNode(number) \in Content /\ RequestNode(number).kind = "request"
  BY <1>1, AnchorsTyped DEF RequestNode
<1>3. /\ anchored.nodes = [graph.nodes EXCEPT ![anchor] = RequestNode(number)]
      /\ anchored.edges = graph.edges
  BY DEF AddNode
<1>4. /\ UNCHANGED <<base, pending, anchor, number, last, pos>>
      /\ \/ phase' = "failed" /\ graph' \in {graph, anchored}
         \/ phase' = "applying" /\ graph' = anchored /\ graph.nodes[anchor] = NoNode
  BY DEF CommitAllowedRequest, inHand
<1> HIDE DEF anchored
<1>5. graph.nodes \in [NodeId -> Content \union {NoNode}]
  BY <1>1 DEF Graph
<1>6. Numbered(anchored)
  <2>1. EdgesIn(anchored) = EdgesIn(graph)
    BY <1>3 DEF EdgesIn
  <2>2. \A id \in NodeId : IsSemantics(anchored.nodes, id) => IsSemantics(graph.nodes, id)
    BY <1>2, <1>3, <1>5 DEF IsSemantics
  <2> QED BY <2>1, <2>2, NumberedKept DEF LookupIndInv
<1>7. KeptInv'
  BY <1>1, <1>3, <1>4, <1>5 DEF KeptInv
<1>8. EdgesInv'
  BY <1>1, <1>3, <1>4 DEF EdgesInv
<1> QED BY <1>4, <1>6, <1>7, <1>8 DEF LookupIndInv, ProperInv

(* The commit of a report.                                                 *)
LEMMA CommitObservedLookups ==
  ASSUME BatchIndInv, LookupIndInv, NEW batch \in Seq(Mutation), NEW n \in SequenceNo,
         CommitObserved(batch, n), \A i \in DOMAIN batch : Proper(batch[i])
  PROVE  LookupIndInv'
<1>1. phase = "idle" /\ graph = base
  BY DEF BatchIndInv, BaseInv, CommitObserved
<1>2. /\ pending' = batch /\ phase' \in {"failed", "committed", "applying"}
      /\ phase' = "committed" => \A i \in DOMAIN batch : ~TouchesGraph(batch[i])
      /\ UNCHANGED <<graph, base, last, pos>>
  BY DEF CommitObserved
<1>3. phase' = "committed" => Links(Len(pending))' = {}
  <2> SUFFICES ASSUME phase' = "committed" PROVE Links(Len(pending))' = {}
    OBVIOUS
  <2>1. \A i \in 1..Len(batch) : batch[i] \in Mutation /\ batch[i].op = "summary"
    BY <1>2 DEF TouchesGraph
  <2>2. \A i \in 1..Len(batch) : ~HasEdge(batch[i])
    BY <2>1 DEF Mutation, HasEdge, Anchoring
  <2> QED BY <1>2, <2>2 DEF Links
<1>4. EdgesInv'
  BY <1>1, <1>2, <1>3 DEF EdgesInv, EdgesIn
<1> QED BY <1>1, <1>2, <1>4 DEF LookupIndInv, KeptInv, ProperInv, Numbered, EdgesIn

(* Both kinds of report.                                                   *)
LEMMA ReportsLookups ==
  ASSUME BatchIndInv, LookupIndInv, NEW n \in 1..last, NEW batch \in Deltas[n],
         ApplyShellStateDelta(batch, n) \/ (n = last /\ Reconcile(batch))
  PROVE  LookupIndInv'
<1>1. batch \in Seq(Mutation) /\ n \in SequenceNo /\ last \in SequenceNo
  BY NumbersReported
<1>2. \A i \in DOMAIN batch : batch[i] \in Made
  BY <1>1 DEF Made
<1>3. CASE ApplyShellStateDelta(batch, n)
  BY <1>1, <1>2, <1>3, MadeProper, CommitObservedLookups DEF ApplyShellStateDelta
<1>4. CASE n = last /\ Reconcile(batch)
  <2> DEFINE bare     == graph.nodes[RequestId(last)] = NoNode
             source   == IF bare THEN ReconciliationId(last) ELSE RequestId(last)
             produced == [i \in DOMAIN batch |-> Produced(batch[i], source)]
             first    == IF bare THEN <<AddReconciliationAnchor(last)>> ELSE <<>>
  <2>1. source \in NodeId /\ AddReconciliationAnchor(last) \in Mutation
    BY <1>1, AnchorsTyped
  <2>2. produced \in Seq(Mutation) /\ \A i \in DOMAIN produced : Proper(produced[i])
    <3> HIDE DEF source
    <3>1. \A i \in DOMAIN batch : /\ Produced(batch[i], source) \in Mutation
                                  /\ Proper(Produced(batch[i], source))
      BY <1>1, <1>2, <2>1, ProducedTyped, ProducedProper
    <3> QED BY <1>1, <3>1
  <2>3. first \in Seq(Mutation) /\ \A i \in DOMAIN first : Proper(first[i])
    <3>1. AddReconciliationAnchor(last) \in Made
      BY <1>1 DEF Made
    <3> QED BY <2>1, <3>1, MadeProper
  <2>4. CommitObserved(first \o produced, last)
    BY <1>4 DEF Reconcile
  <2> HIDE DEF first, produced
  <2>5. first \o produced \in Seq(Mutation)
    BY <2>2, <2>3
  <2>6. \A i \in DOMAIN (first \o produced) : Proper((first \o produced)[i])
    BY <2>2, <2>3
  <2> QED BY <1>1, <2>4, <2>5, <2>6, CommitObservedLookups
<1> QED BY <1>3, <1>4

(* A node of the batch.                                                    *)
LEMMA ApplyNodesLookups ==
  ASSUME BatchIndInv, LookupIndInv, ApplyNodes
  PROVE  LookupIndInv'
<1> DEFINE m == pending[pos]
<1>1. /\ phase = "applying" /\ graph' = Applied(graph, m)
      /\ UNCHANGED <<base, last, number, pending, anchor>>
      /\ phase' = "applying" \/ (phase' = "linking" /\ pos' = 1)
  BY DEF ApplyNodes, inHand
<1>2. pos \in DOMAIN pending /\ pending \in Seq(Mutation)
  BY <1>1 DEF BatchIndInv, BatchInv, TypeOK
<1>3. /\ \A id \in NodeId :
           graph'.nodes[id] = IF Writes(m) /\ m.id = id THEN m.content ELSE graph.nodes[id]
      /\ graph'.edges = graph.edges
  BY <1>1, AppliedGraph DEF Applied, AddNode
<1>4. Writes(m) => /\ m.content # NoNode
                   /\ \/ graph.nodes[m.id] \in {NoNode, m.content}
                      \/ {graph.nodes[m.id], m.content} \subseteq Artifact
  BY <1>1, <1>2, AppliedOver, MutationFields, NonesAssumption
<1>5. Proper(m)
  BY <1>2 DEF LookupIndInv, ProperInv
<1> HIDE DEF m
<1>6. KeptInv'
  <2>1. NoNode \notin Artifact
    BY NonesAssumption DEF Artifact, Content, Kind
  <2>2. \A id \in NodeId : base.nodes[id] # NoNode =>
          graph.nodes[id] = base.nodes[id] \/ {graph.nodes[id], base.nodes[id]} \subseteq Artifact
    BY <1>1 DEF LookupIndInv, KeptInv
  <2>3. ASSUME NEW id \in NodeId, base.nodes[id] # NoNode
        PROVE  \/ graph'.nodes[id] = base.nodes[id]
               \/ {graph'.nodes[id], base.nodes[id]} \subseteq Artifact
    BY <1>3, <1>4, <2>1, <2>2, <2>3
  <2> QED BY <1>1, <2>3 DEF KeptInv
<1>7. Links(0) = {}
  BY DEF Links
<1>8. EdgesInv'
  BY <1>1, <1>3, <1>7 DEF LookupIndInv, EdgesInv, EdgesIn, Links
<1>9. Numbered(graph')
  <2>1. EdgesIn(graph') = EdgesIn(graph)
    BY <1>3 DEF EdgesIn
  <2>2. ASSUME NEW id \in NodeId, IsSemantics(graph'.nodes, id)
        PROVE  IsSemantics(graph.nodes, id) \/ \E x \in Semantics : x.id = id
    <3>1. CASE Writes(m) /\ m.id = id
      BY <1>3, <1>5, <2>2, <3>1 DEF IsSemantics, Describes, Semantics, Proper
    <3>2. CASE ~(Writes(m) /\ m.id = id)
      BY <1>3, <2>2, <3>2 DEF IsSemantics
    <3> QED BY <3>1, <3>2
  <2> QED BY <2>1, <2>2, NumberedKept DEF LookupIndInv
<1> QED BY <1>1, <1>6, <1>8, <1>9 DEF LookupIndInv, ProperInv

(* An edge of the batch.                                                   *)
LEMMA ApplyEdgesLookups ==
  ASSUME BatchIndInv, LookupIndInv, ApplyEdges
  PROVE  LookupIndInv'
<1> DEFINE m    == pending[pos]
           edge == EdgeOf(m, Source(pending, anchor))
<1>1. phase = "linking" /\ (HasEdge(m) => edge \in Edge /\ Linkable(graph, edge))
  BY EdgesLink DEF ApplyEdges
<1>2. /\ graph' = IF HasEdge(m) THEN AddEdge(graph, edge) ELSE graph
      /\ phase' = IF pos < Len(pending) THEN phase ELSE "committed"
      /\ pos' = IF pos = Len(pending) THEN pos ELSE pos + 1
      /\ UNCHANGED <<base, last, number, pending, anchor>>
  BY <1>1 DEF ApplyEdges, inHand
<1>3. pos \in 1..Len(pending) /\ pending \in Seq(Mutation) /\ graph \in Graph
  BY <1>1 DEF BatchIndInv, BatchInv, TypeOK
<1>4. graph'.nodes = graph.nodes
  BY <1>2 DEF AddEdge
<1>5. EdgesIn(graph') = EdgesIn(graph) \union (IF HasEdge(m) THEN {edge} ELSE {})
  <2>1. CASE HasEdge(m)
    <3>1. graph'.edges = Append(graph.edges, edge) /\ graph.edges \in Seq(Edge) /\ edge \in Edge
      BY <1>1, <1>2, <1>3, <2>1 DEF AddEdge, Graph
    <3> HIDE DEF edge, m
    <3>2. EdgesIn(graph') = EdgesIn(graph) \union {edge}
      BY <3>1 DEF EdgesIn
    <3> QED BY <2>1, <3>2
  <2>2. CASE ~HasEdge(m)
    BY <1>2, <2>2
  <2> QED BY <2>1, <2>2
<1>6. HasEdge(m) => edge.kind = m.edge.kind /\ edge.to = m.edge.to
                      /\ (m.edge.from # Implicit => edge = m.edge)
  <2> SUFFICES ASSUME HasEdge(m)
               PROVE  edge.kind = m.edge.kind /\ edge.to = m.edge.to
                        /\ (m.edge.from # Implicit => edge = m.edge)
    OBVIOUS
  <2>1. m.edge \in StagedEdge
    BY <1>3, MutationFields
  <2> QED BY <2>1 DEF EdgeOf, StagedEdge
<1>7. Links(pos) = Links(pos - 1) \union (IF HasEdge(m) THEN {edge} ELSE {})
  BY <1>3, LinksStep
<1>8. Proper(m)
  BY <1>3 DEF LookupIndInv, ProperInv
<1> HIDE DEF m, edge
<1>9. EdgesIn(graph') = EdgesIn(base) \union Links(pos)
  BY <1>1, <1>5, <1>7 DEF LookupIndInv, EdgesInv
<1>10. \A i : Links(i)' = Links(i)
  BY <1>2 DEF Links
<1>11. EdgesInv'
  <2>1. CASE pos < Len(pending)
    <3>1. phase' = "linking" /\ pos' - 1 = pos
      BY <1>1, <1>2, <1>3, <2>1
    <3> QED BY <1>2, <1>9, <1>10, <3>1 DEF EdgesInv
  <2>2. CASE ~(pos < Len(pending))
    <3>1. phase' = "committed" /\ pos = Len(pending)
      BY <1>2, <1>3, <2>2
    <3> QED BY <1>2, <1>9, <1>10, <3>1 DEF EdgesInv
  <2> QED BY <2>1, <2>2
<1>12. Numbered(graph')
  <2>1. ASSUME NEW x \in Semantics, HasEdge(m), edge.kind = "Defines", edge.to = x.id
        PROVE  edge = x.edge
    BY <1>6, <1>8, <2>1, ProperEdge
  <2> QED BY <1>4, <1>5, <2>1 DEF LookupIndInv, Numbered
<1> QED BY <1>1, <1>2, <1>4, <1>11, <1>12 DEF LookupIndInv, KeptInv, ProperInv

(* Lookups and edges are right in every reachable state.                   *)
THEOREM LookupsCorrect == Spec => []LookupIndInv
<1>1. Init => LookupIndInv
  <2> SUFFICES ASSUME Init PROVE LookupIndInv
    OBVIOUS
  <2>1. Numbered(EmptyGraph)
    BY DEF Numbered, EmptyGraph, EdgesIn, IsSemantics
  <2> QED BY <2>1 DEF Init, LookupIndInv, KeptInv, EdgesInv, ProperInv
<1>2. BatchIndInv /\ LookupIndInv /\ [Next]_vars => LookupIndInv'
  <2> SUFFICES ASSUME BatchIndInv, LookupIndInv, [Next]_vars PROVE LookupIndInv'
    OBVIOUS
  <2>1. ASSUME NEW commands \in Parsed[last], StartCheck(commands) PROVE LookupIndInv'
    <3>1. /\ pending' = <<AddRequestAnchor(last + 1)>> \o commands
          /\ phase' = "checking" /\ UNCHANGED <<graph, base>>
      BY <2>1 DEF StartCheck
    <3>2. last \in SequenceNo /\ last + 1 \in SequenceNo
      BY <2>1, SequenceNumbers DEF BatchIndInv, TypeOK, StartCheck
    <3>3. commands \in Seq(Mutation) /\ \A i \in DOMAIN commands : commands[i] \in Made
      BY <3>2, StagedAssumption DEF Made
    <3>4. AddRequestAnchor(last + 1) \in Made
      BY <3>2 DEF Made
    <3>5. \A i \in DOMAIN pending' : pending'[i] \in Made
      BY <3>1, <3>3, <3>4
    <3> QED BY <3>1, <3>5, MadeProper DEF LookupIndInv, KeptInv, EdgesInv, ProperInv, Numbered, EdgesIn
  <2>2. ASSUME NEW m \in Staged[number], StageMutation(m) PROVE LookupIndInv'
    <3>1. pending' = Append(pending, m) /\ phase' = "checking" /\ UNCHANGED <<graph, base>>
      BY <2>2 DEF StageMutation
    <3>2. number \in SequenceNo /\ pending \in Seq(Mutation)
      BY DEF BatchIndInv, TypeOK
    <3>3. m \in Made /\ Proper(m)
      BY <3>2, MadeProper DEF Made
    <3>4. ProperInv'
      BY <3>1, <3>2, <3>3 DEF LookupIndInv, ProperInv
    <3> QED BY <3>1, <3>4 DEF LookupIndInv, KeptInv, EdgesInv, Numbered, EdgesIn
  <2>3. CASE ObserveRequest
    BY <2>3, SettleLookups DEF ObserveRequest, LookupIndInv, Numbered, EdgesIn
  <2>4. CASE CommitAllowedRequest
    BY <2>4, CommitAllowedRequestLookups
  <2>5. ASSUME NEW n \in 1..last, NEW batch \in Deltas[n], ApplyShellStateDelta(batch, n)
        PROVE  LookupIndInv'
    BY <2>5, ReportsLookups
  <2>6. ASSUME NEW batch \in Deltas[last], Reconcile(batch)
        PROVE  LookupIndInv'
    BY <2>6, ReconcileFollows, ReportsLookups
  <2>7. CASE ApplyNodes
    BY <2>7, ApplyNodesLookups
  <2>8. CASE ApplyEdges
    BY <2>8, ApplyEdgesLookups
  <2>9. CASE Finish
    BY <2>9, SettleLookups DEF Finish, LookupIndInv, Numbered, EdgesIn
  <2>10. CASE Restart
    <3>1. Settle(last) /\ base' = graph' /\ graph'.nodes = base.nodes /\ graph'.edges = base.edges
      BY <2>10 DEF Restart, FromSnapshot
    <3>2. Numbered(graph')
      BY <3>1 DEF LookupIndInv, Numbered, EdgesIn
    <3> QED BY <3>1, <3>2, SettleLookups
  <2>11. CASE UNCHANGED vars
    <3>1. /\ UNCHANGED <<phase, graph, base, pending, anchor, pos>>
          /\ \A i : Links(i)' = Links(i)
      BY <2>11 DEF vars, Links
    <3>2. EdgesInv' /\ KeptInv'
      BY <3>1 DEF LookupIndInv, EdgesInv, KeptInv, EdgesIn
    <3> QED BY <3>1, <3>2 DEF LookupIndInv, ProperInv, Numbered, EdgesIn
  <2> QED BY <2>1, <2>2, <2>3, <2>4, <2>5, <2>6, <2>7, <2>8, <2>9, <2>10, <2>11 DEF Next
<1> QED BY <1>1, <1>2, BatchCorrect, PTL DEF Spec

(* The only edge that can number semantics of a numbered graph.            *)
LEMMA NumberingEdge ==
  ASSUME NEW g, NEW id \in NodeId, Numbered(g), NEW edge, edge.to = id, Numbers(g.nodes, edge)
  PROVE  \E x \in Semantics :
           x.id = id /\ (edge \in EdgesIn(g) => edge = x.edge) /\ edge.kind = "Defines"
<1>1. IsSemantics(g.nodes, id) /\ edge.kind = "Defines"
  BY DEF Numbers
<1>2. PICK x \in Semantics : x.id = id
  BY <1>1 DEF Numbered
<1> QED BY <1>1, <1>2 DEF Numbered

(* An edge of base numbers what it numbers once the batch is in.           *)
LEMMA BaseNumbers ==
  ASSUME BatchIndInv, LookupIndInv, phase = "committed", NEW edge \in EdgesIn(base),
         base.nodes[edge.to] = graph.nodes[edge.to]
  PROVE  /\ Numbers(graph.nodes, edge) <=> Numbers(base.nodes, edge)
         /\ Numbers(base.nodes, edge) =>
              SemanticsKey(graph.nodes, edge) = SemanticsKey(base.nodes, edge)
<1>1. edge \in Edge /\ Linkable(base, edge)
  BY DEF BatchIndInv, TypeOK, RestoreInv, Restorable, EdgesIn, Graph
<1>2. edge.from \in NodeId /\ base.nodes[edge.from] # NoNode
  BY <1>1 DEF Edge, Linkable
<1>3. \/ graph.nodes[edge.from] = base.nodes[edge.from]
      \/ {graph.nodes[edge.from], base.nodes[edge.from]} \subseteq Artifact
  BY <1>2 DEF LookupIndInv, KeptInv
<1>4. \A content \in Artifact : content.kind \notin Unit
  BY DEF Artifact, Unit
<1>5. IsUnit(graph.nodes, edge.from) <=> IsUnit(base.nodes, edge.from)
  BY <1>3, <1>4 DEF IsUnit
<1>6. IsUnit(base.nodes, edge.from) => graph.nodes[edge.from] = base.nodes[edge.from]
  BY <1>3, <1>4 DEF IsUnit
<1> QED BY <1>5, <1>6 DEF Numbers, IsSemantics, SemanticsKey

(* What staged edges number is what the edges of the graph number, for a   *)
(* node the batch writes.                                                  *)
LEMMA StagedNumbers ==
  ASSUME BatchIndInv, LookupIndInv, phase = "committed", NEW id \in NodeId,
         Writers(pending, Len(pending), id) # {}, NEW k
  PROVE  LET numbering == {i \in StagedEdges(pending) :
                             pending[i].edge.to = id /\ Numbers(graph.nodes, pending[i].edge)} IN
         (\E edge \in EdgesIn(graph) : edge.to = id /\ Numbers(graph.nodes, edge)
                                         /\ k = SemanticsKey(graph.nodes, edge))
           <=> numbering # {} /\ k = SemanticsKey(graph.nodes, pending[Min(numbering)].edge)
<1> DEFINE numbering == {i \in StagedEdges(pending) :
                           pending[i].edge.to = id /\ Numbers(graph.nodes, pending[i].edge)}
<1>1. pending \in Seq(Mutation) /\ Numbered(graph) /\ \A i \in DOMAIN pending : Proper(pending[i])
  BY DEF BatchIndInv, TypeOK, LookupIndInv, ProperInv
<1>2. EdgesIn(graph) = EdgesIn(base) \union Links(Len(pending))
  BY DEF LookupIndInv, EdgesInv
<1>3. ASSUME NEW i \in numbering
      PROVE  pending[i].edge \in EdgesIn(graph)
  <2>1. i \in DOMAIN pending /\ HasEdge(pending[i]) /\ pending[i].edge.from # Implicit
    BY DEF StagedEdges
  <2>2. pending[i].edge \in StagedEdge
    BY <1>1, <2>1, MutationFields
  <2>3. EdgeOf(pending[i], Source(pending, anchor)) = pending[i].edge
    BY <2>1, <2>2 DEF EdgeOf, StagedEdge
  <2>4. pending[i].edge \in Links(Len(pending))
    BY <1>1, <2>1, <2>3 DEF Links
  <2> QED BY <1>2, <2>4
<1>4. ASSUME NEW edge \in EdgesIn(graph), edge.to = id, Numbers(graph.nodes, edge)
      PROVE  /\ numbering # {}
             /\ \A i \in numbering : pending[i].edge = edge
  <2>1. PICK x \in Semantics : x.id = id /\ edge = x.edge
    BY <1>1, <1>4, NumberingEdge
  <2>2. PICK j \in 1..Len(pending) : Writes(pending[j]) /\ pending[j].id = id
    BY DEF Writers
  <2>3. j \in DOMAIN pending /\ Proper(pending[j])
    BY <1>1, <2>2
  <2>4. pending[j].edge = x.edge /\ HasEdge(pending[j]) /\ x.edge.from # Implicit
    BY <2>1, <2>2, <2>3, ProperEdge DEF HasEdge
  <2>5. j \in numbering
    BY <1>4, <2>1, <2>3, <2>4 DEF StagedEdges
  <2>6. \A i \in numbering : pending[i].edge = x.edge
    <3>1. \A i \in numbering : pending[i].edge.kind = "Defines"
      BY DEF Numbers
    <3> QED BY <1>1, <1>3, <2>1, <3>1 DEF Numbered
  <2> QED BY <2>1, <2>5, <2>6
<1>5. numbering # {} => Min(numbering) \in numbering
  <2>1. numbering \in SUBSET Nat
    BY <1>1 DEF StagedEdges
  <2> HIDE DEF numbering
  <2> QED BY <2>1, MinIsElement, Zenon
<1>6. \A i \in numbering : pending[i].edge.to = id /\ Numbers(graph.nodes, pending[i].edge)
  OBVIOUS
<1> HIDE DEF numbering
<1>7. (\E edge \in EdgesIn(graph) : edge.to = id /\ Numbers(graph.nodes, edge)
                                      /\ k = SemanticsKey(graph.nodes, edge))
        <=> numbering # {} /\ k = SemanticsKey(graph.nodes, pending[Min(numbering)].edge)
  <2>1. ASSUME NEW edge \in EdgesIn(graph), edge.to = id, Numbers(graph.nodes, edge),
               k = SemanticsKey(graph.nodes, edge)
        PROVE  numbering # {} /\ k = SemanticsKey(graph.nodes, pending[Min(numbering)].edge)
    BY <1>4, <1>5, <2>1
  <2>2. ASSUME numbering # {}, k = SemanticsKey(graph.nodes, pending[Min(numbering)].edge)
        PROVE  \E edge \in EdgesIn(graph) : edge.to = id /\ Numbers(graph.nodes, edge)
                                              /\ k = SemanticsKey(graph.nodes, edge)
    <3>1. Min(numbering) \in numbering
      BY <1>5, <2>2
    <3> QED BY <1>3, <1>6, <2>2, <3>1
  <2> QED BY <2>1, <2>2
<1> QED BY <1>7 DEF numbering

(* What a request was judged by is what later requests find: every lookup  *)
(* of the staged session answers as the graph does once the batch is in    *)
(* (staged.rs:181-232, graph.rs:237-385).                                  *)
THEOREM StagedLookupsAreCommittedHolds == Spec => []StagedLookupsAreCommitted
<1>1. BatchIndInv /\ LookupIndInv => StagedLookupsAreCommitted
  <2> SUFFICES ASSUME BatchIndInv, LookupIndInv, phase = "committed", NEW k \in Key
               PROVE  graph.index[k] = StagedLookup(base, pending, k)
    BY DEF StagedLookupsAreCommitted
  <2> DEFINE overlay == {id \in NodeId : Writers(pending, Len(pending), id) # {}}
             found(g, id) == \/ g.nodes[id] # NoNode /\ k \in KeysOf(g.nodes[id])
                             \/ \E edge \in EdgesIn(g) : edge.to = id /\ Numbers(g.nodes, edge)
                                                           /\ k = SemanticsKey(g.nodes, edge)
  <2>1. /\ graph.nodes \in [NodeId -> Content \union {NoNode}]
        /\ base.nodes \in [NodeId -> Content \union {NoNode}]
        /\ pending \in Seq(Mutation)
    BY DEF BatchIndInv, TypeOK, Graph
  <2>2. /\ \A id \in NodeId : graph.nodes[id] = View(base.nodes, pending, Len(pending), id)
        /\ \A id \in overlay : graph.nodes[id] # NoNode
    <3>1. \A j \in 1..Len(pending) : Writes(pending[j]) => graph.nodes[pending[j].id] # NoNode
      BY DEF BatchIndInv, BatchInv, NodesApplied
    <3> QED BY <3>1, NodesCommitted DEF Writers, StagedNodesAreCommitted
  <2>3. /\ graph.index[k] = {id \in NodeId : found(graph, id)}
        /\ base.index[k] = {id \in NodeId : found(base, id)}
    BY DEF BatchIndInv, RestoreInv, Restorable, Indexed, EdgesIn
  <2>4. ASSUME NEW id \in overlay
        PROVE  found(graph, id) <=> k \in StagedKeysOf(base.nodes, pending, id)
    <3> DEFINE seen      == [x \in NodeId |-> View(base.nodes, pending, Len(pending), x)]
               numbering == {i \in StagedEdges(pending) :
                               pending[i].edge.to = id /\ Numbers(graph.nodes, pending[i].edge)}
    <3>1. seen = graph.nodes
      BY <2>1, <2>2
    <3>2. k \in StagedKeysOf(base.nodes, pending, id) <=>
            \/ k \in KeysOf(graph.nodes[id])
            \/ numbering # {} /\ k = SemanticsKey(graph.nodes, pending[Min(numbering)].edge)
      <4> HIDE DEF seen
      <4> QED BY <3>1 DEF StagedKeysOf, seen
    <3> HIDE DEF numbering
    <3>3. (\E edge \in EdgesIn(graph) : edge.to = id /\ Numbers(graph.nodes, edge)
                                          /\ k = SemanticsKey(graph.nodes, edge))
            <=> numbering # {} /\ k = SemanticsKey(graph.nodes, pending[Min(numbering)].edge)
      BY StagedNumbers DEF numbering
    <3> QED BY <2>2, <3>2, <3>3
  <2>5. ASSUME NEW id \in NodeId \ overlay
        PROVE  found(graph, id) <=> found(base, id)
    <3>1. graph.nodes[id] = base.nodes[id]
      BY <2>2 DEF View
    <3>2. ASSUME NEW edge \in EdgesIn(graph), edge.to = id, Numbers(graph.nodes, edge)
          PROVE  edge \in EdgesIn(base)
      <4>1. PICK x \in Semantics : x.id = id /\ edge = x.edge /\ edge.kind = "Defines"
        BY <3>2, NumberingEdge DEF LookupIndInv
      <4>2. ASSUME NEW j \in 1..Len(pending), HasEdge(pending[j]),
                   edge = EdgeOf(pending[j], Source(pending, anchor))
            PROVE  FALSE
        <5>1. pending[j] \in Mutation /\ Proper(pending[j])
          BY <2>1 DEF LookupIndInv, ProperInv
        <5>2. pending[j].edge.kind = edge.kind /\ pending[j].edge.to = edge.to
          <6>1. pending[j].edge \in StagedEdge
            BY <4>2, <5>1, MutationFields
          <6> QED BY <4>2, <6>1 DEF EdgeOf, StagedEdge
        <5>3. Writes(pending[j]) /\ pending[j].id = id
          BY <3>2, <4>1, <4>2, <5>1, <5>2, ProperEdge
        <5> QED BY <5>3 DEF Writers
      <4>3. edge \notin Links(Len(pending))
        BY <4>2 DEF Links
      <4> QED BY <4>3 DEF LookupIndInv, EdgesInv
    <3>3. EdgesIn(base) \subseteq EdgesIn(graph)
      BY DEF LookupIndInv, EdgesInv
    <3> QED BY <3>1, <3>2, <3>3, BaseNumbers
  <2>6. StagedLookup(base, pending, k) =
          (base.index[k] \ overlay)
            \union {id \in overlay : k \in StagedKeysOf(base.nodes, pending, id)}
    BY DEF StagedLookup
  <2>7. overlay \subseteq NodeId
    OBVIOUS
  <2> HIDE DEF overlay, found
  <2> QED BY <2>3, <2>4, <2>5, <2>6, <2>7
<1> QED BY <1>1, BatchCorrect, LookupsCorrect, PTL

-----------------------------------------------------------------------------
(* A batch is applied as a whole.                                          *)

(* The greatest of a set of positions is one of it.                        *)
LEMMA MaxIsElement ==
  ASSUME NEW n \in Nat, NEW S \in SUBSET (1..n), S # {}
  PROVE  Max(S) \in S
<1> DEFINE T == {i \in 1..n : \A x \in S : x <= i}
<1>1. n \in T /\ T \in SUBSET Nat
  <2>1. PICK x \in 1..n : x \in S
    OBVIOUS
  <2>2. n \in 1..n /\ \A y \in 1..n : y <= n
    BY <2>1
  <2> QED BY <2>2
<1>2. Min(T) \in T /\ \A t \in T : Min(T) <= t
  <2> HIDE DEF T
  <2> QED BY <1>1, MinIsElement, Zenon
<1> PICK m \in T : m = Min(T)
  BY <1>2
<1>3. m \in S
  <2> SUFFICES ASSUME m \notin S PROVE FALSE
    OBVIOUS
  <2>1. m \in 1..n /\ \A x \in S : x \in 1..n /\ x <= m /\ x # m
    OBVIOUS
  <2>2. \A x \in S : x <= m - 1
    BY <2>1
  <2>3. m - 1 \in 1..n
    <3>1. PICK x \in 1..n : x <= m - 1
      BY <2>2
    <3> QED BY <2>1, <3>1
  <2>4. m - 1 \in T
    BY <2>2, <2>3
  <2> QED BY <1>2, <2>1, <2>4
<1>4. \A x \in S : m >= x
  OBVIOUS
<1>5. \A y \in S : (\A x \in S : y >= x) => y = m
  BY <1>3, <1>4
<1> HIDE DEF T
<1> QED BY <1>3, <1>4, <1>5 DEF Max

(* A batch on its own leaves what it writes, which is there for any graph. *)
LEMMA ViewAlone ==
  ASSUME NEW nodes, NEW batch \in Seq(Mutation), NEW id \in NodeId
  PROVE  LET alone == View([x \in NodeId |-> NoNode], batch, Len(batch), id) IN
         /\ alone \in Content \union {NoNode}
         /\ View(nodes, batch, Len(batch), id) = IF alone = NoNode THEN nodes[id] ELSE alone
         /\ alone = NoNode <=> Writers(batch, Len(batch), id) = {}
<1> DEFINE W == Writers(batch, Len(batch), id)
<1>1. CASE W = {}
  BY <1>1 DEF View
<1>2. CASE W # {}
  <2>1. Len(batch) \in Nat /\ W \in SUBSET (1..Len(batch))
    BY DEF Writers
  <2>2. Max(W) \in W
    <3> HIDE DEF W
    <3> QED BY <1>2, <2>1, MaxIsElement
  <2>3. batch[Max(W)] \in Mutation /\ Writes(batch[Max(W)])
    BY <2>1, <2>2 DEF Writers
  <2>4. batch[Max(W)].content \in Content /\ batch[Max(W)].content # NoNode
    BY <2>3, MutationFields, NonesAssumption
  <2> QED BY <1>2, <2>4 DEF View
<1> QED BY <1>1, <1>2

(* A valid batch takes nothing away but an artifact for an artifact.       *)
LEMMA ValidKeeps ==
  ASSUME NEW nodes, NEW batch \in Seq(Mutation), NEW source, NEW id \in NodeId,
         Valid(nodes, {}, batch, source)
  PROVE  \/ nodes[id] \in {NoNode, View(nodes, batch, Len(batch), id)}
         \/ {nodes[id], View(nodes, batch, Len(batch), id)} \subseteq Artifact
<1> DEFINE kept(i) == \/ nodes[id] \in {NoNode, View(nodes, batch, i, id)}
                      \/ {nodes[id], View(nodes, batch, i, id)} \subseteq Artifact
           lost == {i \in 0..Len(batch) : ~kept(i)}
<1> SUFFICES ASSUME lost # {} PROVE FALSE
  <2>1. Len(batch) \in 0..Len(batch)
    OBVIOUS
  <2> QED BY <2>1
<1>1. PICK n \in Nat : n \in lost /\ \A i \in lost : n <= i
  <2>1. lost \in SUBSET Nat
    OBVIOUS
  <2> HIDE DEF lost
  <2> QED BY <2>1, MinIsElement
<1>2. n \in 0..Len(batch) /\ ~kept(n) /\ \A i \in 0..Len(batch) : ~kept(i) => n <= i
  <2> HIDE DEF kept
  <2> QED BY <1>1
<1> HIDE DEF lost
<1>3. kept(0)
  BY ViewStart
<1>4. n \in Nat \ {0} /\ n \in DOMAIN batch
  <2> HIDE DEF kept
  <2> QED BY <1>2, <1>3
<1>5. kept(n - 1)
  <2>1. n - 1 \in 0..Len(batch) /\ ~(n <= n - 1)
    BY <1>2, <1>4
  <2> HIDE DEF kept
  <2> QED BY <1>2, <2>1
<1>6. View(nodes, batch, n, id) =
        IF Writes(batch[n]) /\ batch[n].id = id THEN batch[n].content
        ELSE View(nodes, batch, n - 1, id)
  <2>1. n \in Nat \ {0}
    BY <1>4
  <2> QED BY ZenonT(60), <2>1, ViewStep
<1>7. Writes(batch[n]) /\ batch[n].id = id
  BY <1>2, <1>5, <1>6
<1>8. NodeIsValid(nodes, {}, batch, n)
  BY <1>4, <1>7 DEF Valid
<1>9. batch[n].op = "replace" => batch[n].content \in Artifact
  BY <1>4, MutationFields
<1>10. NoNode \notin Artifact
  BY NonesAssumption DEF Artifact, Content, Kind
<1> DEFINE seen == View(nodes, batch, n - 1, id)
<1>11. \/ seen \in Artifact /\ batch[n].content \in Artifact
       \/ seen \in {NoNode, batch[n].content}
  BY <1>7, <1>8, <1>9 DEF NodeIsValid
<1>12. /\ nodes[id] \in {NoNode, seen} \/ {nodes[id], seen} \subseteq Artifact
       /\ nodes[id] \notin {NoNode, batch[n].content}
       /\ ~({nodes[id], batch[n].content} \subseteq Artifact)
  BY <1>2, <1>5, <1>6, <1>7
<1> HIDE DEF seen
<1> QED BY <1>10, <1>11, <1>12

(* A batch that is valid for a graph that has at most its anchor in        *)
(* advance can be applied to the graph, with all its edges.                *)
LEMMA ValidApplies ==
  ASSUME NEW nodes, NEW start, NEW batch \in Seq(Mutation), NEW source \in NodeId,
         Valid(start, {}, batch, source),
         \A id \in NodeId : \/ start[id] = nodes[id]
                            \/ nodes[id] = NoNode /\ Writers(batch, Len(batch), id) # {}
  PROVE  /\ \A id \in NodeId :
              \/ nodes[id] \in {NoNode, View(nodes, batch, Len(batch), id)}
              \/ {nodes[id], View(nodes, batch, Len(batch), id)} \subseteq Artifact
         /\ \A i \in DOMAIN batch : HasEdge(batch[i]) =>
              /\ EdgeOf(batch[i], source) \in Edge
              /\ View(nodes, batch, Len(batch), EdgeOf(batch[i], source).from) # NoNode
              /\ View(nodes, batch, Len(batch), EdgeOf(batch[i], source).to) # NoNode
<1>1. \A id \in NodeId : View(nodes, batch, Len(batch), id) = View(start, batch, Len(batch), id)
  BY ViewOver
<1>2. \A id \in NodeId :
        \/ nodes[id] \in {NoNode, View(nodes, batch, Len(batch), id)}
        \/ {nodes[id], View(nodes, batch, Len(batch), id)} \subseteq Artifact
  BY <1>1, ValidKeeps
<1>3. ASSUME NEW id \in NodeId, Exists(start, {}, batch, id)
      PROVE  View(nodes, batch, Len(batch), id) # NoNode
  <2>1. CASE Writers(batch, Len(batch), id) = {}
    <3>1. start[id] # NoNode /\ View(start, batch, Len(batch), id) = start[id]
      BY <1>3, <2>1 DEF Exists, View
    <3> QED BY <1>1, <3>1
  <2>2. CASE Writers(batch, Len(batch), id) # {}
    BY <2>2, ViewAlone
  <2> QED BY <2>1, <2>2
<1>4. ASSUME NEW i \in DOMAIN batch, HasEdge(batch[i])
      PROVE  /\ EdgeOf(batch[i], source) \in Edge
             /\ View(nodes, batch, Len(batch), EdgeOf(batch[i], source).from) # NoNode
             /\ View(nodes, batch, Len(batch), EdgeOf(batch[i], source).to) # NoNode
  <2> DEFINE edge == EdgeOf(batch[i], source)
  <2>1. edge \in Edge
    BY <1>4, EdgeTyped
  <2>2. EdgeIsValid(start, {}, batch, edge)
    BY <1>4 DEF Valid
  <2> HIDE DEF edge
  <2>3. edge.from \in NodeId /\ edge.to \in NodeId
    BY <2>1 DEF Edge
  <2>4. /\ View(nodes, batch, Len(batch), edge.from) # NoNode
        /\ View(nodes, batch, Len(batch), edge.to) # NoNode
    BY <1>3, <2>2, <2>3 DEF EdgeIsValid
  <2> QED BY <2>1, <2>4 DEF edge
<1> QED BY <1>2, <1>4

(* A batch that comes to be applied is one that is accepted.               *)
LEMMA AcceptStep ==
  ASSUME BatchIndInv, phase \in {"idle", "checking"}, phase' \in {"applying", "committed"},
         base' = base, pending' \in Seq(Mutation), anchor' \in NodeId,
         NEW start, Valid(start, {}, pending', Source(pending', anchor')),
         \A id \in NodeId :
           \/ start[id] = base.nodes[id]
           \/ base.nodes[id] = NoNode /\ Writers(pending', Len(pending'), id) # {}
  PROVE  Batches!Accept
<1> DEFINE alone(id) == View([x \in NodeId |-> NoNode], pending', Len(pending'), id)
           source == Source(pending', anchor')
           hand == [nodes |-> [id \in NodeId |-> alone(id)],
                    edges |-> {EdgeOf(pending'[j], source) :
                                 j \in {l \in 1..Len(pending') : HasEdge(pending'[l])}}]
<1>1. InHand = {} /\ InHand' = {hand}
  BY DEF InHand, Links
<1>2. source \in NodeId
  BY SourceTyped
<1> DEFINE after(id) == View(base.nodes, pending', Len(pending'), id)
<1>3. \A id \in NodeId :
        /\ alone(id) \in Content \union {NoNode}
        /\ after(id) = IF alone(id) = NoNode THEN base.nodes[id] ELSE alone(id)
  BY ViewAlone
<1>4. /\ \A id \in NodeId :
           \/ base.nodes[id] \in {NoNode, after(id)}
           \/ {base.nodes[id], after(id)} \subseteq Artifact
      /\ \A i \in DOMAIN pending' : HasEdge(pending'[i]) =>
           /\ EdgeOf(pending'[i], source) \in Edge
           /\ after(EdgeOf(pending'[i], source).from) # NoNode
           /\ after(EdgeOf(pending'[i], source).to) # NoNode
  <2> HIDE DEF source
  <2> QED BY <1>2, ValidApplies DEF source
<1> HIDE DEF alone, source, after
<1>5. /\ hand.nodes \in [NodeId -> Content \union {NoNode}]
      /\ \A id \in NodeId : hand.nodes[id] = alone(id)
  BY <1>3
<1>6. \A edge \in hand.edges :
        edge \in Edge /\ after(edge.from) # NoNode /\ after(edge.to) # NoNode
  BY <1>4
<1>7. hand \in Batches!Batch
  BY <1>5, <1>6 DEF Batches!Batch
<1> HIDE DEF hand
<1>8. \A id \in NodeId : Batches!Written(hand)[id] = after(id)
  BY <1>3, <1>5 DEF Batches!Written
<1>9. \A edge \in hand.edges : edge.from \in NodeId /\ edge.to \in NodeId
  BY <1>6 DEF Edge
<1>10. Batches!Applicable(hand)
  BY <1>4, <1>6, <1>8, <1>9 DEF Batches!Applicable
<1> QED BY <1>1, <1>7, <1>10 DEF Batches!Accept, EdgesIn

(* An allowed request.                                                     *)
LEMMA CommitAllowedRequestMaps ==
  ASSUME BatchIndInv, CommitAllowedRequest
  PROVE  [Batches!Next]_(Batches!batchVars)
<1> DEFINE source   == Source(pending, anchor)
           anchored == AddNode(graph, anchor, RequestNode(number))
           first    == graph.nodes[anchor] = NoNode /\ Valid(graph.nodes, {anchor}, pending, source)
           second   == Valid(anchored.nodes, {}, pending, source)
<1>1. /\ phase = "checking" /\ graph = base /\ graph \in Graph
      /\ Len(pending) > 0 /\ pending[1] = AddRequestAnchor(number) /\ anchor = RequestId(number)
      /\ number \in SequenceNo /\ pending \in Seq(Mutation) /\ anchor \in NodeId
  BY DEF BatchIndInv, TypeOK, BaseInv, HandInv, CommitAllowedRequest
<1>2. UNCHANGED <<base, pending, anchor>>
  BY DEF CommitAllowedRequest, inHand
<1>3. CASE first /\ second
  <2>1. phase' = "applying" /\ base.nodes[anchor] = NoNode
    BY <1>1, <1>3 DEF CommitAllowedRequest
  <2>2. anchored.nodes = [base.nodes EXCEPT ![anchor] = RequestNode(number)]
    BY <1>1 DEF AddNode
  <2>3. base.nodes \in [NodeId -> Content \union {NoNode}]
    BY <1>1 DEF Graph
  <2>4. 1 \in Writers(pending, Len(pending), anchor)
    BY <1>1 DEF Writers, Writes, AddRequestAnchor
  <2> HIDE DEF anchored
  <2>5. \A id \in NodeId :
          \/ anchored.nodes[id] = base.nodes[id]
          \/ base.nodes[id] = NoNode /\ Writers(pending', Len(pending'), id) # {}
    BY <1>2, <2>1, <2>2, <2>3, <2>4
  <2>6. Valid(anchored.nodes, {}, pending', Source(pending', anchor'))
    BY <1>2, <1>3
  <2> QED BY <1>1, <1>2, <2>1, <2>5, <2>6, AcceptStep DEF Batches!Next
<1>4. CASE ~(first /\ second)
  <2>1. phase' = "failed"
    <3> HIDE DEF first, second
    <3> QED BY <1>4 DEF CommitAllowedRequest, first, second, anchored, source
  <2> QED BY <1>1, <1>2, <2>1 DEF Batches!batchVars, InHand, EdgesIn
<1> QED BY <1>3, <1>4

(* What a command was seen to change.                                      *)
LEMMA CommitObservedMaps ==
  ASSUME BatchIndInv, NEW batch \in Seq(Mutation), NEW n \in SequenceNo,
         CommitObserved(batch, n)
  PROVE  [Batches!Next]_(Batches!batchVars)
<1> DEFINE at == AnchorOf(batch, n)
<1>1. /\ phase = "idle" /\ graph = base
  BY DEF BatchIndInv, TypeOK, BaseInv, CommitObserved
<1>2. /\ pending' = batch /\ anchor' = at /\ base' = base
      /\ phase' \in {"failed", "committed", "applying"}
      /\ phase' = "committed" => \A i \in DOMAIN batch : ~TouchesGraph(batch[i])
      /\ phase' = "applying" => Valid(graph.nodes, {}, batch, Source(batch, at))
  BY DEF CommitObserved
<1>3. at \in NodeId
  BY <1>1, AnchorTyped
<1> HIDE DEF at
<1>4. CASE phase' = "failed"
  BY <1>1, <1>2, <1>4 DEF Batches!batchVars, InHand, EdgesIn
<1>5. CASE phase' # "failed"
  <2>1. phase' = "committed" => Valid(graph.nodes, {}, batch, Source(batch, at))
    <3> SUFFICES ASSUME phase' = "committed"
                 PROVE  Valid(graph.nodes, {}, batch, Source(batch, at))
      OBVIOUS
    <3>1. \A i \in DOMAIN batch : batch[i] \in Mutation /\ batch[i].op = "summary"
      BY <1>2 DEF TouchesGraph
    <3>2. \A i \in DOMAIN batch : ~HasEdge(batch[i]) /\ ~Writes(batch[i])
      BY <3>1 DEF Mutation, HasEdge, Writes, Anchoring
    <3> QED BY <3>2 DEF Valid
  <2>2. Valid(base.nodes, {}, pending', Source(pending', anchor'))
    BY <1>1, <1>2, <1>5, <2>1
  <2>3. phase' \in {"applying", "committed"} /\ pending' \in Seq(Mutation) /\ anchor' \in NodeId
    BY <1>2, <1>3, <1>5
  <2> QED BY <1>1, <1>2, <2>2, <2>3, AcceptStep DEF Batches!Next
<1> QED BY <1>4, <1>5

(* Both kinds of report.                                                   *)
LEMMA ReportsMap ==
  ASSUME BatchIndInv, NEW n \in 1..last, NEW batch \in Deltas[n],
         ApplyShellStateDelta(batch, n) \/ (n = last /\ Reconcile(batch))
  PROVE  [Batches!Next]_(Batches!batchVars)
<1>1. batch \in Seq(Mutation) /\ n \in SequenceNo /\ last \in SequenceNo
  BY NumbersReported
<1>2. CASE ApplyShellStateDelta(batch, n)
  BY <1>1, <1>2, CommitObservedMaps DEF ApplyShellStateDelta
<1>3. CASE n = last /\ Reconcile(batch)
  <2> PICK full \in Seq(Mutation) : CommitObserved(full, last)
    BY <1>1, <1>3, ReportTyped
  <2> QED BY <1>1, CommitObservedMaps
<1> QED BY <1>2, <1>3

(* All of a batch is in.                                                   *)
LEMMA FinishMaps ==
  ASSUME BatchIndInv, LookupIndInv, Finish
  PROVE  Batches!Commit
<1> DEFINE alone(id) == View([x \in NodeId |-> NoNode], pending, Len(pending), id)
           hand == [nodes |-> [id \in NodeId |-> alone(id)], edges |-> Links(Len(pending))]
<1>1. phase = "committed" /\ phase' = "idle" /\ base' = graph
  BY DEF Finish, Settle
<1>2. InHand = {hand} /\ InHand' = {}
  BY <1>1 DEF InHand
<1>3. /\ pending \in Seq(Mutation)
      /\ graph.nodes \in [NodeId -> Content \union {NoNode}]
  BY DEF BatchIndInv, TypeOK, Graph
<1>4. \A id \in NodeId : graph.nodes[id] = View(base.nodes, pending, Len(pending), id)
  BY <1>1, NodesCommitted DEF StagedNodesAreCommitted
<1>5. \A id \in NodeId :
        graph.nodes[id] = IF alone(id) = NoNode THEN base.nodes[id] ELSE alone(id)
  BY <1>3, <1>4, ViewAlone
<1> HIDE DEF alone
<1>6. Batches!Written(hand) = graph.nodes
  BY <1>3, <1>5 DEF Batches!Written
<1>7. EdgesIn(graph) = EdgesIn(base) \union hand.edges
  BY <1>1 DEF LookupIndInv, EdgesInv
<1>8. EdgesIn(base)' = EdgesIn(graph)
  BY <1>1 DEF EdgesIn
<1> HIDE DEF hand
<1> QED BY <1>1, <1>2, <1>6, <1>7, <1>8 DEF Batches!Commit

(* A batch is applied to its end or leaves no trace: what validation       *)
(* accepts never fails half-way, and a daemon that ends among its nodes    *)
(* and edges loses all of it (mutation.rs:255-283, state.rs:90-185).       *)
THEOREM ImplementsBatchesHolds == Spec => ImplementsBatches
<1>1. Init => Batches!Init
  BY DEF Init, Batches!Init, EmptyGraph, EdgesIn, InHand
<1>2. BatchIndInv /\ LookupIndInv /\ [Next]_vars => [Batches!Next]_(Batches!batchVars)
  <2> SUFFICES ASSUME BatchIndInv, LookupIndInv, [Next]_vars
               PROVE  [Batches!Next]_(Batches!batchVars)
    OBVIOUS
  <2>1. ASSUME NEW commands \in Parsed[last], StartCheck(commands)
        PROVE  [Batches!Next]_(Batches!batchVars)
    BY <2>1 DEF StartCheck, Batches!batchVars, InHand, EdgesIn
  <2>2. ASSUME NEW m \in Staged[number], StageMutation(m)
        PROVE  [Batches!Next]_(Batches!batchVars)
    BY <2>2 DEF StageMutation, Batches!batchVars, InHand, EdgesIn
  <2>3. CASE ObserveRequest
    BY <2>3 DEF ObserveRequest, Settle, Batches!batchVars, InHand, EdgesIn
  <2>4. CASE CommitAllowedRequest
    BY <2>4, CommitAllowedRequestMaps
  <2>5. ASSUME NEW n \in 1..last, NEW batch \in Deltas[n], ApplyShellStateDelta(batch, n)
        PROVE  [Batches!Next]_(Batches!batchVars)
    BY <2>5, ReportsMap
  <2>6. ASSUME NEW batch \in Deltas[last], Reconcile(batch)
        PROVE  [Batches!Next]_(Batches!batchVars)
    BY <2>6, ReconcileFollows, ReportsMap
  <2>7. CASE ApplyNodes
    <3>1. /\ phase = "applying" /\ phase' \in {"applying", "linking"}
          /\ UNCHANGED <<base, pending, anchor>>
      BY <2>7 DEF ApplyNodes, inHand
    <3> QED BY <3>1 DEF Batches!batchVars, InHand, EdgesIn, Links
  <2>8. CASE ApplyEdges
    <3>1. /\ phase = "linking" /\ phase' \in {"linking", "committed"}
          /\ UNCHANGED <<base, pending, anchor>>
      BY <2>8, EdgesLink DEF ApplyEdges, inHand
    <3> QED BY <3>1 DEF Batches!batchVars, InHand, EdgesIn, Links
  <2>9. CASE Finish
    BY <2>9, FinishMaps DEF Batches!Next
  <2>10. CASE Restart
    <3>1. InHand' = {} /\ base'.nodes = base.nodes /\ base'.edges = base.edges
      BY <2>10 DEF Restart, Settle, FromSnapshot, InHand
    <3>2. EdgesIn(base)' = EdgesIn(base)
      BY <3>1 DEF EdgesIn
    <3> QED BY <3>1, <3>2 DEF Batches!Next, Batches!Abandon
  <2>11. CASE UNCHANGED vars
    BY <2>11 DEF vars, Batches!batchVars, InHand, EdgesIn, Links
  <2> QED BY <2>1, <2>2, <2>3, <2>4, <2>5, <2>6, <2>7, <2>8, <2>9, <2>10, <2>11 DEF Next
<1> QED BY <1>1, <1>2, BatchCorrect, LookupsCorrect, PTL DEF Spec, ImplementsBatches, Batches!Spec

=============================================================================
