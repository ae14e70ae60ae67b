----------------------------- MODULE AtomicBatches -----------------------------
(***************************************************************************)
(* What committing to a session's graph promises, whatever it takes to     *)
(* apply a batch: a batch is accepted only if all of it can be applied, it *)
(* is applied as a whole or, if the daemon ends first, not at all, and the *)
(* graph changes in no other way.                                          *)
(***************************************************************************)
CONSTANTS NodeId, Content, NoNode, Edge,
          Artifact      \* the contents that may take the place of each other

VARIABLES
  nodes,                \* what a restart finds: the content of each node,
  edges,                \* and the edges
  accepted              \* the batch to be applied, if any

batchVars == <<nodes, edges, accepted>>

Batch == [nodes : [NodeId -> Content \union {NoNode}], edges : SUBSET Edge]

Written(batch) ==
  [id \in NodeId |-> IF batch.nodes[id] = NoNode THEN nodes[id] ELSE batch.nodes[id]]

(* Nothing is lost but an artifact to an artifact, and no edge dangles.    *)
Applicable(batch) ==
  LET after == Written(batch)
  IN  /\ \A id \in NodeId :
           \/ nodes[id] \in {NoNode, after[id]}
           \/ nodes[id] \in Artifact /\ after[id] \in Artifact
      /\ \A edge \in batch.edges : after[edge.from] # NoNode /\ after[edge.to] # NoNode

Init ==
  /\ nodes = [id \in NodeId |-> NoNode]
  /\ edges = {}
  /\ accepted = {}

Accept ==
  /\ accepted = {}
  /\ \E batch \in accepted' :
       accepted' = {batch} /\ batch \in Batch /\ Applicable(batch)
  /\ UNCHANGED <<nodes, edges>>

Commit ==
  \E batch \in accepted :
    /\ nodes' = Written(batch)
    /\ edges' = edges \union batch.edges
    /\ accepted' = {}

(* The daemon ends. *)
Abandon ==
  /\ accepted' = {}
  /\ UNCHANGED <<nodes, edges>>

Next == Accept \/ Commit \/ Abandon

Spec == Init /\ [][Next]_batchVars
================================================================================
