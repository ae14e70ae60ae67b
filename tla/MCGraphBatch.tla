----------------------------- MODULE MCGraphBatch -----------------------------
(***************************************************************************)
(* Facts of each kind for every request of a small session.                *)
(***************************************************************************)
EXTENDS GraphBatch

CONSTANTS p, a, b

Fact(tag, n, content, edge) ==
  [op |-> "fact", id |-> <<tag, n>>, content |-> content, edge |-> edge]
From(id, tag, n, kind) == [from |-> id, to |-> <<tag, n>>, kind |-> kind]
Of(kind, n, path, rest) == [kind |-> kind, at |-> n, path |-> path, rest |-> rest]

Command(n) ==
  [op |-> "command", id |-> CommandId(n), content |-> Of("command", n, NoPath, a), edge |-> NoEdge]

(* A function defined in the command, with either of two bodies.           *)
Function(n, body) ==
  Fact("function", n, Of("state", n, NoPath, body), From(Implicit, "function", n, "Defines"))

(* The content of a path (one node for all requests) and the semantics of  *)
(* the command.                                                            *)
Facts(n) ==
  {Fact("content", 0, Of("artifact", 0, p, a), From(CommandId(n), "content", 0, "other")),
   Fact("semantics", n, Of("semantics", n, NoPath, a), From(CommandId(n), "semantics", n, "Defines"))}

(* A path the command reads, a nested payload, and the flow into it.       *)
MoreFacts(n) ==
  {Fact("fact", n, Of("path", n, p, a), From(CommandId(n), "fact", n, "other")),
   Fact("payload", n, Of("payload", n, NoPath, a), NoEdge),
   [op |-> "flow", id |-> NoId, content |-> NoNode,
    edge |-> From(CommandId(n), "payload", n, "other")]}

(* A request whose text does not parse has no command.                     *)
MCParsed == [n \in SequenceNo |-> IF n < MaxSequence THEN {<<>>, <<Command(n + 1)>>} ELSE {}]

MCStaged ==
  [n \in SequenceNo |->
     Facts(n) \union
       IF n = 1 THEN {Function(n, a), Function(n, b)} \union MoreFacts(n) ELSE {Function(n, a)}]

Unset == [op |-> "summary", id |-> NoId, content |-> NoNode, edge |-> NoEdge]
Value(n, value) ==
  Fact("value", n, Of("artifact", n, NoPath, value), From(Implicit, "value", n, "other"))

MCDeltas ==
  [n \in SequenceNo |->
     {<<Unset>>, <<Function(n, a), Unset>>, <<Value(n, a)>>, <<Function(n, b), Value(n, b)>>}]
===============================================================================
