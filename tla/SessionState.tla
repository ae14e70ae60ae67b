---------------------------- MODULE SessionState ----------------------------
(***************************************************************************)
(* What the daemon believes of one session: the summary of its shell state *)
(* (working directory, variables, functions) and the graph of facts, both  *)
(* stamped with the sequence numbers of the commands they were observed at. *)
(* A command is the part of its analysis that the state depends on.        *)
(***************************************************************************)
EXTENDS Integers, Sequences, SequencesExt

CONSTANTS
  Directory,
  Name,          \* of variables and functions
  Value,         \* of variables, and bodies of functions
  NoPath,        \* None of a directory
  Unset,         \* None of a value
  NoCommand,     \* None of a command
  Capabilities,  \* what the runtime's shell keeps from one command to the next
  MaxSequence    \* bound: the commands checked per session

Kind == {"variable", "function"}

ASSUME NonesAssumption == {NoPath, Unset} \cap (Directory \union Value) = {}
ASSUME NameAssumption == IsFiniteSet(Name)
ASSUME CapabilitiesAssumption ==
  Capabilities \in [cwd : BOOLEAN, variable : BOOLEAN, function : BOOLEAN]
ASSUME MaxSequenceAssumption == MaxSequence \in Nat \ {0}

SequenceNo == 0..MaxSequence
Never == -1

-----------------------------------------------------------------------------
(***************************************************************************)
(* Commands, mutations and reports.                                        *)
(***************************************************************************)
Bind(kind, name, value) == [op |-> "bind", kind |-> kind, name |-> name, value |-> value]
Unbind(kind, name) == [op |-> "unbind", kind |-> kind, name |-> name]
SetCwd(path, source) == [op |-> "cwd", path |-> path, source |-> source]
Anchor == [op |-> "anchor"]

Source == {"static", "runtime"}

Change ==
  {Bind(k, x, v) : k \in Kind, x \in Name, v \in Value} \union
  {Unbind(k, x) : k \in Kind, x \in Name}

Mutation ==
  Change \union
  {SetCwd(d, src) : d \in Directory, src \in Source} \union
  {Anchor}

(* What the passes derive from a command's text: the bindings it makes and *)
(* removes, in order, the directory it ends in, if that is known, and      *)
(* whether it names cd, pushd or popd.                                     *)
CommandType ==
  [changes : Seq(Change), exit : Directory \union {NoPath}, cd : BOOLEAN]

(* shell_state_before: the directory, and with complete knowledge of both  *)
(* kinds their bindings; without knowledge the bindings mean nothing.      *)
ReportType ==
  [cwd : Directory, known : BOOLEAN,
   values : [Kind -> [Name -> Value \union {Unset}]]]

(* The mutations staged for a command that starts in the reported state.   *)
CommandMutations(command, report) ==
  command.changes \o
    IF command.exit \in Directory \ {report.cwd}
      THEN <<SetCwd(command.exit, "static")>>
      ELSE <<>>

-----------------------------------------------------------------------------
(***************************************************************************)
(* The state.  A binding that was removed leaves nothing behind.           *)
(***************************************************************************)
NoBinding == [value |-> Unset, at |-> Never]
Binding == [value : Value, at : SequenceNo] \union {NoBinding}

NoCwd == [path |-> NoPath, at |-> Never, source |-> "runtime"]
Cwd == [path : Directory, at : SequenceNo, source : Source] \union {NoCwd}

Summary ==
  [last : SequenceNo \union {Never}, cwd : Cwd, bindings : [Kind -> [Name -> Binding]]]

NoSummary ==
  [last |-> Never, cwd |-> NoCwd, bindings |-> [k \in Kind |-> [x \in Name |-> NoBinding]]]

(* Nodes by the sequence number their ids are made of.                     *)
Graph(commands) ==
  [requests    : [SequenceNo -> commands \union {NoCommand}],
   anchors     : SUBSET SequenceNo,
   directories : [SequenceNo -> Directory \union {NoPath}],
   functions   : [Name -> [SequenceNo -> Value \union {Unset}]]]

EmptyGraph ==
  [requests    |-> [n \in SequenceNo |-> NoCommand],
   anchors     |-> {},
   directories |-> [n \in SequenceNo |-> NoPath],
   functions   |-> [x \in Name |-> [n \in SequenceNo |-> Unset]]]

NewSession == [summary |-> NoSummary, graph |-> EmptyGraph]

-----------------------------------------------------------------------------
(***************************************************************************)
(* The summary.  A newer or equally old observation replaces an older one. *)
(***************************************************************************)
ObserveSequence(summary, n) ==
  IF summary.last < n THEN [summary EXCEPT !.last = n] ELSE summary

SetBinding(summary, kind, name, value, n) ==
  ObserveSequence(
    IF summary.bindings[kind][name].at <= n
      THEN [summary EXCEPT !.bindings[kind][name] = [value |-> value, at |-> n]]
      ELSE summary, n)

(* Deliberately wrong: what was removed leaves its sequence number. *)
RemoveBinding_Tombstone(summary, kind, name, n) ==
  ObserveSequence(
    IF summary.bindings[kind][name].at <= n
      THEN [summary EXCEPT !.bindings[kind][name] = [value |-> Unset, at |-> n]]
      ELSE summary, n)

RemoveBinding(summary, kind, name, n) ==
  ObserveSequence(
    IF summary.bindings[kind][name].at <= n
      THEN [summary EXCEPT !.bindings[kind][name] = NoBinding]
      ELSE summary, n)

SetDirectory(summary, path, n, source) ==
  ObserveSequence(
    IF summary.cwd.at <= n
      THEN [summary EXCEPT !.cwd = [path |-> path, at |-> n, source |-> source]]
      ELSE summary, n)

(* apply_live_summary: only what the runtime's shell keeps is believed.    *)
MutateSummary(summary, mutation, n) ==
  CASE mutation.op = "cwd" /\ Capabilities.cwd ->
         SetDirectory(summary, mutation.path, n, mutation.source)
    [] mutation.op = "bind" /\ Capabilities[mutation.kind] ->
         SetBinding(summary, mutation.kind, mutation.name, mutation.value, n)
    [] mutation.op = "unbind" /\ Capabilities[mutation.kind] ->
         RemoveBinding(summary, mutation.kind, mutation.name, n)
    [] OTHER -> summary

MutatedSummary(summary, mutations, n) ==
  FoldLeft(LAMBDA s, m : MutateSummary(s, m, n), summary, mutations)

(* What the runtime reports, as the bindings of one observation.           *)
ReportedBindings(report) ==
  {Bind(k, x, report.values[k][x]) :
     k \in {kind \in Kind : Capabilities[kind] /\ report.known}, x \in Name}

Reported(report) == {m \in ReportedBindings(report) : m.value # Unset}

(* seed_shell_state_before: the first request of a session sets what held  *)
(* before it, at sequence number 0.                                        *)
Seeded(summary, report, n) ==
  IF summary.last = Never
    THEN MutatedSummary(summary,
           <<SetCwd(report.cwd, "runtime")>> \o SetToSeq(Reported(report)), 0)
    ELSE IF Capabilities.cwd /\ summary.cwd = NoCwd
      THEN SetDirectory(summary, report.cwd, n, "runtime")
      ELSE summary

-----------------------------------------------------------------------------
(***************************************************************************)
(* The graph.  A node's id is made of its kind, its name and its sequence  *)
(* number, never of its content.                                           *)
(***************************************************************************)
HasNode(mutation) ==
  mutation.op = "cwd" \/ (mutation.op = "bind" /\ mutation.kind = "function")

SameNode(m1, m2) ==
  /\ m1.op = m2.op
  /\ m1.op = "bind" => m1.name = m2.name

NodeContent(mutation) == IF mutation.op = "cwd" THEN mutation.path ELSE mutation.value

Missing == {NoPath, Unset}

NodeIn(graph, mutation, n) ==
  IF mutation.op = "cwd" THEN graph.directories[n] ELSE graph.functions[mutation.name][n]

(* Deliberately wrong: the nodes of a batch are compared with one another  *)
(* only, and a node that exists is kept.                                   *)
Conflict_InBatch(graph, mutations, n) ==
  \E i \in DOMAIN mutations, j \in DOMAIN mutations :
    /\ HasNode(mutations[i]) /\ HasNode(mutations[j])
    /\ SameNode(mutations[i], mutations[j])
    /\ NodeContent(mutations[i]) # NodeContent(mutations[j])

(* validate_graph_batch: two different nodes with one id.                  *)
Conflict(graph, mutations, n) ==
  \E i \in DOMAIN mutations :
    /\ HasNode(mutations[i])
    /\ \/ NodeIn(graph, mutations[i], n) \notin Missing \union {NodeContent(mutations[i])}
       \/ \E j \in 1..(i - 1) :
            /\ HasNode(mutations[j])
            /\ SameNode(mutations[i], mutations[j])
            /\ NodeContent(mutations[i]) # NodeContent(mutations[j])

(* apply_graph_batch, of a batch without conflicts.                        *)
MutateGraph(graph, mutation, n) ==
  CASE mutation.op = "anchor" -> [graph EXCEPT !.anchors = @ \union {n}]
    [] mutation.op = "cwd" /\ graph.directories[n] = NoPath ->
         [graph EXCEPT !.directories[n] = mutation.path]
    [] /\ HasNode(mutation)
       /\ mutation.op = "bind"
       /\ graph.functions[mutation.name][n] = Unset ->
         [graph EXCEPT !.functions[mutation.name][n] = mutation.value]
    [] OTHER -> graph

MutatedGraph(graph, mutations, n) ==
  FoldLeft(LAMBDA g, m : MutateGraph(g, m, n), graph, mutations)

-----------------------------------------------------------------------------
(***************************************************************************)
(* The operations on a session.                                            *)
(***************************************************************************)
(* Deliberately wrong: a denied request is not seen at all. *)
ObserveRequest_Ignored(session, report, n) == session

ObserveRequest(session, report, n) ==
  [session EXCEPT !.summary = ObserveSequence(Seeded(@, report, n), n)]

(* commit_allowed_request succeeds.                                        *)
Committable(session, mutations, n) ==
  /\ session.graph.requests[n] = NoCommand
  /\ ~Conflict(session.graph, mutations, n)

CommitAllowedRequest(session, mutations, command, report, n) ==
  ObserveRequest(
    [summary |-> MutatedSummary(Seeded(session.summary, report, n), mutations, n),
     graph   |-> MutatedGraph([session.graph EXCEPT !.requests[n] = command], mutations, n)],
    report, n)

(* commit_observed_shell_state_mutations succeeds: what goes into the graph *)
(* needs an anchor there, the one of the command or one of its own.        *)
Observable(session, mutations, n) ==
  /\ \/ session.graph.requests[n] # NoCommand
     \/ \E i \in DOMAIN mutations : mutations[i] = Anchor
     \/ \A i \in DOMAIN mutations : ~HasNode(mutations[i])
  /\ ~Conflict(session.graph, mutations, n)

CommitObserved(session, mutations, n) ==
  [summary |-> MutatedSummary(session.summary, mutations, n),
   graph   |-> MutatedGraph(session.graph, mutations, n)]

-----------------------------------------------------------------------------
(***************************************************************************)
(* Reconciling the believed state with the reported one.                   *)
(***************************************************************************)
(* Deliberately wrong: where a directory was learned from does not matter. *)
ShouldReconcileCwd_AnySource(summary, report, n, previous) ==
  \/ summary.cwd = NoCwd
  \/ /\ summary.cwd.path # report.cwd
     /\ \/ previous = NoCommand
        \/ summary.cwd.at # n /\ previous.cd

(* A directory predicted from a command is kept against the report, unless *)
(* the previous command was not allowed or could have changed it since.    *)
ShouldReconcileCwd(summary, report, n, previous) ==
  \/ summary.cwd = NoCwd
  \/ /\ summary.cwd.path # report.cwd
     /\ \/ previous = NoCommand
        \/ summary.cwd.source # "static"
        \/ summary.cwd.at # n /\ previous.cd

ReconcileCwd(summary, report, n, previous) ==
  IF Capabilities.cwd /\ ShouldReconcileCwd(summary, report, n, previous)
    THEN {SetCwd(report.cwd, "runtime")}
    ELSE {}

(* Deliberately wrong: what the runtime no longer has is not removed. *)
ReconcileBindings_NoRemoval(summary, report) ==
  {m \in Reported(report) : summary.bindings[m.kind][m.name].value # m.value}

ReconcileBindings(summary, report) ==
  {m \in Reported(report) : summary.bindings[m.kind][m.name].value # m.value} \union
  {Unbind(m.kind, m.name) :
     m \in {b \in ReportedBindings(report) :
              b.value = Unset /\ summary.bindings[b.kind][b.name] # NoBinding}}

(* The mutations that bring the session to the report, made at the number  *)
(* of the previous command, with an anchor if that command has none.       *)
Reconciliation(session, report) ==
  IF session.summary.last = Never THEN <<>> ELSE
  LET n == session.summary.last
      previous == session.graph.requests[n]
      delta == ReconcileCwd(session.summary, report, n, previous) \union
                 ReconcileBindings(session.summary, report)
  IN  IF delta = {} THEN <<>>
      ELSE (IF previous = NoCommand THEN <<Anchor>> ELSE <<>>) \o SetToSeq(delta)

NextSequenceNo(session) ==
  IF session.summary.last = Never THEN 1 ELSE session.summary.last + 1
=============================================================================
