----------------------- MODULE SessionHistoryProperties ----------------------
(***************************************************************************)
(* What a session promises, across reconciliations, denials and restarts.  *)
(***************************************************************************)
EXTENDS SessionHistory

Event ==
  [kind : {"check"}, seq : SequenceNo, command : Command, report : Report,
   allowed : BOOLEAN, mutations : Seq(Mutation)] \union
  [kind : {"delta"}, seq : SequenceNo, mutations : Seq(Mutation)]

(* Every variable has its type; a binding the summary does not hold is the *)
(* one NoBinding, with no trace of when it was removed (unset_variable,    *)
(* session_summary.rs 293-304).                                            *)
TypeOK ==
  /\ phase \in Phase
  /\ error \in Failure \union {"none"}
  /\ loaded \in BOOLEAN
  /\ session \in [summary : Summary, graph : Graph(Command)]
  /\ queue \in Seq(Event)
  /\ log \in Seq(Event)
  /\ covered \in 0..Len(log)
  /\ known \in BOOLEAN

History == log \o queue

-----------------------------------------------------------------------------
(* The daemon that holds the session believes exactly what a daemon would  *)
(* that restored the session from all the events sent so far: the live     *)
(* path (prepare_runtime_check, try_check_with_outcome) and the replay     *)
(* (apply_state_effect) agree, for denied commands, reconciliations and    *)
(* after earlier restarts too.                                             *)
RestoredIsLive == loaded => Replay(History) = [ok |-> TRUE, state |-> session]

(* The numbers of the checks increase from the first to the last, whatever *)
(* was denied, reported, lost or restored between them: next_sequence_no   *)
(* never reuses a number that is on disk (core.rs 351-357).                *)
ChecksAreNumbered ==
  \A i, j \in DOMAIN History :
    i < j /\ History[i].kind = "check" /\ History[j].kind = "check" =>
      History[i].seq < History[j].seq

(* After a check that came with complete knowledge, a variable or function *)
(* has the value the runtime reported, unless the command was allowed and  *)
(* changes it: nothing an earlier prediction, denial or restart left       *)
(* behind survives a report (reconcile_variable_state,                     *)
(* reconcile_function_state).                                              *)
Changes(mutations, kind, name) ==
  {i \in DOMAIN mutations :
     /\ mutations[i].op \in {"bind", "unbind"}
     /\ mutations[i].kind = kind
     /\ mutations[i].name = name}

Outcome(mutation) == IF mutation.op = "bind" THEN mutation.value ELSE Unset

Expected(event, kind, name) ==
  LET changes == Changes(event.mutations, kind, name)
  IN  IF changes = {} THEN event.report.values[kind][name]
                      ELSE Outcome(event.mutations[Max(changes)])

BeliefFollowsReport ==
  (loaded /\ History # <<>> /\ Last(History).kind = "check" /\ Last(History).report.known) =>
    \A k \in {kind \in Kind : Capabilities[kind]}, x \in Name :
      session.summary.bindings[k][x].value = Expected(Last(History), k, x)

(* A directory other than the one reported last is believed only because   *)
(* the analysis of an allowed command predicted it (should_reconcile_cwd): *)
(* a denied cd, or a report that is out of date, is never believed.        *)
PredictedBy(event, cwd) ==
  /\ event.kind = "check"
  /\ event.allowed
  /\ event.seq = cwd.at
  /\ SetCwd(cwd.path, "static") \in Range(event.mutations)

DirectoryIsReportedOrPredicted ==
  (loaded /\ Capabilities.cwd /\ History # <<>> /\ Last(History).kind = "check") =>
    \/ session.summary.cwd.path = Last(History).report.cwd
    \/ \E i \in DOMAIN History : PredictedBy(History[i], session.summary.cwd)

(* A fact is in the graph only if an allowed command made it or a shell    *)
(* state delta reported it: a denied command leaves neither its anchor nor *)
(* anything it would have defined (try_check_with_outcome, 225-236).       *)
Committed(events, n) ==
  UNION {Range(events[i].mutations) : i \in {j \in DOMAIN events : events[j].seq = n}}

Explained(graph, events) ==
  \A n \in SequenceNo :
    /\ graph.requests[n] # NoCommand =>
         \E i \in DOMAIN events :
           /\ events[i].kind = "check"
           /\ events[i].seq = n
           /\ events[i].allowed
           /\ events[i].command = graph.requests[n]
    /\ n \in graph.anchors => Anchor \in Committed(events, n)
    /\ graph.directories[n] # NoPath =>
         \E src \in Source : SetCwd(graph.directories[n], src) \in Committed(events, n)
    /\ \A name \in Name : graph.functions[name][n] # Unset =>
         Bind("function", name, graph.functions[name][n]) \in Committed(events, n)

FactsAreExplained == loaded => Explained(session.graph, History)

(* The events on disk can always be restored: no two of them contradict    *)
(* each other, whenever the daemon was killed (validate_restore_tail,      *)
(* lib.rs 938-956).                                                        *)
LogRestores == Restorable

-----------------------------------------------------------------------------
(* "caushell-core default check must preserve session graph invariants"    *)
(* (core.rs 184): committing an allowed command never fails.               *)
ChecksCommit == error # "check"

(* "caushell-core default runtime check preparation must preserve session  *)
(* invariants" (core.rs 268): reconciling never fails.                     *)
PreparationSucceeds == error # "prepare"
=============================================================================
