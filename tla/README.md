# A TLA+ development of Caushell

Caushell checks a shell command before a coding agent runs it.  A hook process (one per
agent event) talks to a daemon; the daemon parses the command, runs 35 passes over a graph
of the session, answers Allow, NeedApproval or Deny, and keeps the session's history on
disk so that a restarted daemon judges the next command against the same facts.  This
directory models the parts of that program whose correctness depends on state, ordering
and failure, checks them with TLC and proves the most important facts with TLAPS.

## 1. Inventory

| Component | State | Operations | Talks to | What is hard | What makes it correct |
| --- | --- | --- | --- | --- | --- |
| **Request thread** (`caushell/src/lib.rs`, `CliRuntime`) | session states in memory, `next_event_index_by_session`, configuration stamp | check request, shell-state delta request, ping, reload of the configuration, drop | core (calls), log worker (channel), store (reads) | any error ends the daemon; events are sent after they are applied | what is answered is in the history; a restart finds an initial segment of it |
| **Log worker** (`spawn_event_writer`) | one append handle and a count of unsynced events per session | append, compact, shut down | materializer and checkpoint worker (channels), log files | exits on the first I/O error with commands queued; an append is two writes | appended events can be read back; a shared worker is not stopped by one session |
| **Materializer** (`spawn_materializer_worker`) | a database connection | insert a row | SQLite | failures are ignored | the table shows nothing that is not durable |
| **Checkpoint worker** (`spawn_checkpoint_worker`) | its own copy of each session's state | update, checkpoint, shut down | store (reads), log worker (channel) | reads logs that are ahead of its queue; failures are ignored | a snapshot is an initial segment; compaction drops only what a snapshot covers |
| **Store** (`caushell-store/src/store.rs`) | JSONL log per session, `events` and `snapshots` tables | append, sync, read, compact, restore, replace, queries | file system, SQLite | torn lines, lost writes, rewriting under readers | reads find what was appended |
| **Log repair** (`repair_session_log`) | none of its own | truncate, deduplicate, rebuild the snapshot | store | runs beside a daemon that holds the session | the repaired session can be restored |
| **Core** (`caushell-core`) | sessions: graph and summary, last sequence number | check, reconcile, apply a delta, commit or observe | runner, passes | a check and its reconciliation are two events with a crash between them | a denied action leaves no facts; sequence numbers increase |
| **Runner** (`caushell-runner`) | pending mutations, pass outputs, staged graph | run passes, validate and apply a batch | passes, graph | validated as a whole, applied one by one | a batch is applied whole or not at all |
| **Passes, parser, profiles** | none between requests | analysis of one command | runner | fixpoints, bounds on recursion | termination; the strictest finding decides |
| **Hooks** (`caushell-codex-hook`, `caushell-claude-hook`) | daemon metadata, lock files, active-session records | find, start, replace and wait for a daemon; emit a fallback answer | daemon (socket), adapter (process) | many hook processes at once; daemons that start late, die, stall or are taken for another process | no daemon is lost and none is started beside another; without an answer a command runs only if the configuration says so |
| **Adapters** (codex, claude, dsh) | none | translate messages and decisions | hook, daemon | partial failure | a Deny is never weakened |
| **dsh plugin** (`integrations/deepseek-harness`) | the adapter process, pending calls, denials | check a call, retire a process, dispose | adapter (pipes), harness (events) | late lines, timeouts and aborts in any order, reused ids | a call is decided by its own answer and runs only as decided; one process at a time |
| **Configuration** (`caushell-config`) | policy file | load, normalise, reload | request thread | a file changed while it is read | a broken file never changes the policy |
| **Queries** (`caushell-query`, `serve-query-stdio`) | none | traversals of a restored session | store | reads snapshot and log one after the other | a page is consistent |
| **Runtime security**, shared types, VS Code viewer, plugins, scripts | none | system calls, data types, packaging | | | |

How they interact: a hook makes sure a daemon runs, then starts an adapter, which sends
one request over the daemon's Unix socket.  The request thread serves one connection at a
time: it reloads the configuration, restores the session if it does not hold it,
reconciles the shell state the runtime reports with the one it believes in, runs the
check, commits or observes, sends up to two events to the log worker and answers.  From
there the events flow through the three workers to the disk:

    request thread --> log worker --> materializer      --> events table
         ^                 |  ^  \--> checkpoint worker --> snapshots table
         |                 v  |______________/   (compact)
         '--- restore --- log files

PROJECT.json lists every hazard with its line in the code and the properties that cover it.

## 2. Modules

| Module | What it is | Code |
| --- | --- | --- |
| `EventLog` | operators: one session's log file and snapshot, appending (in full or cut short), syncing, reading, compacting, restoring | `store.rs`, restore functions of `lib.rs` |
| `SessionPipeline` | the state machine: request thread, three workers, drop, kill, power loss, restart | `lib.rs` 253-598, 600-782, 838-899; `store.rs` |
| `DurableHistory` | the abstract specification: accept, persist, lose | |
| `SessionPipelineInvariant` | what the pipeline promises, the refinement mapping, the inductive invariants: of the healthy pipeline, of one that fails, of its workers | |
| `SessionState` | operators: the summary and the graph of a session, the mutations of a command, seeding, committing, observing and reconciling | `session_summary.rs`, `core/state.rs`, `mutation.rs`, `core.rs` 351-446 |
| `SessionHistory` | the state machine: one session's checks, reconciliations and deltas, their events, kills and restores | `lib.rs` 600-782, 873-1075, `core.rs` 187-317 |
| `SessionHistoryProperties` | what a session promises across denials, reports and restarts | |
| `GraphBatch` | the state machine: a batch of mutations is staged, validated twice and applied to the graph and its indexes, step by step | `mutation.rs`, `staged.rs`, `core/state.rs`, `graph.rs` |
| `AtomicBatches` | the abstract specification of a commit: accepted if all of it can be applied, applied as a whole or not at all | |
| `Policy` | operators: normalisation of a configuration, the hard deny floor, the actions of a policy, the assembly of a decision | `normalize.rs`, `policy.rs`, `resolve_policy.rs`, `decision_assembly.rs` |
| `CheckAnswer` | the state machine: edits of the configuration, its hot reload, requests, and the answers and fallbacks of the hooks | `lib.rs` 531-836, `codex-hook/main.rs`, `adapter-codex` |
| `DaemonLifecycle` | the state machine: hook processes, daemon processes and the files through which they find and exclude each other | `codex-hook/main.rs`, `serve-unix` of `caushell` |
| `DaemonLifecycleProperties` | what the hooks of a workspace may rely on | |
| `DshBashPlugin` | the state machine: the plugin's event loop, its adapter processes, the harness around it | `caushell-dsh-bash.mjs`, the loop of `caushell-adapter-dsh` |
| `CallGate` | the abstract specification of the plugin: a call is held, judged or failed, and ends; no processes, ids or events | |
| `MC...` | the instances for TLC | |
| `..._proofs` | lemmas and theorems (section 5) | |

How the modules fit together.  Each state machine looks at the program from one side and
takes from the next one what that one promises:

- `DaemonLifecycle` gives a workspace its one daemon (`DaemonsDoNotOverlap`, from the start of
  a daemon's process to the end of its draining); `SessionPipeline` has one owner of a store.  The runtime that `DshBashPlugin` starts
  takes no lease; `OnlyChildRuns` keeps its plugin to one.
- `SessionPipeline` has the threads, queues and files and knows of an event only that it was
  applied; `SessionHistory` has what an event does to the state and takes from the pipeline
  that events reach the disk in the order they were sent and that a restart finds an initial
  segment of them, which is what `RestoreIsPrefix` and `ImplementsHistory` say.
- `SessionHistory` commits a batch in one step or not at all; `GraphBatch` is that step in
  its parts, and `ImplementsBatches` says why one step is enough: it shows `AtomicBatches`
  of the nodes and edges a restart would find.  Both have the nodes; only `GraphBatch` has
  the edges and the indexes.
- `CheckAnswer` combines the policy (`Policy`) with the handling of one request after the
  other and with the hook that asked; it takes the daemon as one that exists or does not.

State and code of `SessionPipeline`:

- `phase`, `run`: `serving` until a request fails, then the three joins and the final
  compactions of `Drop for CliRuntime`, one phase each.  `run` numbers the daemons.
- `loaded`, `next`, `live`: the keys and values of `next_event_index_by_session` and the
  session states of `ShellQueryCore`.
- `logQueue`, `materializerQueue`, `checkpointQueue`: the three `mpsc` channels, which are
  unbounded and FIFO.  A send to a worker that has exited fails; where the code ignores
  that, so does the model.
- `unsyncedCount`: `SessionLogWriter::unsynced_event_counts`.
- `known`, `checkpoint`: the map `states` of the checkpoint worker.
- `log`, `snapshot`, `rows`: the files and tables, which alone survive a kill.

State and code of `SessionHistory`:

- `phase`, `error`: as above, with the operation whose error ended the daemon.
- `loaded`, `session`: does `next_event_index_by_session` have the session, and its
  `SessionState`: the summary (`last_sequence_no`, the directory with the number and the
  source it was learned from, the variable and function bindings) and of the graph the nodes
  that a later batch can conflict with, by the sequence number in their ids.
- `queue`, `log`: the session's events sent and appended.  A check event carries the
  request (command, reported state, number) and its `SessionStateEffect`; a delta event the
  mutations committed.
- `covered`, `known`: how many events the snapshot covers, and whether the checkpoint worker
  holds the session; the duplicate search of `validate_restore_tail` sees only the events
  after the snapshot.

A command is what the passes derive from it: its bindings in order, the directory it is
known to end in, and whether it names `cd`, `pushd` or `popd`.  The decision is free: any
command may be allowed or not.  `Capabilities` is one of the three profiles of
`ShellRuntimeCapabilities`; codex and dsh use the request-only one, claude the one that
keeps the directory, and the persistent shell is offered to runtimes but used by no adapter
in the repository yet.  The same holds of clients that send shell state deltas of their own
(`ClientDelta`).  An action is a whole request: the thread serves one at a time and sends
the events of a request only after both of its changes are applied.

State and code of `GraphBatch`:

- `phase`, `pos`: where the commit of the batch in hand stands: staging (`checking`), the
  loop over nodes (`applying`), the loop over edges (`linking`), done or refused.
- `graph`: `ExecutionGraph`, its nodes, its edges in order and its indexes by sequence number
  and path; `base`: the graph at the last commit, which a restart finds.
- `last`: `SessionSummary::last_sequence_no`; `number`, `pending`, `anchor`: the request in
  hand, its `PendingMutation`s and the node their implicit edges hang on.
- A mutation is what `graph_projections` makes of it: a node, an edge, both or neither.  The
  passes stage what they like out of `Staged`, in any order; the reports of a runtime bring
  whole batches (`Deltas`).  An index entry is a member of a set: that a node is listed twice
  cannot be seen, and lookups in the code sort and deduplicate what they show.

State and code of `CheckAnswer`:

- `file`, `edits`: the configuration file, its content and its stamp (length and time of the
  last change, the `ConfigFileStamp` of the code); a new content may get the stamp of an old one.
- `daemon`: `CliRuntime::policy` and the stamp seen last; `serving`: the request in hand.
- `hook`: what a hook has read, from the file or from the daemon's metadata (`kept`), and
  how far its request is; `answer` is what the harness is told, or that the hook failed.
- `window`, `lapses`: history variables for `PolicyWasCurrent`.

State and code of `DaemonLifecycle`:

- `config`: the setting in each configuration file; `metadata`: `daemon.json`, with the build
  its daemon was started for and whether the start marker of the process is known (`marked`);
  `socket`: whose socket file is at the path; `lock`: `daemon.lock`, held by a hook; `lease`:
  `daemon.run.lock`, held by a daemon.
- `hook`: per process, the next step of `run_adapter_event`, the build it belongs to, the
  setting it goes by, the metadata it has read (`found`), and the daemon it is connected to and
  whose answer it waits for (`peer`).  One action is the code between two accesses to what is
  shared, so that all interleavings of file operations of several hooks occur; a ping is two
  actions, the connection and the answer, with no timeout between them.
- `daemon`: `creating` (before the store is open), `created`, `leased`, `binding`, `serving`,
  `stalled` (it accepts connections and answers none), `draining` (its loop has ended, its
  queues are being written), `gone`; its parent, because a process that has ended is alive to
  `kill(pid, 0)` until its parent has waited for it or ended; and whether the file it runs is
  still the one at its path (`intact`).
- `ProcessMatches` is `daemon_process_matches`: it does not hold of a live daemon whose marker
  is not known or whose executable was replaced or removed.
- Two builds meet at one `metadata` only where the socket root is configured; by default it is
  a directory per runtime fingerprint.
- `faults` bounds edits, installations, kills, failures, stalls and lost markers; `lapses` is a
  history variable: the three ways in which a daemon gets lost, which the properties except by
  name (section 6).

State and code of `DshBashPlugin`:

- `closed`, `child`, `starting`, `pending`, `denied`, `failureAction`: the variables of the
  client's closure and of the guard.  A generation of the adapter process is named by the
  call that started it.
- `call`: per bash call, where its handler awaits, its request id, and what became of it.
- `process`, `input`, `output`: the adapter processes and their pipes.
- The actions are turns of the event loop (an event handler, or a handler up to its next
  await), steps of the adapter, and those of the harness (`Proceed`, `Abort`).

Data abstraction.  In the pipeline an event is its `event_index` and the daemon run that observed it, for
two runs never produce the same event.  A session state is the set of events applied to
it: events are applied in increasing index everywhere, so the set determines the state.
A log file is the set of events that decode, the shape of its last line (`closed`,
`bare`: complete without its newline, `torn`), whether a terminated line fails to decode,
and which events are not synced.  The content of events, timing output, and the creation
of directories and permissions are left out.

Granularity.  In the pipeline one action is one command of one worker, one request, or one join.  That is
fine enough because a worker's command touches each file or table once, and the places
where the code can be interrupted within a command are outcomes of the action: an append
may be cut short by a kill or an error (`Kill`, `LogAppendFails`), an append may be
written and fail to sync, a compaction may fail before or after the file is replaced
(`LogCompactFails`), a sync of all files may reach only some (`SyncAll`).  A kill between
two sends of a worker is the same as a kill after both, because the queues are lost.  The
loops over sessions at the end (`CheckpointShutdown`, `DropJoinCheckpoint`) are one step
each: the sessions share no file, so every single session passes through the same states
as with a step per session.

Assumed of the environment: a rename replaces a file atomically and stays; a committed
SQLite statement is durable; a power loss takes back a suffix of the events appended since
the last `sync_data`; `flock` excludes and is released when its holder ends; Node.js runs
one handler at a time and emits the events of a child process in the order it documents.
Definitions for the harness, the user and the operating system, which are not part of the
repository, are marked external in the map.

## 3. What is checked

| Run | Instance | Distinct states | Properties | What it shows |
| --- | --- | --- | --- | --- |
| `pipeline_kills` | 1 session, 5 events, 2 daemons; kills; `FairSpec` | 21,644 | `RestoreIsPrefix`, `TailRetained`, `RowsAreDurable`, `DropDrains`, `ImplementsHistory`, `EventsBecomeDurable`, `CheckpointsCatchUp`, `DropEnds` | with kills alone the pipeline implements `DurableHistory`, compaction keeps the retained tail, rows never run ahead of the log, a graceful drop ends and loses nothing, and events and snapshots make progress |
| `pipeline_faults` | the same, with torn appends, failing log writes and syncs, power losses and a failing database | 1,107,603 | `TypeOK`, `RestoreFollowsLive`, `OnlyReadableLogsCompacted`, `JoinsCanEnd` | whatever fails, no two events share an index, nothing unknown to the daemon is found, a damaged log is not compacted, and the drop waits for no worker that was not told to stop |
| `history_shell` | 3 numbers, 4 events; persistent shell, deltas of clients (one of them of two changes), kills | 72,437 | `TypeOK`, `RestoredIsLive`, `BeliefFollowsReport`, `ChecksAreNumbered`, `FactsAreExplained` | replaying the events gives the live state; bindings are those reported, changed by the allowed command; numbers grow; denied commands leave no facts |
| `history_directory` | 3 numbers, 5 events; persistent directory, kills | 80,871 | `DirectoryIsReportedOrPredicted`, `LogRestores` | the believed directory has a reason; with the capabilities in use, no kill makes a log unreadable |
| `graph_batch` | 2 requests, deltas at either number, 4 mutations in a batch, 3 edges | 118,711 | `FailedCommitLeavesGraph`, `StagedLookupsAreCommitted`, `GraphCanBeRestored`, `ImplementsBatches` | a refused batch changes nothing, the passes find after the commit what they looked up before it, every step leaves a graph that can be restored, and batches are committed as one |
| `check_answer` | 1 hook at a time, 3 edits, 4 contents and an unreadable one | 466,301 | `TypeOK`, `PolicyWasCurrent`, `AnswerIsJustified`, `FloorStands`, `TrustKeepsActions` | each request is judged by a policy the file held; nothing runs that was not allowed or waived; no configuration lowers the floor |
| `daemon_lifecycle` | 2 hooks, 3 daemon identities, 2 builds, 1 file, 2 settings, 1 fault; `MCSpec`: `FairSpec` with the first hook's build fixed | 400,336 | `TypeOK`, `NoDaemonIsLost`, `DaemonsDoNotOverlap`, `ServingIsReachable`, `HooksEnd` | outside the named lapses, hooks of two builds that replace each other's daemon lose none, never have two at once and take no socket away from one that listens; all hooks end but those a stalled daemon blocks |
| `dsh_plugin` | 2 calls, 2 request ids | 1,040,884 | `TypeOK`, `OwnAnswers`, `WaitingForChild`, `OnlyChildRuns`, `RunsAsDecided`, `CallsAreDecided`, `ImplementsGate` | calls are decided by their own answers, run as decided, and are all decided; no process is left behind; seen from the harness the plugin is a `CallGate` |
| `torn_tail` | 3 events, 2 daemons; torn appends | | `LogStaysReadable` (violated) | finding 1 |
| `failed_checkpoints` | 6 events, 2 daemons; failing database | | `CommittedFactsPresent` (violated) | finding 2 |
| `redefined_function` | 2 numbers, 4 events; request-only | | `ChecksCommit` (violated) | finding 3 |
| `interrupted_request` | 3 numbers, 5 events; persistent directory, kills | | `PreparationSucceeds` (violated) | finding 4 |

`CHECK_DEADLOCK FALSE` is set in every run, because in each a state that has used up its
bounds has no successor.  The bounds, by name: `MaxIndex` (events) and `MaxRuns` (daemons) of
the pipeline, `MaxSequence` (commands) and `MaxEvents` of a session's history, `MaxSequence`,
`MaxBatch` and `MaxEdges` of the graph, `MaxEdits` of the configuration, `MaxFaults` of the
lifecycle; the calls of the plugin are the members of `Call`.

Why the bounds are enough.

- Pipeline: `RestoreIsPrefix` is checked with kills; for torn appends, failing log writes and
  power losses it rests on its theorem, and on `RestoreFollowsLive` in `pipeline_faults`.
  `CheckpointInterval = 2`, `RetentionTail = 3`, `SyncInterval = 2`: as with 25, 32
  and 25 in the code the tail is longer than the interval and shorter than two of them, and a
  sync happens as often as a checkpoint.  The checkpoint at event 4 then asks for the first
  compaction that drops an event, so 5 events give a drop, a restart that reads a snapshot
  and a compacted log, and events after it.  One session is enough because sessions interact
  only through the life of the log worker, which fails nondeterministically; the theorems
  cover any number of sessions, events and daemons.
- Session history: three numbers with a reconciliation before each of the last two make five
  events: a prediction, a report that contradicts it, a denied command after it and a restart
  at every point between.  Two directories, one name and two values are enough for a report
  to agree, to differ or to be missing; names and kinds never interact except by being in one
  batch, which `DefineAndChange` and the reports make happen.  `history_shell`, whose runtimes
  report everything, has four events; the theorems cover any number of them.
- Graph: two requests let the second refer to a node of the first (the content of a path);
  the staged facts have one of each kind of index entry, one that contradicts itself (two
  bodies of one function) and an edge with an implicit source; the reports have a value that
  replaces another.
- Configuration: the contents are a plain one, one that allows whole families (the floor's
  among them), one with trusted paths and one that tries to lower the floor; three edits
  are two changes seen by a daemon and one that comes between the stamp and the read.
  (With two hooks and two edits, 6.6 million states, the same holds.)
- Lifecycle: two hooks of different builds are a daemon being replaced by one hook while the
  other looks at it; that three identities are enough is checked by `HooksEnd`, because a
  hook that found none free would not end.  One fault is an edit, an installation, a killed
  hook, a daemon that is killed, stalls or ends at a failed request, or a marker that is not
  found, at every point; several of them are left to the theorems, which cover any number.
- Plugin: a second call is what joins a start, reuses an id, retires the generation of the
  first or starts another; a third one does nothing a second does not.

Fairness.  `SessionPipeline!FairSpec` assumes weak fairness of each worker and of the joins of
`Drop`: the operating system keeps running the threads of a process that is alive, `recv`
returns when a command is queued, and a join returns when the thread has exited.  Nothing is
assumed of requests, of their failure, of kills or of restarts; the liveness properties
therefore end in `\/ phase = "down"`.  `DaemonLifecycle!FairSpec` assumes weak fairness of a
hook's next step and of a daemon's steps from its start to the end of its draining, which
includes that a daemon in its loop answers a connection, since it serves them one at a time
and every client shuts its side down once it has written.  It does not assume that of a
stalled one: the client has no read timeout (`lib.rs` 2261-2280), a daemon whose analysis does
not end or whose current client stays connected answers nobody (`lib.rs` 2121, 2039), and
`main.rs` looks at its deadlines between pings only.  `HooksEnd` therefore excepts the hook
that waits for a stalled daemon and those that wait for its lock.  Strong fairness is assumed
of taking the lifecycle lock, since `flock` wakes those who wait, and of `Expire`: the deadline
is looked at again after each ping that fails, and once it has passed it stays so.  `DshBashPlugin!Fairness` is
weak fairness of the event that follows a fork, of a handler going on after its await, and of
a waiting call's timer; the adapter need neither answer nor end.

Every property of a passing run has a mutant: a definition marked "Deliberately wrong" that
changes one mapped definition the way a plausible bug would, under which TLC finds the
property violated.

## 4. Findings

1. `torn_tail`: `append_event_jsonl` continues an unterminated last line.  A crash in the
   middle of an append is harmless to the next restart, which passes over the tail, but the
   first event the restarted daemon appends turns that tail into a terminated line that does
   not decode, and no later daemon can load the session.
2. `failed_checkpoints`: the checkpoint worker asks for the compaction even when the
   snapshot could not be written.  The next daemon restores the session without the dropped
   events, silently.
3. `redefined_function`: an allowed command that defines a function twice with different
   bodies cannot be committed, because the id of a function node lacks its body; the daemon
   ends.  Alias nodes were given a fingerprint for this very case.
4. `interrupted_request`: a kill after the reconciliation event reached the disk and before
   its check did leaves a session for which a request from another directory always fails.

Finding 4 has two relatives under the persistent-shell capabilities, which no adapter here
uses yet and which are therefore not listed.  In the instance of `history_shell`,
`LogRestores` is violated: the same kill leads to two deltas with one sequence number, which
`validate_restore_tail` takes for a corrupt log; that is why `LogRestoresHolds` has the
assumption `OnlyDirectories`.  And when a report gives a function another body than the one
the previous command defined, its node conflicts with that definition without any kill;
`should_reconcile_cwd` prevents the same for directories only.  A client that sends a delta
after a denied request meets a third one: there is no node to hang its facts on, and the
request fails with `MissingGraphAnchor`.

## 5. What is proved

Eight modules of proofs; every theorem holds for every value of the constants, the bounds
among them, under the assumptions the modules state of their constants.  The theorems
assume no fairness: liveness is left to TLC.

| Theorem | Module | Assumption |
| --- | --- | --- |
| `TypeCorrect` | `SessionPipeline_proofs` | |
| `PipelineCorrect`, `RestoreIsPrefixHolds` | `PipelineInvariance_proofs` | `~DatabaseFails` |
| `FaultCorrect`, `OnlyReadableLogsCompactedHolds`, `RestoreFollowsLiveHolds` | `PipelineInvariance_proofs` | |
| `ImplementsHistoryHolds`, `TailRetainedHolds`, `RowsAreDurableHolds` | `PipelineRefinement_proofs` | `Clean`: database, file system and power are intact |
| `DropDrainsHolds` | `PipelineRefinement_proofs` | `Smooth`: log writes do not fail either |
| `JoinsCorrect`, `JoinsCanEndHolds` | `PipelineRefinement_proofs` | |
| `HistoryTypeCorrect`, `RestoredIsLiveHolds`, `ChecksAreNumberedHolds`, `FactsAreExplainedHolds`, `DirectoryIsReportedOrPredictedHolds`, `BeliefFollowsReportHolds` | `SessionHistory_proofs` | |
| `LogRestoresHolds` | `SessionHistory_proofs` | `OnlyDirectories`: the capabilities the adapters use, no deltas of clients |
| `BatchTypeCorrect`, `FailedCommitLeavesGraphHolds`, `StagedNodesAreCommittedHolds`, `GraphCanBeRestoredHolds`, `ImplementsBatchesHolds` | `GraphBatch_proofs` | |
| `LookupsCorrect`, `StagedLookupsAreCommittedHolds` | `GraphBatch_proofs` | `SemanticsAssumption`: the ids and edges of semantics |
| `CheckTypeCorrect`, `PolicyWasCurrentHolds`, `AnswerIsJustifiedHolds`, `FloorStandsHolds`, `TrustKeepsActionsHolds`, `TighteningNeverWeakens` | `CheckAnswer_proofs` | |
| `LifecycleTypeCorrect`, `NoDaemonIsLostHolds`, `DaemonsDoNotOverlapHolds`, `ServingIsReachableHolds` | `DaemonLifecycle_proofs` | |
| `PluginTypeCorrect`, `OwnAnswersHolds`, `WaitingForChildHolds`, `OnlyChildRunsHolds`, `RunsAsDecidedHolds`, `ImplementsGateHolds` | `DshBashPlugin_proofs` | |

The name of a theorem is that of its property and `Holds`.  Each module first proves an
inductive invariant (`PipelineCorrect`, `FaultCorrect`, `CleanCorrect`, `JoinsCorrect`,
`HistoryCorrect`, `BatchCorrect`, `LookupsCorrect`, `CheckCorrect`, `LifecycleCorrect`,
`PluginCorrect`), with one lemma or step per action.  Of the listed theorems, those without a
property of a run are `PipelineCorrect` and `FaultCorrect`, `BatchTypeCorrect` and
`StagedNodesAreCommittedHolds` (which `ImplementsBatches` includes), and
`TighteningNeverWeakens`, which compares two configurations and not two states.

**The pipeline.**  `RestoreIsPrefix` is not inductive: a compaction in a queue says nothing by
itself about the snapshot it was computed from, an event in a queue nothing about the log it
will be appended to.  `PipelineInv` adds, per session, what each part may assume of the
others:

- `DiskInv`: snapshot and log together are gapless; the unsynced events are the newest ones
  of the file; a line without newline is the newest event.  The last two make a power loss,
  and an append onto a bare line, take away a suffix only.
- `LiveInv`: the live state is gapless and `next` follows it.
- `LogQueueInv`: queued events are in order and newer than all durable ones, every event
  sent and not durable is queued, and every queued compaction is covered by the snapshot.
- `CheckpointQueueInv`: events queued for the checkpoint worker are durable, and a known
  session's durable events are applied or queued, so a state restored from a log that is
  ahead of the queue misses nothing and counts nothing twice.
- `CheckpointInv`: the checkpoint worker's state is an initial segment of what is durable,
  of a log that can be read and, while the log worker runs, ends with a newline.

`SessionPipeline_proofs` shows that each file operation keeps `Recoverable` and holds the
types and the lemmas on queues.  The assumption `~DatabaseFails` is needed for
`RestoreIsPrefix`: with it dropped, `failed_checkpoints` is a counterexample.

**The pipeline when everything fails.**  A snapshot that was not written and the compaction
that follows leave gaps, so that nothing in `PipelineInv` about initial segments survives.
`FaultInv` keeps what does: the events of a log that can be read, of its snapshot and of the
live state never use one index for two events, and new events are numbered after all of
them; what is queued belongs to the live state of a session the daemon holds; the checkpoint
worker knows only sessions whose log it could read, and its state is a part of the live one,
ahead of the snapshot.  The last is why a damaged log is never compacted: a compaction is
only asked for a session the worker knows, and its log cannot become unreadable afterwards,
because while the log worker runs it ends with a newline.

**The drop.**  `JoinInv` holds under any failure: each worker is told to stop in the phase it
is joined in and not before, no event is queued behind that command, and a worker that has
ended leaves an empty queue.  A worker that was joined without being told would wait for its sender,
which is the thread that waits for it; `DropEnds`, under fairness, is TLC's.

**The refinement.**  `CleanInv` adds to it that files are clean, durable events are among
those sent, queued compactions spare the retained tail, and the materializer carries only
durable events.  Under it each step of the pipeline is a stutter of `DurableHistory`, or
accepts events, or persists the oldest one (the head of the log queue), or loses the pending
ones.  `DrainInv` follows the shutdown: each worker runs until the phase it is joined in and
nothing follows its stop command; what was sent before the log worker exited is durable; the
daemon's own durable events have a row or are on their way to one; the checkpoint worker has
applied every durable event that is not in its queue.

**The session history.**  The difficulty is that commits are folds over a batch and restores
are folds over the log.  Both are written as recursive functions; the proofs treat them as
runs, sequences of states that begin and continue as the definition says, and argue by the
least index at which a claim fails (`LeastExists`, `IntervalInduction`, from the well-founded
order of the naturals).  `HistoryInv` says that the events sent so far lead to the session
that is held (`LeadsTo`: they replay without an error to exactly that state, and their checks
are numbered), and that nothing is queued when a session is restored, so that a kill leaves a
prefix that leads somewhere too.  `Good(state, events)`, shown along the replay, carries what
later properties need: the numbers in the summary, the explanation of the graph's facts, the
prediction behind a directory of source `static`.  `BeliefFollowsReport` follows from the
batch a reconciliation makes: one mutation per difference, none for a name that agrees.  For
`LogRestores`, `LogInv` says of every prefix of the log that its deltas have different
numbers and that the directory of the last number is the one in the graph: a second
reconciliation at a number, as after `interrupted_request`'s kill, would have to contradict
that directory and is refused before it is sent.

**The graph.**  `BatchIndInv`: before the batch is valid the graph is that of the last commit;
while it is applied the nodes are those of the view after the mutations applied so far; at
every step indexes and edges are those a restart would have.  The key lemmas are
`VirtualIsReal` (the first validation, with an anchor that is not there yet, implies the
second), `ViewStep`, `AddNodeRestorable` and `AddEdgeRestorable`.

The refinement of `AtomicBatches` maps `nodes` and `edges` to the graph at the last commit,
which is what a restart finds, and the batch accepted to the one that validation let through:
to validate is to accept, the loops over nodes and edges stutter, `Finish` commits and a
restart abandons.  The two things to show are that validation accepts only batches that can
be applied to the end (`Applicable`), and that the loops, which pass over nodes that are
already there, arrive at the batch written as a whole.

Lookups are harder than nodes: the staged view finds the number of semantics through one
edge of the batch, the graph through the first edge it has.  `LookupIndInv` says that the
nodes of semantics and the `Defines` edges that number them come from one unit.  That holds
for the mutations the passes make and not for every batch, hence `SemanticsAssumption`: the
id of semantics is the id of the unit with a prefix (`support/node_ids.rs` 46), the only
pass that makes them makes one for each unit (`extract_execution_semantics.rs` 43-61), and
the projection gives it the `Defines` edge from that unit (`mutation.rs` 543-563).  Without it an
edge with an implicit source could give semantics a number the view does not have.

**Configuration and answers.**  `CheckInv`: a policy whose stamp is that of the file is the
policy of the file, unless a lapse has happened; the file's content is always in the window of
the request being handled; a hook has at each step what it needs.  `TighteningNeverWeakens` is about `Policy` alone: if
no action a configuration writes is laxer than before, no key is added or dropped and no
roots become trusted, then no set of findings leads to a weaker decision, and neither does a
larger one.  Rules stand above their family, names above `unknown`, `unknown` above the kind
of gap, the floor above all and trusted paths may remove findings, so that it is not obvious
that being stricter at one key cannot uncover something laxer.

**The lifecycle.**  `LifecycleInv`: the steps under the lock and the lock agree, the lease is
held exactly by the daemon between taking it and the end of its loop, and, as long as there is
no lapse, every running daemon is accounted for, by metadata or by what the holder of the lock
has in its hands.  A hook that clears metadata or starts a daemon has either seen the old one
end or passed over it, which is the lapse `unidentified`.  That two daemons do not overlap
follows, although the lease covers neither the opening of the store nor the draining, and from
it that a socket unlinked is never that of a daemon that goes on.

**The plugin.**  `PluginInv`: a call waits exactly when its id is pending, for the child;
whatever is in the pipes of the child is awaited by the call it is for, and no two parts of it
have one id; a generation is new until a call starts it; a denial is noted before others are
asked.  The refinement of `CallGate` maps each call's step and verdict to `new`, `held`, a
verdict or an end; the events of adapter processes, timers and pipes are stutters, a turn of
the event loop that fails several calls at once is one step of `Fail`.

Only model-checked: liveness (`HooksEnd`, `CallsAreDecided`, `EventsBecomeDurable`,
`CheckpointsCatchUp`, `DropEnds`), because fairness and ENABLED are beyond this prover.
Every invariant and every refinement the passing runs check is also a theorem.

## 6. Not modelled

- Passes, parser, profiles (about 80,000 lines): pure functions of a command and a graph, made
  of rules and tables about shell commands.  The models choose what they report freely; a
  model of one of them would repeat its rules.  They are the larger part of the code, and why
  the map covers a small share of its lines.
- Queries, shared types, the viewer, packaging, and of runtime security what is not process
  identity: no state of their own.  That a query reads the snapshot and the log one after the
  other, with a compaction in between, is not modelled.
- The claude hook beside the codex hook: its protocol with the daemon is the same but for an
  older pid file it also reads, one deadline in place of two, and no progress of a start.
- The records of active sessions and the status commands, which decide nothing.
- Two daemons of two workspaces on one store (`lib.rs` 742), and the repair of a session log
  (`lib.rs` 1106) beside a daemon.  A repair by itself has two limits: it rebuilds the snapshot
  from an empty session and the events still in the log, so that repairing a compacted session
  loses the compacted part; and it reads the log first with a reader that refuses a line which
  does not decode, which is the damage of finding 1.
- In the pipeline: rows the table misses or shows too many of after a power loss or a kill
  (`store.rs` 328; the table is for display).  A restore or an update that fails because of what
  an event does to the state (`apply_state_effect`, `lib.rs` 406-410, 938-964), and the search
  for duplicate numbers in the tail, are in `SessionHistory`: `RestoredIsLive` and `LogRestores`
  say when they do not fail.
- In the session state: aliases and positional parameters, which the summary treats like
  variables and whose nodes cannot conflict; knowledge of exported variables only, and
  reports that know the variables but not the functions, or the reverse (`known` stands for both).
- In the graph: a delta of a client at a number the session has not reached (it has no command
  to hang facts on: it fails or changes only the summary, which is `SessionHistory`'s); incoming
  and outgoing edges per node, the parts of node contents that nothing
  looks up, and the translation to and from persisted mutations.
- In the configuration: path patterns, taint limits, locator kinds, the config subcommand.

What the models contain and no property forbids, for a reader of the code to know:

- A hook that cannot write its log ends without an answer (`main.rs` 248, 755), and no
  fallback is applied; `Finish` has that outcome.
- A change of the configuration goes unseen when the new file has the length and time of the
  old one, and when a file that was read at the start of the daemon is removed before the first
  request (`lapses` in `CheckAnswer`).  A file that is broken when the daemon starts gives it
  the built-in policy; an error of `stat` other than "not found" keeps the old one.
- The action for unknown commands stands above the action for the kind of gap a command is.
  To write `need_approval` for it weakens a configuration that denies the gap, which is why
  `Tightens` lets that key become `deny` only.
- A hook's settings and the daemon's policy may come from two versions of the file; no property
  says which combinations are wanted.
- Three things lose a daemon to the hooks (`lapses` in `DaemonLifecycle`); its lease then keeps
  later daemons from serving, or its socket is taken away, until it ends.  `unrecorded`: a hook
  is killed between starting it and writing its metadata.  `overwritten`: a hook writes back
  metadata that another has replaced meanwhile.  `unidentified`: a hook takes a live daemon for
  another process, does not terminate it, clears its metadata, unlinks its socket and starts
  another (`ensure_daemon`, `main.rs` 942-978).  That happens when its start marker was not
  found within 250 ms (`main.rs` 1057, 1490) and when the file it runs is no longer the one at
  its path (`caushell-runtime-security/src/lib.rs` 247-258): an upgrade in place, the case in
  which the fingerprint in the metadata tells the hook to replace the daemon, keeps it from
  doing so unless the old daemon has ended by itself.
- A daemon that accepts connections and does not answer blocks every hook of its workspace,
  since neither the ping nor the adapter's request has a timeout.  `failure_action` is not
  applied until the daemon ends or the harness kills the hook.
- A hook that gives up on a start removes the metadata, and with it the last valid setting.
- The facts of an allowed command are committed although its answer may never arrive; those of
  a command that needed approval are not, although in observe mode it runs.
- The dsh adapter takes no writer lease.  One call of the plugin that is aborted or late
  makes the others that wait for the same process fall back.
- The staged view hangs directory, alias and function nodes on an anchor of its own, the
  commit on the first command; no lookup follows those edges.

What is left to do: a model of the shared store composed of `EventLog` and two request
threads, with the repair tool; the claude hook's protocol as an instance of the lifecycle; the
active session records; and, in the proofs, the step from `GraphBatch` to the one-step commits
of `SessionHistory` as a refinement of its own.
