--------------------------- MODULE SessionPipeline ---------------------------
(***************************************************************************)
(* The persistence pipeline of one Caushell daemon and its restarts        *)
(* (caushell/src/lib.rs with caushell-store/src/store.rs).                 *)
(*                                                                         *)
(* The request thread keeps the session states in memory and sends every   *)
(* event, once applied, to the log worker and answers.  The log worker     *)
(* appends it to the session's log file and hands it to the materializer,  *)
(* which inserts a row for it, and to the checkpoint worker, which keeps a *)
(* session state of its own, writes it as a snapshot every                 *)
(* CheckpointInterval events and asks the log worker to compact the log    *)
(* up to RetentionTail events before it.  The channels are unbounded FIFO  *)
(* queues.  When serving ends the runtime is dropped: it stops and joins   *)
(* the log worker, the materializer and the checkpoint worker in this      *)
(* order and compacts the logs of the sessions it had loaded.  A daemon    *)
(* that is killed skips all of that.                                       *)
(***************************************************************************)
EXTENDS EventLog, Sequences

CONSTANTS
  Session,            (* the sessions                                      *)
  CheckpointInterval, (* CHECKPOINT_EVENT_INTERVAL, 25 in the code         *)
  RetentionTail,      (* LOG_RETENTION_TAIL_EVENT_COUNT, 32 in the code    *)
  SyncInterval,       (* LOG_SYNC_EVENT_INTERVAL, 25 in the code           *)
  MaxRuns,            (* bound: number of times a daemon is started        *)
  TornWrites,         (* whether an append cut short may leave half behind *)
  PowerLoss,          (* whether the machine may lose unsynced data        *)
  LogFails,           (* whether writing a log file may fail               *)
  DatabaseFails       (* whether writing to the SQLite database may fail   *)

ASSUME IntervalAssumption ==
  /\ CheckpointInterval \in Nat \ {0}
  /\ RetentionTail \in Nat \ {0}
  /\ SyncInterval \in Nat \ {0}
ASSUME RunAssumption == MaxRuns \in Nat
ASSUME FailureAssumption ==
  {TornWrites, PowerLoss, LogFails, DatabaseFails} \subseteq BOOLEAN

VARIABLES
  phase,         (* what the request thread does: serve or drop the runtime *)
  run,           (* the number of the current daemon run                    *)
  loaded,        (* the sessions with an entry in next_event_index          *)
  next,          (* next_event_index_by_session                             *)
  live,          (* the session states of the core                          *)
  logAlive, logQueue,            (* the log worker and its channel          *)
  unsyncedCount,                 (* its unsynced_event_counts               *)
  materializerAlive, materializerQueue,
  checkpointAlive, checkpointQueue,
  known,         (* the sessions the checkpoint worker has a state for      *)
  checkpoint,    (* those states                                            *)
  log,           (* the log files                                           *)
  snapshot,      (* the snapshots table                                     *)
  rows           (* the events table                                        *)

daemonVars == <<phase, run, loaded, next, live>>
logVars == <<logAlive, logQueue, unsyncedCount>>
materializerVars == <<materializerAlive, materializerQueue>>
checkpointVars == <<checkpointAlive, checkpointQueue, known, checkpoint>>
diskVars == <<log, snapshot, rows>>
vars == <<daemonVars, logVars, materializerVars, checkpointVars, diskVars>>

Phase == {"down", "serving", "joinLog", "joinMaterializer",
          "joinCheckpoint", "compacting"}

EventCommand(s, e) == [op |-> "event", session |-> s, event |-> e]
CompactCommand(s, n) == [op |-> "compact", session |-> s, through |-> n]
Shutdown == [op |-> "shutdown"]

EventCommands == [op : {"event"}, session : Session, event : Event]
CompactCommands == [op : {"compact"}, session : Session, through : Nat]

WorkerCommands == EventCommands \union {Shutdown}
LogCommands == WorkerCommands \union CompactCommands

CheckpointState == [applied : Nat, last : Nat, state : SUBSET Event]
NoCheckpoint == [applied |-> 0, last |-> 0, state |-> {}]

(***************************************************************************)
(* A daemon starts with no session loaded and three fresh workers.         *)
(***************************************************************************)
Reset(alive) ==
  /\ loaded' = {}
  /\ next' = [s \in Session |-> 0]
  /\ live' = [s \in Session |-> {}]
  /\ logAlive' = alive
  /\ logQueue' = <<>>
  /\ unsyncedCount' = [s \in Session |-> 0]
  /\ materializerAlive' = alive
  /\ materializerQueue' = <<>>
  /\ checkpointAlive' = alive
  /\ checkpointQueue' = <<>>
  /\ known' = {}
  /\ checkpoint' = [s \in Session |-> NoCheckpoint]

Init ==
  /\ phase = "down"
  /\ run = 0
  /\ loaded = {}
  /\ next = [s \in Session |-> 0]
  /\ live = [s \in Session |-> {}]
  /\ logAlive = FALSE
  /\ logQueue = <<>>
  /\ unsyncedCount = [s \in Session |-> 0]
  /\ materializerAlive = FALSE
  /\ materializerQueue = <<>>
  /\ checkpointAlive = FALSE
  /\ checkpointQueue = <<>>
  /\ known = {}
  /\ checkpoint = [s \in Session |-> NoCheckpoint]
  /\ log = [s \in Session |-> EmptyLog]
  /\ snapshot = [s \in Session |-> NoSnapshot]
  /\ rows = [s \in Session |-> {}]

Start ==
  /\ phase = "down"
  /\ run < MaxRuns
  /\ phase' = "serving"
  /\ run' = run + 1
  /\ Reset(TRUE)
  /\ UNCHANGED diskVars

(***************************************************************************)
(* The request thread.  A request first loads its session if the daemon    *)
(* does not hold it yet.                                                   *)
(***************************************************************************)
Loadable(s) == s \in loaded \/ Restorable(log[s], snapshot[s])

LiveState(s) ==
  IF s \in loaded THEN live[s] ELSE RestoredState(log[s], snapshot[s])

(* Deliberately wrong: a restored session reuses its last event_index. *)
NextIndex_Reused(s) ==
  IF s \in loaded THEN next[s] ELSE AppliedIndex(log[s], snapshot[s])

NextIndex(s) ==
  IF s \in loaded THEN next[s] ELSE AppliedIndex(log[s], snapshot[s]) + 1

(* The event the session observes i events from now. *)
Observed(s, i) == [ix |-> NextIndex(s) + i, run |-> run]

(* The request of session s applies its events to the live state, and gets *)
(* as far as sending the first sent of them.                               *)
Apply(s, applied, sent) ==
  /\ NextIndex(s) + applied <= MaxIndex + 1
  /\ loaded' = loaded \union {s}
  /\ next' = [next EXCEPT ![s] = NextIndex(s) + sent]
  /\ live' = [live EXCEPT ![s] =
                LiveState(s) \union {Observed(s, i) : i \in 0..(applied - 1)}]

(* Dropping the runtime begins by asking the log worker to stop.           *)
EndServing ==
  /\ phase' = "joinLog"
  /\ logQueue' = IF logAlive THEN Append(logQueue, Shutdown) ELSE logQueue

(* A request is answered once its events, one for the check (or the shell  *)
(* state delta) and one before it when the runtime's shell state had to be *)
(* reconciled, are applied and sent.                                       *)
HandleRequest(s) ==
  /\ phase = "serving"
  /\ Loadable(s)
  /\ logAlive
  /\ \/ /\ Apply(s, 1, 1)
        /\ logQueue' = Append(logQueue, EventCommand(s, Observed(s, 0)))
     \/ /\ Apply(s, 2, 2)
        /\ logQueue' = Append(Append(logQueue, EventCommand(s, Observed(s, 0))),
                              EventCommand(s, Observed(s, 1)))
  /\ UNCHANGED <<phase, run, logAlive, unsyncedCount, materializerVars,
                 checkpointVars, diskVars>>

(* With the log worker gone the events are applied but cannot be sent (the *)
(* first of two may have been, to be lost with the worker's queue): the    *)
(* request fails, which ends the daemon.                                   *)
HandleRequestUnpersisted(s) ==
  /\ phase = "serving"
  /\ Loadable(s)
  /\ ~logAlive
  /\ \E applied \in 1..2 : \E sent \in 0..(applied - 1) : Apply(s, applied, sent)
  /\ EndServing
  /\ UNCHANGED <<run, logAlive, unsyncedCount, materializerVars,
                 checkpointVars, diskVars>>

(* Any other error of a request, or of its connection, ends the daemon:    *)
(* before the session is loaded, because it cannot be, or after, when the  *)
(* check fails, with or without a shell state delta already applied.       *)
FailRequest(s) ==
  /\ phase = "serving"
  /\ \/ UNCHANGED <<loaded, next, live>>
     \/ Loadable(s) /\ \E applied \in 0..1 : Apply(s, applied, 0)
  /\ EndServing
  /\ UNCHANGED <<run, logAlive, unsyncedCount, materializerVars,
                 checkpointVars, diskVars>>

(***************************************************************************)
(* The log worker.                                                         *)
(***************************************************************************)
NextLogCommand(op) ==
  /\ logAlive
  /\ logQueue # <<>>
  /\ Head(logQueue).op = op

LogWorkerExits ==
  /\ logAlive' = FALSE
  /\ logQueue' = <<>>

(* sync_all: the files of the sessions appended to since their last sync   *)
(* are synced, some of them only when syncing fails.                       *)
SyncAll(files) ==
  \E reached \in IF LogFails THEN SUBSET Session ELSE {Session} :
    log' = [s \in Session |-> IF s \in reached /\ unsyncedCount[s] # 0
                                THEN Synced(files[s])
                                ELSE files[s]]

LogAppend ==
  /\ NextLogCommand("event")
  /\ LET s == Head(logQueue).session
         e == Head(logQueue).event
         written == WriteRecord(log[s], e, "done")
         sync == unsyncedCount[s] + 1 >= SyncInterval
     IN  /\ log' = [log EXCEPT ![s] = IF sync THEN Synced(written) ELSE written]
         /\ unsyncedCount' =
              [unsyncedCount EXCEPT ![s] = IF sync THEN 0 ELSE @ + 1]
         /\ materializerQueue' = IF materializerAlive
                                   THEN Append(materializerQueue, Head(logQueue))
                                   ELSE materializerQueue
         /\ checkpointQueue' = IF checkpointAlive
                                 THEN Append(checkpointQueue, Head(logQueue))
                                 ELSE checkpointQueue
  /\ logQueue' = Tail(logQueue)
  /\ UNCHANGED <<daemonVars, logAlive, materializerAlive, checkpointAlive,
                 known, checkpoint, snapshot, rows>>

(* An append that fails stops the worker and loses what is queued: the     *)
(* event may be written, in part or as a whole, and is sent to nobody.     *)
LogAppendFails ==
  /\ LogFails
  /\ NextLogCommand("event")
  /\ LET s == Head(logQueue).session
         e == Head(logQueue).event
     IN  \/ SyncAll(log)
         \/ \E out \in {"torn", "bare", "done"} :
              /\ out = "done" => unsyncedCount[s] + 1 >= SyncInterval
              /\ out # "done" => TornWrites
              /\ SyncAll([log EXCEPT ![s] = WriteRecord(@, e, out)])
  /\ LogWorkerExits
  /\ UNCHANGED <<daemonVars, unsyncedCount, materializerVars, checkpointVars,
                 snapshot, rows>>

(* Deliberately wrong: the worker stops after a compaction. *)
LogCompact_Exits ==
  /\ NextLogCommand("compact")
  /\ log' = [log EXCEPT ![Head(logQueue).session] =
               CompactUpTo(@, Head(logQueue).through)]
  /\ LogWorkerExits
  /\ UNCHANGED <<daemonVars, unsyncedCount, materializerVars, checkpointVars,
                 snapshot, rows>>

LogCompact ==
  /\ NextLogCommand("compact")
  /\ LET s == Head(logQueue).session
         through == Head(logQueue).through
     IN  \/ /\ through = 0
            /\ UNCHANGED <<log, unsyncedCount>>
         \/ /\ through > 0
            /\ Readable(log[s])
            /\ log' = [log EXCEPT ![s] = CompactUpTo(@, through)]
            /\ unsyncedCount' = [unsyncedCount EXCEPT ![s] = 0]
  /\ logQueue' = Tail(logQueue)
  /\ UNCHANGED <<daemonVars, logAlive, materializerVars, checkpointVars,
                 snapshot, rows>>

LogCompactFails ==
  /\ NextLogCommand("compact")
  /\ LET s == Head(logQueue).session
         through == Head(logQueue).through
     IN  /\ through > 0
         /\ LogFails \/ ~Readable(log[s])
         /\ \/ SyncAll(log)
            \/ /\ Readable(log[s])
               /\ SyncAll([log EXCEPT ![s] = CompactUpTo(@, through)])
  /\ LogWorkerExits
  /\ UNCHANGED <<daemonVars, unsyncedCount, materializerVars, checkpointVars,
                 snapshot, rows>>

LogShutdown ==
  /\ NextLogCommand("shutdown")
  /\ SyncAll(log)
  /\ LogWorkerExits
  /\ UNCHANGED <<daemonVars, unsyncedCount, materializerVars, checkpointVars,
                 snapshot, rows>>

(***************************************************************************)
(* The materializer.  The events table has the primary key (session_id,    *)
(* event_index); an INSERT that fails is ignored.                          *)
(***************************************************************************)
Materialize ==
  /\ materializerAlive
  /\ materializerQueue # <<>>
  /\ Head(materializerQueue).op = "event"
  /\ LET s == Head(materializerQueue).session
         e == Head(materializerQueue).event
     IN  \/ /\ e.ix \notin Indices(rows[s])
            /\ rows' = [rows EXCEPT ![s] = @ \union {e}]
         \/ /\ e.ix \in Indices(rows[s]) \/ DatabaseFails
            /\ UNCHANGED rows
  /\ materializerQueue' = Tail(materializerQueue)
  /\ UNCHANGED <<daemonVars, logVars, materializerAlive, checkpointVars, log,
                 snapshot>>

MaterializerShutdown ==
  /\ materializerAlive
  /\ materializerQueue # <<>>
  /\ Head(materializerQueue) = Shutdown
  /\ materializerAlive' = FALSE
  /\ materializerQueue' = <<>>
  /\ UNCHANGED <<daemonVars, logVars, checkpointVars, diskVars>>

(***************************************************************************)
(* The checkpoint worker.  Its state of a session it does not know yet is  *)
(* restored from disk, where the log may already hold events whose updates *)
(* are still queued: those updates are then passed over.                   *)
(***************************************************************************)
RestoredCheckpoint(s) ==
  [applied |-> AppliedIndex(log[s], snapshot[s]),
   last    |-> snapshot[s].last,
   state   |-> RestoredState(log[s], snapshot[s])]

(* Deliberately wrong: the worker starts from an empty state. *)
KnownCheckpoint_FromScratch(s) ==
  IF s \in known THEN checkpoint[s] ELSE NoCheckpoint

KnownCheckpoint(s) ==
  IF s \in known THEN checkpoint[s] ELSE RestoredCheckpoint(s)

Updated(state, e) ==
  IF e.ix > state.applied
    THEN [state EXCEPT !.applied = e.ix, !.state = @ \union {e}]
    ELSE state

(* Deliberately wrong: a checkpoint one event late. *)
CheckpointDue_Late(state) ==
  SaturatingSub(state.applied, state.last) > CheckpointInterval

CheckpointDue(state) ==
  SaturatingSub(state.applied, state.last) >= CheckpointInterval

SnapshotOf(state) == [last |-> state.applied, state |-> state.state]

Checkpointed(state) == [state EXCEPT !.last = state.applied]

NextUpdate ==
  /\ checkpointAlive
  /\ checkpointQueue # <<>>
  /\ Head(checkpointQueue).op = "event"

CheckpointUpdate ==
  /\ NextUpdate
  /\ LET s == Head(checkpointQueue).session
         e == Head(checkpointQueue).event
         state == Updated(KnownCheckpoint(s), e)
     IN  /\ s \in known \/ Restorable(log[s], snapshot[s])
         /\ known' = known \union {s}
         /\ \/ /\ ~CheckpointDue(state)
               /\ checkpoint' = [checkpoint EXCEPT ![s] = state]
               /\ UNCHANGED <<snapshot, logQueue>>
            \/ /\ CheckpointDue(state)
               /\ \/ /\ snapshot' = [snapshot EXCEPT ![s] = SnapshotOf(state)]
                     /\ checkpoint' = [checkpoint EXCEPT ![s] = Checkpointed(state)]
                  \/ /\ DatabaseFails
                     /\ checkpoint' = [checkpoint EXCEPT ![s] = state]
                     /\ UNCHANGED snapshot
               /\ logQueue' =
                    IF logAlive
                      THEN Append(logQueue,
                             CompactCommand(s, SaturatingSub(state.applied, RetentionTail)))
                      ELSE logQueue
  /\ checkpointQueue' = Tail(checkpointQueue)
  /\ UNCHANGED <<daemonVars, logAlive, unsyncedCount, materializerVars,
                 checkpointAlive, log, rows>>

(* An update of a session that cannot be restored is dropped.              *)
CheckpointUpdateDropped ==
  /\ NextUpdate
  /\ LET s == Head(checkpointQueue).session
     IN  s \notin known /\ ~Restorable(log[s], snapshot[s])
  /\ checkpointQueue' = Tail(checkpointQueue)
  /\ UNCHANGED <<daemonVars, logVars, materializerVars, checkpointAlive, known,
                 checkpoint, diskVars>>

(* The last checkpoints; the log worker has exited, so the compactions     *)
(* asked for go nowhere.                                                   *)
CheckpointShutdown ==
  /\ checkpointAlive
  /\ checkpointQueue # <<>>
  /\ Head(checkpointQueue) = Shutdown
  /\ LET behind == {s \in known : checkpoint[s].applied > checkpoint[s].last}
     IN  \E written \in {behind} \union (IF DatabaseFails THEN SUBSET behind ELSE {}) :
           snapshot' = [s \in Session |-> IF s \in written
                                            THEN SnapshotOf(checkpoint[s])
                                            ELSE snapshot[s]]
  /\ checkpointAlive' = FALSE
  /\ checkpointQueue' = <<>>
  /\ UNCHANGED <<daemonVars, logVars, materializerVars, known, checkpoint, log,
                 rows>>

(***************************************************************************)
(* Dropping the runtime.                                                   *)
(***************************************************************************)
(* Deliberately wrong: the log worker is not joined. *)
DropJoinLog_NoJoin ==
  /\ phase = "joinLog"
  /\ phase' = "joinMaterializer"
  /\ materializerQueue' = Append(materializerQueue, Shutdown)
  /\ UNCHANGED <<run, loaded, next, live, logVars, materializerAlive,
                 checkpointVars, diskVars>>

(* Deliberately wrong: the materializer is joined without being stopped. *)
DropJoinLog_NoShutdown ==
  /\ phase = "joinLog"
  /\ ~logAlive
  /\ phase' = "joinMaterializer"
  /\ UNCHANGED <<run, loaded, next, live, logVars, materializerVars,
                 checkpointVars, diskVars>>

DropJoinLog ==
  /\ phase = "joinLog"
  /\ ~logAlive
  /\ phase' = "joinMaterializer"
  /\ materializerQueue' = Append(materializerQueue, Shutdown)
  /\ UNCHANGED <<run, loaded, next, live, logVars, materializerAlive,
                 checkpointVars, diskVars>>

DropJoinMaterializer ==
  /\ phase = "joinMaterializer"
  /\ ~materializerAlive
  /\ phase' = "joinCheckpoint"
  /\ checkpointQueue' = Append(checkpointQueue, Shutdown)
  /\ UNCHANGED <<run, loaded, next, live, logVars, materializerVars,
                 checkpointAlive, known, checkpoint, diskVars>>

(* The compactions at the end stop before the snapshot on disk; one that   *)
(* fails, as it does when the log is not readable, is ignored.             *)
DropJoinCheckpoint ==
  /\ phase = "joinCheckpoint"
  /\ ~checkpointAlive
  /\ phase' = "down"
  /\ \E failed \in IF LogFails THEN SUBSET loaded ELSE {{}} :
       log' = [s \in Session |->
                 IF s \in loaded \ failed /\ Readable(log[s])
                   THEN CompactUpTo(log[s],
                          SaturatingSub(snapshot[s].last, RetentionTail))
                   ELSE log[s]]
  /\ UNCHANGED <<run, loaded, next, live, logVars, materializerVars,
                 checkpointVars, snapshot, rows>>

(***************************************************************************)
(* The environment: a kill loses what is in memory and may leave behind    *)
(* half of the append in progress; a power loss also loses a suffix of     *)
(* what has not been synced.                                               *)
(***************************************************************************)
Kill ==
  /\ phase # "down"
  /\ phase' = "down"
  /\ \/ UNCHANGED log
     \/ /\ TornWrites
        /\ NextLogCommand("event")
        /\ \E out \in {"torn", "bare"} :
             log' = [log EXCEPT ![Head(logQueue).session] =
                       WriteRecord(@, Head(logQueue).event, out)]
  /\ Reset(FALSE)
  /\ UNCHANGED <<run, snapshot, rows>>

LosePower ==
  /\ PowerLoss
  /\ phase # "down"
  /\ phase' = "down"
  /\ \E from \in [Session -> 1..MaxIndex] :
       log' = [s \in Session |-> Surviving(log[s], from[s])]
  /\ Reset(FALSE)
  /\ UNCHANGED <<run, snapshot, rows>>

-----------------------------------------------------------------------------
LogWorker == LogAppend \/ LogAppendFails \/ LogCompact \/ LogCompactFails \/ LogShutdown
Materializer == Materialize \/ MaterializerShutdown
CheckpointWorker == CheckpointUpdate \/ CheckpointUpdateDropped \/ CheckpointShutdown
Drop == DropJoinLog \/ DropJoinMaterializer \/ DropJoinCheckpoint
Request(s) == HandleRequest(s) \/ HandleRequestUnpersisted(s) \/ FailRequest(s)

Next ==
  \/ Start
  \/ \E s \in Session : Request(s)
  \/ LogWorker
  \/ Materializer
  \/ CheckpointWorker
  \/ Drop
  \/ Kill
  \/ LosePower

Spec == Init /\ [][Next]_vars

(* The operating system keeps running every thread of a daemon that lives. *)
Fairness ==
  /\ WF_vars(LogWorker)
  /\ WF_vars(Materializer)
  /\ WF_vars(CheckpointWorker)
  /\ WF_vars(Drop)

FairSpec == Spec /\ Fairness
=============================================================================
