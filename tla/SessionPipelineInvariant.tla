---------------------- MODULE SessionPipelineInvariant ----------------------
(***************************************************************************)
(* What the persistence pipeline guarantees, and the inductive invariant   *)
(* behind it.                                                              *)
(***************************************************************************)
EXTENDS SessionPipeline

(* What a restart would find of session s, now. *)
Durable(s) == RestoredState(log[s], snapshot[s])

(* The events of the live state that were sent to the log worker.          *)
Sent(s) == {e \in live[s] : e.ix < next[s]}

(* Command i of a queue carries an event of session s; the events of s a   *)
(* queue carries, and the indices it asks to compact the log of s through. *)
Carries(queue, i, s) == queue[i].op = "event" /\ queue[i].session = s

Carried(queue, s) ==
  {queue[i].event : i \in {j \in DOMAIN queue : Carries(queue, j, s)}}

Compactions(queue, s) ==
  {queue[i].through : i \in {j \in DOMAIN queue :
                               queue[j].op = "compact" /\ queue[j].session = s}}

(* Every variable has its type. *)
TypeOK ==
  /\ phase \in Phase
  /\ run \in Nat
  /\ loaded \subseteq Session
  /\ next \in [Session -> Nat] /\ \A s \in loaded : next[s] # 0
  /\ live \in [Session -> SUBSET Event]
  /\ logAlive \in BOOLEAN
  /\ logQueue \in Seq(LogCommands)
  /\ unsyncedCount \in [Session -> Nat]
  /\ materializerAlive \in BOOLEAN
  /\ materializerQueue \in Seq(WorkerCommands)
  /\ checkpointAlive \in BOOLEAN
  /\ checkpointQueue \in Seq(WorkerCommands)
  /\ known \subseteq Session
  /\ checkpoint \in [Session -> CheckpointState]
  /\ log \in [Session -> LogFile]
  /\ snapshot \in [Session -> Snapshot]
  /\ rows \in [Session -> SUBSET Event]

(* As long as snapshots can be written, what a restart would find of a     *)
(* session is at every moment an initial segment, without a gap, of what   *)
(* the daemon holds in memory: compaction never drops an event that no     *)
(* snapshot covers, whatever the workers' lag, kills and power losses.     *)
RestoreIsPrefix ==
  \A s \in Session : Readable(log[s]) =>
    /\ \E n \in 0..MaxIndex : WholeUpTo(Durable(s), n)
    /\ s \in loaded => Durable(s) \subseteq live[s]

(* Whatever fails, a restart never finds two different events with one     *)
(* event_index, nor one that the daemon serving the session does not hold. *)
RestoreFollowsLive ==
  \A s \in Session : Readable(log[s]) =>
    /\ ~Conflicting(Durable(s) \union log[s].lines)
    /\ s \in loaded => Durable(s) \subseteq live[s]

(* The state a request is checked against holds every event of the session *)
(* from its first one on.                                                  *)
CommittedFactsPresent ==
  \A s \in loaded : \E n \in 0..MaxIndex : WholeUpTo(live[s], n)

(* A log the daemon has been writing stays readable.                       *)
LogStaysReadable == \A s \in Session : Readable(log[s])

(* Compaction leaves the last RetentionTail events before the snapshot in  *)
(* the log, for readers that hold an older snapshot.                       *)
TailRetained ==
  \A s \in Session : \A e \in Durable(s) :
    e.ix + RetentionTail > snapshot[s].last => e \in log[s].lines

(* The events table shows no event that a restart would not find.          *)
RowsAreDurable == \A s \in Session : rows[s] \subseteq Durable(s)

(* An unreadable log is never compacted, so that it cannot stop the log    *)
(* worker the other sessions share.                                        *)
OnlyReadableLogsCompacted ==
  \A s \in Session : Compactions(logQueue, s) # {} => Readable(log[s])

(* A runtime that was dropped, and not killed, has made every event it     *)
(* sent durable and visible in the events table, and left a snapshot of    *)
(* each session that had any.                                              *)
DropDrains ==
  phase = "down" =>
    \A s \in loaded :
      LET accepted == {e \in Sent(s) : e.run = run}
      IN  /\ Durable(s) = Sent(s)
          /\ accepted \subseteq rows[s]
          /\ accepted # {} => snapshot[s].state = Sent(s)

(* The drop never waits for a worker that nobody has told to stop, or that *)
(* will not be told any more: whatever has failed before, the worker that  *)
(* is joined has its stop command, with no event queued behind it that     *)
(* would be lost, and the workers that feed it have exited (Drop for       *)
(* CliRuntime, lib.rs 838-871).  No worker outlives the drop.              *)
Stopping(queue) ==
  \E i \in DOMAIN queue :
    /\ queue[i].op = "shutdown"
    /\ \A j \in DOMAIN queue : i < j => queue[j].op # "event"

JoinsCanEnd ==
  /\ phase = "joinLog" /\ logAlive => Stopping(logQueue)
  /\ phase = "joinMaterializer" =>
       ~logAlive /\ (materializerAlive => Stopping(materializerQueue))
  /\ phase = "joinCheckpoint" =>
       ~logAlive /\ ~materializerAlive /\ (checkpointAlive => Stopping(checkpointQueue))
  /\ phase = "down" => ~logAlive /\ ~materializerAlive /\ ~checkpointAlive

(* The pipeline implements the abstract history of its sessions: queues,   *)
(* checkpoints and compaction are invisible in it.                         *)
Abstract == INSTANCE DurableHistory WITH
  durable <- [s \in Session |-> Durable(s)],
  pending <- [s \in Session |-> IF s \in loaded THEN Sent(s) \ Durable(s) ELSE {}]

ImplementsHistory == Abstract!Spec

(* An event sent to the log worker becomes durable, unless the daemon ends *)
(* first.                                                                  *)
EventsBecomeDurable ==
  \A s \in Session, n \in 1..MaxIndex :
    n \in Indices(Carried(logQueue, s))
      ~> (n \in Indices(Durable(s)) \/ phase = "down")

(* The snapshot catches up to less than CheckpointInterval events behind   *)
(* every event the checkpoint worker is sent, unless the daemon ends first.*)
CheckpointsCatchUp ==
  \A s \in Session, n \in 1..MaxIndex :
    n \in Indices(Carried(checkpointQueue, s))
      ~> (snapshot[s].last + CheckpointInterval > n \/ phase = "down")

(* Dropping the runtime ends: no worker waits for another in a circle.     *)
DropEnds == phase = "joinLog" ~> phase = "down"

-----------------------------------------------------------------------------
(* The conjuncts of the inductive invariant, for one session.              *)

(* On disk.                                                                *)
DiskInv(s) == Recoverable(log[s], snapshot[s])

(* In memory: the live state is whole, and next_event_index follows it     *)
(* until an event could not be sent.                                       *)
LiveInv(s) ==
  s \in loaded =>
    /\ \E n \in 0..MaxIndex :
         /\ WholeUpTo(live[s], n)
         /\ next[s] <= n + 1
         /\ phase = "serving" => next[s] = n + 1
    /\ Readable(log[s]) => Durable(s) \subseteq live[s]

InOrder(queue, s) ==
  \A i, j \in DOMAIN queue :
    Carries(queue, i, s) /\ Carries(queue, j, s) /\ i < j
      => queue[i].event.ix < queue[j].event.ix

(* An event queued for the log worker comes after every durable event, and *)
(* every event sent that is not durable is queued; compactions asked for   *)
(* are covered by the snapshot on disk.                                    *)
LogQueueInv(s) ==
  /\ Carried(logQueue, s) # {} => s \in loaded
  /\ Carried(logQueue, s) \subseteq Sent(s)
  /\ InOrder(logQueue, s)
  /\ Readable(log[s]) =>
       /\ \A e \in Durable(s), f \in Carried(logQueue, s) : e.ix < f.ix
       /\ logAlive /\ s \in loaded =>
            Sent(s) \ Durable(s) \subseteq Carried(logQueue, s)
  /\ Compactions(logQueue, s) # {} => s \in known
  /\ \A n \in Compactions(logQueue, s) : n <= snapshot[s].last

(* An event queued for the checkpoint worker is durable, and the worker    *)
(* has applied, or will be sent, every durable event of a session it       *)
(* knows; while the log worker runs, no such log is cut short.             *)
CheckpointQueueInv(s) ==
  /\ Carried(checkpointQueue, s) # {} =>
       s \in loaded /\ (logAlive => log[s].tail = "closed")
  /\ Readable(log[s]) =>
       /\ Carried(checkpointQueue, s) \subseteq Durable(s)
       /\ InOrder(checkpointQueue, s)
       /\ s \in known /\ checkpointAlive =>
            \A e \in Durable(s) :
              /\ e.ix > checkpoint[s].applied
              /\ logAlive \/ \E f \in Carried(checkpointQueue, s) : e.ix < f.ix
              => e \in Carried(checkpointQueue, s)

(* The checkpoint worker's state is an initial segment of what is durable. *)
CheckpointInv(s) ==
  s \in known =>
    /\ s \in loaded
    /\ Readable(log[s])
    /\ logAlive => log[s].tail = "closed"
    /\ WholeUpTo(checkpoint[s].state, checkpoint[s].applied)
    /\ checkpoint[s].state \subseteq Durable(s)
    /\ checkpointAlive => /\ checkpoint[s].last = snapshot[s].last
                          /\ checkpoint[s].last <= checkpoint[s].applied

SessionInv(s) ==
  /\ DiskInv(s)
  /\ LiveInv(s)
  /\ LogQueueInv(s)
  /\ CheckpointQueueInv(s)
  /\ CheckpointInv(s)

PipelineInv == TypeOK /\ \A s \in Session : SessionInv(s)

-----------------------------------------------------------------------------
(***************************************************************************)
(* What is left of it when snapshots may fail to be written: states have   *)
(* gaps then, but no event_index is given twice.                           *)
(***************************************************************************)
(* On disk.                                                                *)
FaultDiskInv(s) ==
  /\ \A e \in snapshot[s].state : e.ix <= snapshot[s].last
  /\ Readable(log[s]) => ~Conflicting(snapshot[s].state \union log[s].lines)

(* In memory: new events are numbered after all that were ever read.       *)
FaultLiveInv(s) ==
  (s \in loaded /\ Readable(log[s])) =>
    /\ Durable(s) \subseteq live[s]
    /\ ~Conflicting(live[s] \union log[s].lines)
    /\ phase = "serving" => \A e \in live[s] \union log[s].lines : e.ix < next[s]

(* In the queues: events of the live state, and compactions of sessions    *)
(* the checkpoint worker knows.                                            *)
FaultQueueInv(s) ==
  /\ Carried(logQueue, s) \union Carried(checkpointQueue, s) # {} => s \in loaded
  /\ Carried(logQueue, s) \union Carried(checkpointQueue, s) \subseteq live[s]
  /\ Carried(checkpointQueue, s) # {} => (logAlive => log[s].tail = "closed")
  /\ Compactions(logQueue, s) # {} => s \in known

(* The checkpoint worker's state is a part of the live one, and ahead of   *)
(* the snapshot.                                                           *)
FaultCheckpointInv(s) ==
  s \in known =>
    /\ s \in loaded
    /\ Readable(log[s])
    /\ logAlive => log[s].tail = "closed"
    /\ checkpoint[s].state \subseteq live[s]
    /\ \A e \in checkpoint[s].state : e.ix <= checkpoint[s].applied
    /\ checkpointAlive => snapshot[s].last <= checkpoint[s].applied

FaultSessionInv(s) ==
  /\ FaultDiskInv(s)
  /\ FaultLiveInv(s)
  /\ FaultQueueInv(s)
  /\ FaultCheckpointInv(s)

FaultInv == TypeOK /\ \A s \in Session : FaultSessionInv(s)

-----------------------------------------------------------------------------
(***************************************************************************)
(* The workers, whatever fails.                                            *)
(***************************************************************************)
(* Nothing in a queue stops its worker; no event comes after what does.    *)
Open(queue) == \A i \in DOMAIN queue : queue[i].op # "shutdown"

ClosedOff(queue) ==
  \A i, j \in DOMAIN queue :
    i < j /\ queue[i].op = "shutdown" => queue[j].op # "event"

(* A worker is told to stop in the phase it is joined in and not before,   *)
(* runs until then (but for the log worker, which may fail), and leaves    *)
(* nothing in its queue.                                                   *)
JoinInv ==
  /\ ClosedOff(logQueue) /\ ClosedOff(materializerQueue) /\ ClosedOff(checkpointQueue)
  /\ phase = "serving" => Open(logQueue)
  /\ logAlive => phase \in {"serving", "joinLog"}
  /\ phase = "joinLog" /\ logAlive => ~Open(logQueue)
  /\ phase \in {"serving", "joinLog"} => materializerAlive /\ Open(materializerQueue)
  /\ materializerAlive => phase \in {"serving", "joinLog", "joinMaterializer"}
  /\ phase = "joinMaterializer" /\ materializerAlive => ~Open(materializerQueue)
  /\ ~materializerAlive => materializerQueue = <<>>
  /\ phase \in {"serving", "joinLog", "joinMaterializer"} =>
       checkpointAlive /\ Open(checkpointQueue)
  /\ checkpointAlive => phase # "down"
  /\ phase = "joinCheckpoint" /\ checkpointAlive => ~Open(checkpointQueue)
  /\ ~checkpointAlive => checkpointQueue = <<>>
=============================================================================
