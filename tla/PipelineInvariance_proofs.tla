---------------------- MODULE PipelineInvariance_proofs ----------------------
(***************************************************************************)
(* The inductive invariants of the persistence pipeline: PipelineInv, for  *)
(* a database that does not fail, and FaultInv, what is left of it when    *)
(* that may fail too.  Torn writes, failed log writes, kills and power     *)
(* losses are allowed in both.                                             *)
(***************************************************************************)
EXTENDS SessionPipeline_proofs

(* A session keeps its invariant through every step that leaves what a     *)
(* restart would find as it is, and gives the session no new command.      *)
LEMMA DurableKept ==
  ASSUME NEW s \in Session, TypeOK, SessionInv(s),
         Recoverable(log'[s], snapshot'[s]),
         RestoredState(log'[s], snapshot'[s]) = RestoredState(log[s], snapshot[s]),
         Readable(log'[s]) <=> Readable(log[s]),
         log[s].tail = "closed" => log'[s].tail = "closed",
         snapshot'[s] = snapshot[s],
         next'[s] = next[s], live'[s] = live[s], checkpoint'[s] = checkpoint[s],
         s \in loaded' <=> s \in loaded,
         s \in known' <=> s \in known,
         phase' = "serving" => phase = "serving",
         logAlive' => logAlive,
         checkpointAlive' => checkpointAlive,
         InOrder(logQueue, s) => InOrder(logQueue', s),
         Carried(logQueue', s) \subseteq Carried(logQueue, s),
         logAlive' => Carried(logQueue', s) = Carried(logQueue, s),
         Compactions(logQueue', s) \subseteq Compactions(logQueue, s),
         InOrder(checkpointQueue, s) => InOrder(checkpointQueue', s),
         Carried(checkpointQueue', s) \subseteq Carried(checkpointQueue, s),
         s \in known /\ checkpointAlive' =>
           Carried(checkpointQueue', s) = Carried(checkpointQueue, s)
  PROVE  SessionInv(s)'
<1>1. DiskInv(s)'
  BY DEF DiskInv
<1>2. LiveInv(s)'
  BY DEF SessionInv, LiveInv, Durable
<1>3. LogQueueInv(s)'
  BY DEF SessionInv, LogQueueInv, Sent, Durable
<1>4. CheckpointQueueInv(s)'
  BY DEF SessionInv, CheckpointQueueInv, Durable
<1>5. CheckpointInv(s)'
  BY DEF SessionInv, CheckpointInv, Durable
<1> QED
  BY <1>1, <1>2, <1>3, <1>4, <1>5 DEF SessionInv

(* A daemon that has just started, or ended without a trace in memory,     *)
(* only has to find a recoverable disk.                                    *)
LEMMA NothingLoaded ==
  ASSUME NEW s \in Session, NEW alive, Reset(alive), Recoverable(log'[s], snapshot'[s])
  PROVE  SessionInv(s)'
<1>1. /\ Carried(logQueue', s) = {} /\ Compactions(logQueue', s) = {}
      /\ Carried(checkpointQueue', s) = {}
      /\ InOrder(logQueue', s) /\ InOrder(checkpointQueue', s)
      /\ s \notin loaded' /\ s \notin known'
  BY NothingQueued DEF Reset
<1>2. LogQueueInv(s)'
  BY <1>1 DEF LogQueueInv
<1>3. CheckpointQueueInv(s)'
  BY <1>1 DEF CheckpointQueueInv
<1> QED
  BY <1>1, <1>2, <1>3 DEF SessionInv, DiskInv, LiveInv, CheckpointInv

(* What the types say of one session. *)
LEMMA SessionTypes ==
  ASSUME TypeOK, NEW s \in Session
  PROVE  /\ log[s] \in LogFile /\ snapshot[s] \in Snapshot
         /\ Durable(s) \in SUBSET Event /\ live[s] \in SUBSET Event
         /\ next[s] \in Nat /\ (s \in loaded => next[s] # 0)
         /\ checkpoint[s] \in CheckpointState
         /\ run \in Nat
BY FileTypes DEF TypeOK, Durable

(* Taking the first event off the log worker's queue.                      *)
LEMMA TakeEvent ==
  ASSUME PipelineInv, NextLogCommand("event")
  PROVE  LET s == Head(logQueue).session
             e == Head(logQueue).event
         IN  /\ s \in Session /\ e \in Event /\ Head(logQueue) \in WorkerCommands
             /\ logQueue \in Seq(LogCommands) /\ logQueue # <<>> /\ logAlive
             /\ Head(logQueue).op = "event"
             /\ Carried(logQueue, s) = Carried(Tail(logQueue), s) \union {e}
             /\ \A f \in Carried(Tail(logQueue), s) : e.ix < f.ix
             /\ s \in loaded /\ e \in Sent(s)
             /\ \A t \in Session :
                  /\ t # s => Carried(Tail(logQueue), t) = Carried(logQueue, t)
                  /\ Compactions(Tail(logQueue), t) \subseteq Compactions(logQueue, t)
                  /\ InOrder(Tail(logQueue), t)
<1> DEFINE s == Head(logQueue).session
           e == Head(logQueue).event
<1>1. /\ s \in Session /\ e \in Event /\ Head(logQueue) \in WorkerCommands
      /\ logQueue \in Seq(LogCommands) /\ logQueue # <<>> /\ logAlive
      /\ Head(logQueue).op = "event"
  BY QueueTypes, CommandTypes DEF PipelineInv, TypeOK, NextLogCommand, EventCommands
<1>2. \A t \in Session : LogQueueInv(t)
  BY DEF PipelineInv, SessionInv
<1> HIDE DEF s, e
<1>3. /\ Carried(logQueue, s) = Carried(Tail(logQueue), s) \union {e}
      /\ InOrder(logQueue, s) => \A f \in Carried(Tail(logQueue), s) : e.ix < f.ix
  BY <1>1, TakeFromQueue DEF s, e
<1>4. ASSUME NEW t \in Session
      PROVE  /\ t # s => Carried(Tail(logQueue), t) = Carried(logQueue, t)
             /\ Compactions(Tail(logQueue), t) \subseteq Compactions(logQueue, t)
             /\ InOrder(logQueue, t) => InOrder(Tail(logQueue), t)
  BY <1>1, TakeFromQueue DEF s
<1> QED
  BY <1>1, <1>2, <1>3, <1>4 DEF LogQueueInv, s, e

(* The first event queued for the log worker is the one after the last     *)
(* durable one.                                                            *)
LEMMA FirstQueued ==
  ASSUME PipelineInv, NextLogCommand("event"),
         Readable(log[Head(logQueue).session])
  PROVE  LET s == Head(logQueue).session
             e == Head(logQueue).event
         IN  \E n \in 0..MaxIndex : WholeUpTo(Durable(s), n) /\ e.ix = n + 1
<1> DEFINE s == Head(logQueue).session
           e == Head(logQueue).event
<1>1. /\ s \in Session /\ e \in Event /\ logAlive /\ s \in loaded /\ e \in Sent(s)
      /\ Carried(logQueue, s) = Carried(Tail(logQueue), s) \union {e}
      /\ \A f \in Carried(Tail(logQueue), s) : e.ix < f.ix
  BY TakeEvent
<1> HIDE DEF s, e
<1>3. /\ e \in Carried(logQueue, s)
      /\ \A f \in Carried(logQueue, s) : f = e \/ e.ix < f.ix
  BY <1>1
<1>4. TypeOK /\ DiskInv(s) /\ LiveInv(s) /\ LogQueueInv(s)
  BY <1>1 DEF PipelineInv, SessionInv
<1>5. /\ Durable(s) \in SUBSET Event /\ live[s] \in SUBSET Event
      /\ next[s] \in Nat
  BY <1>1, <1>4, SessionTypes
<1>6. PICK n \in 0..MaxIndex : WholeUpTo(Durable(s), n)
  BY <1>4 DEF DiskInv, Recoverable, Durable, s
<1>8. PICK m \in 0..MaxIndex : WholeUpTo(live[s], m)
  BY <1>1, <1>4 DEF LiveInv
<1>9. e.ix \in 1..m /\ e.ix < next[s]
  BY <1>1, <1>5, <1>8, m \in Nat, WholeHas DEF Sent
<1>10. n < e.ix
  <2>1. CASE n = 0
    BY <1>9, <2>1
  <2>2. CASE n # 0
    <3>1. PICK d \in Durable(s) : d.ix = n
      BY <1>5, <1>6, <2>2, n \in Nat, WholeHas
    <3> QED
      BY <1>3, <1>4, <3>1 DEF LogQueueInv, s
  <2> QED
    BY <2>1, <2>2
<1>11. PICK g \in live[s] : g.ix = n + 1
  BY <1>5, <1>8, <1>9, <1>10, m \in Nat, WholeHas
<1>12. g \in Sent(s) /\ g \notin Durable(s)
  <2>1. g.ix < next[s]
    BY <1>5, <1>9, <1>10, <1>11
  <2>2. \A d \in Durable(s) : d.ix \in 1..n
    BY <1>5, <1>6, n \in Nat, WholeHas
  <2> QED
    BY <1>11, <2>1, <2>2 DEF Sent
<1>13. g \in Carried(logQueue, s)
  BY <1>1, <1>4, <1>12 DEF LogQueueInv, s
<1>14. e.ix = n + 1
  BY <1>3, <1>9, <1>10, <1>11, <1>13
<1> QED
  BY <1>6, <1>14 DEF s, e

-----------------------------------------------------------------------------
(* The steps of a daemon's life.                                           *)

(* The record of an event cut short, for the first event queued.           *)
LEMMA CutShortFirst ==
  ASSUME PipelineInv, NextLogCommand("event"), NEW out \in {"torn", "bare", "done"},
         out = "done" => log[Head(logQueue).session].tail = "closed",
         NEW t \in Session
  PROVE  LET s == Head(logQueue).session
             e == Head(logQueue).event
             written == [log EXCEPT ![s] = WriteRecord(@, e, out)]
         IN  /\ written[t] \in LogFile
             /\ Recoverable(written[t], snapshot[t])
             /\ Readable(written[t]) <=> Readable(log[t])
             /\ t # s => written[t] = log[t]
             /\ Readable(log[t]) =>
                  /\ RestoredState(written[t], snapshot[t]) \subseteq
                       (Durable(t) \union (IF t = s THEN {e} ELSE {}))
                  /\ log[t].tail = "closed" =>
                       Durable(t) \subseteq RestoredState(written[t], snapshot[t])
<1> DEFINE s == Head(logQueue).session
           e == Head(logQueue).event
           written == [log EXCEPT ![s] = WriteRecord(@, e, out)]
<1>1. s \in Session /\ e \in Event /\ log \in [Session -> LogFile]
      /\ TypeOK /\ log[t] \in LogFile /\ snapshot[t] \in Snapshot
  BY QueueTypes, CommandTypes DEF PipelineInv, TypeOK, NextLogCommand, EventCommands
<1>2. Recoverable(log[t], snapshot[t])
  BY DEF PipelineInv, SessionInv, DiskInv
<1>3. CASE t # s
  <2>1. written[t] = log[t]
    BY <1>1, <1>3
  <2> QED
    BY <1>1, <1>2, <1>3, <2>1 DEF Durable
<1>4. CASE t = s
  <2>1. written[t] = WriteRecord(log[t], e, out)
    BY <1>1, <1>4
  <2>2. written[t] \in LogFile
    BY <1>1, <2>1, FileTypes
  <2>3. CASE Readable(log[t])
    <3>1. PICK n \in 0..MaxIndex : WholeUpTo(Durable(t), n) /\ e.ix = n + 1
      BY <1>4, <2>3, FirstQueued
    <3>2. WholeUpTo(RestoredState(log[t], snapshot[t]), n)
      BY <3>1 DEF Durable
    <3>3. out = "done" => log[t].tail = "closed"
      BY <1>4
    <3> HIDE DEF e
    <3>4. /\ RestoredState(WriteRecord(log[t], e, out), snapshot[t])
               \subseteq RestoredState(log[t], snapshot[t]) \union {e}
          /\ log[t].tail = "closed" =>
               RestoredState(log[t], snapshot[t])
                 \subseteq RestoredState(WriteRecord(log[t], e, out), snapshot[t])
          /\ Recoverable(WriteRecord(log[t], e, out), snapshot[t])
          /\ Readable(WriteRecord(log[t], e, out))
      BY <1>1, <1>2, <2>3, <3>1, <3>2, <3>3, CutShortKeeps
    <3> QED
      BY <1>4, <2>1, <2>2, <2>3, <3>4 DEF Durable, e
  <2>4. CASE ~Readable(log[t])
    <3>1. ~Readable(WriteRecord(log[t], e, out))
      BY <1>1, <2>4 DEF WriteRecord, Readable, LogFile
    <3> QED
      BY <1>1, <1>2, <1>4, <2>1, <2>2, <2>4, <3>1 DEF Recoverable
  <2> QED
    BY <2>3, <2>4
<1> QED
  BY <1>3, <1>4

(* A daemon that starts, is killed, or loses power keeps the invariant:    *)
(* nothing is loaded afterwards, and the disk stays recoverable.           *)
LEMMA LifeInv ==
  ASSUME PipelineInv, Start \/ Kill \/ LosePower, NEW t \in Session
  PROVE  SessionInv(t)'
<1>1. Recoverable(log[t], snapshot[t]) /\ TypeOK
  BY DEF PipelineInv, SessionInv, DiskInv
<1>2. CASE Start
  BY <1>1, <1>2, NothingLoaded DEF Start, diskVars
<1>3. CASE Kill
  <2>1. Reset(FALSE) /\ snapshot' = snapshot
    BY <1>3 DEF Kill
  <2>2. CASE UNCHANGED log
    BY <1>1, <2>1, <2>2, NothingLoaded
  <2>3. ASSUME NextLogCommand("event"), NEW out \in {"torn", "bare"},
               log' = [log EXCEPT ![Head(logQueue).session] =
                         WriteRecord(@, Head(logQueue).event, out)]
        PROVE  SessionInv(t)'
    <3>1. Recoverable(log'[t], snapshot'[t])
      BY <2>1, <2>3, CutShortFirst
    <3> QED
      BY <2>1, <3>1, NothingLoaded
  <2> QED
    BY <1>3, <2>2, <2>3 DEF Kill
<1>4. CASE LosePower
  <2>1. PICK from \in [Session -> 1..MaxIndex] :
               log' = [s \in Session |-> Surviving(log[s], from[s])]
    BY <1>4 DEF LosePower
  <2>2. /\ log[t] \in LogFile /\ snapshot[t] \in Snapshot
        /\ from[t] \in Nat \ {0} /\ log'[t] = Surviving(log[t], from[t])
    BY <1>1, <2>1 DEF TypeOK
  <2>3. Recoverable(Surviving(log[t], from[t]), snapshot[t])
    BY <1>1, <2>2, PowerLossKeeps
  <2>4. Reset(FALSE) /\ snapshot' = snapshot
    BY <1>4 DEF LosePower
  <2> QED
    BY <2>2, <2>3, <2>4, NothingLoaded
<1> QED
  BY <1>2, <1>3, <1>4

-----------------------------------------------------------------------------
(* The log worker.                                                         *)

(* The worker's exit takes nothing away from what is durable.              *)
LEMMA SyncAllKeeps ==
  ASSUME NEW files \in [Session -> LogFile], TypeOK, NEW t \in Session,
         SyncAll(files), Recoverable(files[t], snapshot[t])
  PROVE  /\ RestoredState(log'[t], snapshot[t]) = RestoredState(files[t], snapshot[t])
         /\ Recoverable(log'[t], snapshot[t])
         /\ Readable(log'[t]) <=> Readable(files[t])
         /\ log'[t].tail = files[t].tail
<1>1. files[t] \in LogFile /\ snapshot[t] \in Snapshot
  BY DEF TypeOK
<1>2. log'[t] = files[t] \/ log'[t] = Synced(files[t])
  BY DEF SyncAll
<1>3. CASE log'[t] = files[t]
  BY <1>1, <1>3
<1>4. CASE log'[t] = Synced(files[t])
  <2>1. /\ RestoredState(Synced(files[t]), snapshot[t]) = RestoredState(files[t], snapshot[t])
        /\ Recoverable(Synced(files[t]), snapshot[t])
        /\ Readable(Synced(files[t])) <=> Readable(files[t])
        /\ Synced(files[t]).tail = files[t].tail
    BY <1>1, SyncKeeps
  <2> QED
    BY <1>4, <2>1
<1> QED
  BY <1>2, <1>3, <1>4

(* The log worker may exit, after any failure that leaves the files as     *)
(* recoverable as they were, and the invariant holds: its queue is lost,   *)
(* and no claim is made about a queue nobody reads.                        *)
LEMMA LogExitInv ==
  ASSUME PipelineInv, NEW t \in Session, LogWorkerExits,
         NEW files \in [Session -> LogFile], SyncAll(files),
         RestoredState(files[t], snapshot[t]) = Durable(t),
         Recoverable(files[t], snapshot[t]),
         Readable(files[t]) <=> Readable(log[t]),
         log[t].tail = "closed" => files[t].tail = "closed",
         UNCHANGED <<daemonVars, checkpointVars, snapshot>>
  PROVE  SessionInv(t)'
<1>1. TypeOK /\ SessionInv(t)
  BY DEF PipelineInv
<1>2. /\ RestoredState(log'[t], snapshot[t]) = RestoredState(log[t], snapshot[t])
      /\ Recoverable(log'[t], snapshot[t])
      /\ Readable(log'[t]) <=> Readable(log[t])
      /\ log[t].tail = "closed" => log'[t].tail = "closed"
  BY <1>1, SyncAllKeeps DEF Durable
<1>3. /\ Carried(logQueue', t) = {} /\ Compactions(logQueue', t) = {}
      /\ InOrder(logQueue', t) /\ logAlive' = FALSE
  BY NothingQueued DEF LogWorkerExits
<1>4. UNCHANGED <<phase, loaded, next, live, checkpointAlive, checkpointQueue,
                  known, checkpoint, snapshot>>
  BY DEF daemonVars, checkpointVars
<1> QED
  BY <1>1, <1>2, <1>3, <1>4, DurableKept

(* A whole line written after an unterminated one makes the log            *)
(* unreadable: nothing is claimed of it but that no other worker knows it. *)
LEMMA UnreadableExitInv ==
  ASSUME PipelineInv, NextLogCommand("event"), LogWorkerExits, NEW t \in Session,
         SyncAll([log EXCEPT ![Head(logQueue).session] =
                    WriteRecord(@, Head(logQueue).event, "done")]),
         log[Head(logQueue).session].tail # "closed",
         UNCHANGED <<daemonVars, checkpointVars, snapshot>>
  PROVE  SessionInv(t)'
<1> DEFINE s == Head(logQueue).session
           e == Head(logQueue).event
           written == [log EXCEPT ![s] = WriteRecord(@, e, "done")]
<1>1. /\ TypeOK /\ SessionInv(t)
      /\ log[t] \in LogFile /\ snapshot[t] \in Snapshot /\ log \in [Session -> LogFile]
      /\ s \in Session /\ e \in Event /\ log[s] \in LogFile
      /\ logAlive
      /\ Recoverable(log[t], snapshot[t])
      /\ RestoredState(log[t], snapshot[t]) = Durable(t)
  BY TakeEvent DEF PipelineInv, TypeOK, SessionInv, DiskInv, Durable
<1>2. written \in [Session -> LogFile]
  <2>1. WriteRecord(log[s], e, "done") \in LogFile
    BY <1>1, FileTypes
  <2> QED
    BY <1>1, <2>1
<1>3. ~Readable(written[s])
  BY <1>1 DEF WriteRecord, Readable, LogFile
<1>4. Recoverable(written[t], snapshot[t])
  <2>1. CASE t = s
    <3>1. WholeUpTo(snapshot[t].state, snapshot[t].last)
      BY <1>1 DEF Recoverable
    <3> QED
      BY <1>3, <2>1, <3>1 DEF Recoverable
  <2>2. CASE t # s
    BY <1>1, <2>2
  <2> QED
    BY <2>1, <2>2
<1>5. SyncAll(written)
  OBVIOUS
<1>6. CASE t # s
  <2>1. written[t] = log[t]
    BY <1>1, <1>6
  <2> HIDE DEF written
  <2> QED
    BY <1>1, <1>2, <1>5, <2>1, LogExitInv
<1>7. CASE t = s
  <2> HIDE DEF written, s, e
  <2>1. ~Readable(log'[t]) /\ Recoverable(log'[t], snapshot[t])
    BY <1>1, <1>2, <1>3, <1>4, <1>5, <1>7, SyncAllKeeps
  <2>2. /\ Carried(logQueue', t) = {} /\ Compactions(logQueue', t) = {}
        /\ InOrder(logQueue', t) /\ logAlive' = FALSE
    BY NothingQueued DEF LogWorkerExits
  <2>3. UNCHANGED <<phase, loaded, next, live, checkpointAlive, checkpointQueue,
                    known, checkpoint, snapshot>>
    BY DEF daemonVars, checkpointVars
  <2>4. /\ LiveInv(t) /\ LogQueueInv(t) /\ CheckpointQueueInv(t) /\ CheckpointInv(t)
    BY <1>1 DEF SessionInv
  <2>5. t \notin known
    BY <1>1, <1>7, <2>4 DEF CheckpointInv, s
  <2>6. LiveInv(t)'
    BY <2>1, <2>3, <2>4 DEF LiveInv
  <2>7. LogQueueInv(t)'
    BY <2>1, <2>2, <2>3, <2>4 DEF LogQueueInv
  <2>8. CheckpointQueueInv(t)'
    BY <2>1, <2>2, <2>3, <2>4 DEF CheckpointQueueInv
  <2>9. CheckpointInv(t)' /\ DiskInv(t)'
    BY <2>1, <2>3, <2>5 DEF CheckpointInv, DiskInv
  <2> QED
    BY <2>6, <2>7, <2>8, <2>9 DEF SessionInv
<1> QED
  BY <1>6, <1>7

(* An append that fails, having written nothing, a part of the line, or    *)
(* all of it but its newline, keeps the invariant.                         *)
LEMMA LogAppendFailsInv ==
  ASSUME PipelineInv, LogAppendFails, NEW t \in Session
  PROVE  SessionInv(t)'
<1>1. /\ NextLogCommand("event") /\ LogWorkerExits
      /\ UNCHANGED <<daemonVars, checkpointVars, snapshot>>
  BY DEF LogAppendFails
<1>2. CASE SyncAll(log)
  <2>1. /\ RestoredState(log[t], snapshot[t]) = Durable(t)
        /\ Recoverable(log[t], snapshot[t])
        /\ log \in [Session -> LogFile]
    BY DEF PipelineInv, TypeOK, SessionInv, DiskInv, Durable
  <2> QED
    BY <1>1, <1>2, <2>1, LogExitInv
<1>3. ASSUME NEW out \in {"torn", "bare", "done"},
             SyncAll([log EXCEPT ![Head(logQueue).session] =
                        WriteRecord(@, Head(logQueue).event, out)]),
             out = "done" => log[Head(logQueue).session].tail = "closed"
      PROVE  SessionInv(t)'
  <2> DEFINE s == Head(logQueue).session
             e == Head(logQueue).event
             written == [log EXCEPT ![s] = WriteRecord(@, e, out)]
  <2>1. /\ TypeOK /\ SessionInv(t) /\ snapshot' = snapshot
        /\ log[t] \in LogFile /\ snapshot[t] \in Snapshot
        /\ s \in Session /\ e \in Event /\ log \in [Session -> LogFile]
        /\ logAlive /\ s \in loaded /\ e \in Sent(s) /\ e \in Carried(logQueue, s)
    BY <1>1, TakeEvent DEF PipelineInv, TypeOK
  <2>2. /\ Recoverable(written[t], snapshot[t])
        /\ Readable(written[t]) <=> Readable(log[t])
        /\ t # s => written[t] = log[t]
        /\ Readable(log[t]) =>
             /\ RestoredState(written[t], snapshot[t]) \subseteq
                  (Durable(t) \union (IF t = s THEN {e} ELSE {}))
             /\ log[t].tail = "closed" =>
                  Durable(t) \subseteq RestoredState(written[t], snapshot[t])
    BY <1>1, <1>3, CutShortFirst
  <2>3. written \in [Session -> LogFile]
    <3>1. WriteRecord(log[s], e, out) \in LogFile
      BY <2>1, FileTypes DEF TypeOK
    <3> QED
      BY <2>1, <3>1
  <2>4. SyncAll(written)
    BY <1>3
  <2> HIDE DEF s, e, written
  <2>6. /\ Recoverable(log'[t], snapshot[t])
        /\ RestoredState(log'[t], snapshot[t]) = RestoredState(written[t], snapshot[t])
        /\ Readable(log'[t]) <=> Readable(written[t])
        /\ log'[t].tail = written[t].tail
    BY <2>1, <2>2, <2>3, <2>4, SyncAllKeeps
  <2>7. UNCHANGED <<phase, loaded, next, live, checkpointAlive, checkpointQueue,
                    known, checkpoint, snapshot>>
    BY <1>1 DEF daemonVars, checkpointVars
  <2>8. /\ Carried(logQueue', t) = {} /\ Compactions(logQueue', t) = {}
        /\ InOrder(logQueue', t) /\ logAlive' = FALSE
    BY <1>1, NothingQueued DEF LogWorkerExits
  <2>9. CASE t # s
    <3>1. /\ written[t] = log[t]
          /\ RestoredState(log'[t], snapshot'[t]) = RestoredState(log[t], snapshot[t])
      BY <2>1, <2>2, <2>6, <2>9
    <3> QED
      BY <2>1, <2>6, <2>7, <2>8, <3>1, DurableKept
  <2>10. CASE t = s
    <3> DEFINE D == RestoredState(log'[t], snapshot'[t])
    <3>1. /\ Readable(log[t]) => D \subseteq Durable(t) \union {e}
          /\ Readable(log[t]) /\ log[t].tail = "closed" => Durable(t) \subseteq D
          /\ Readable(log'[t]) <=> Readable(log[t])
      BY <2>1, <2>2, <2>6, <2>10
    <3>2. /\ DiskInv(t) /\ LiveInv(t) /\ LogQueueInv(t)
          /\ CheckpointQueueInv(t) /\ CheckpointInv(t)
      BY <2>1 DEF SessionInv
    <3> HIDE DEF D
    <3>3. LiveInv(t)'
      BY <2>1, <2>7, <2>10, <3>1, <3>2 DEF LiveInv, Durable, Sent, D
    <3>4. LogQueueInv(t)'
      BY <2>7, <2>8 DEF LogQueueInv
    <3>5. CheckpointQueueInv(t)'
      <4>1. CASE Carried(checkpointQueue, t) # {} /\ Readable(log[t])
        <5>1. log[t].tail = "closed" /\ Durable(t) \subseteq D
          BY <2>1, <3>1, <3>2, <4>1 DEF CheckpointQueueInv
        <5>2. Carried(checkpointQueue, t) \subseteq Durable(t)
              /\ InOrder(checkpointQueue, t)
          BY <3>2, <4>1 DEF CheckpointQueueInv
        <5>3. \A f \in Durable(t) : f.ix < e.ix
          BY <2>1, <2>10, <3>2, <4>1 DEF LogQueueInv
        <5>4. t \in known /\ checkpointAlive =>
                \A d \in Durable(t) : d.ix > checkpoint[t].applied =>
                  d \in Carried(checkpointQueue, t)
          BY <2>1, <3>2, <4>1 DEF CheckpointQueueInv
        <5>5. Durable(t) \in SUBSET Event /\ e \in Event
          BY <2>1, SessionTypes
        <5>6. \A f \in Carried(checkpointQueue, t) : ~(e.ix < f.ix)
          BY <5>2, <5>3, <5>5 DEF Event
        <5> QED
          BY <2>7, <2>8, <3>1, <3>2, <4>1, <5>1, <5>2, <5>4, <5>6
          DEF CheckpointQueueInv, Durable, D
      <4>2. CASE Carried(checkpointQueue, t) = {}
        BY <2>7, <2>8, <3>1, <3>2, <4>2 DEF CheckpointQueueInv
      <4>3. CASE ~Readable(log[t])
        BY <2>7, <2>8, <3>1, <3>2, <4>3 DEF CheckpointQueueInv
      <4> QED
        BY <4>1, <4>2, <4>3
    <3>6. CheckpointInv(t)'
      BY <2>1, <2>7, <2>8, <3>1, <3>2 DEF CheckpointInv, Durable, D
    <3> QED
      BY <2>6, <2>7, <3>3, <3>4, <3>5, <3>6 DEF SessionInv, DiskInv
  <2> QED
    BY <2>9, <2>10
<1>4. ASSUME SyncAll([log EXCEPT ![Head(logQueue).session] =
                        WriteRecord(@, Head(logQueue).event, "done")]),
             log[Head(logQueue).session].tail # "closed"
      PROVE  SessionInv(t)'
  BY <1>1, <1>4, UnreadableExitInv
<1> QED
  BY <1>2, <1>3, <1>4 DEF LogAppendFails

(* An append keeps the invariant: the event is the next one after what is  *)
(* durable, and both other workers are sent it.                            *)
LEMMA LogAppendInv ==
  ASSUME PipelineInv, LogAppend, NEW t \in Session
  PROVE  SessionInv(t)'
<1> DEFINE s == Head(logQueue).session
           e == Head(logQueue).event
           written == WriteRecord(log[s], e, "done")
<1>1. NextLogCommand("event")
  BY DEF LogAppend
<1>2. /\ TypeOK /\ SessionInv(t)
      /\ log[t] \in LogFile /\ snapshot[t] \in Snapshot /\ log \in [Session -> LogFile]
      /\ s \in Session /\ e \in Event /\ Head(logQueue) \in WorkerCommands
      /\ logAlive /\ s \in loaded /\ e \in Sent(s)
      /\ Head(logQueue).op = "event"
      /\ Carried(logQueue, s) = Carried(Tail(logQueue), s) \union {e}
      /\ \A f \in Carried(Tail(logQueue), s) : e.ix < f.ix
      /\ t # s => Carried(Tail(logQueue), t) = Carried(logQueue, t)
      /\ Compactions(Tail(logQueue), t) \subseteq Compactions(logQueue, t)
      /\ InOrder(Tail(logQueue), t)
      /\ checkpointQueue \in Seq(WorkerCommands)
  BY <1>1, TakeEvent DEF PipelineInv, TypeOK
<1>3. /\ DiskInv(t) /\ LiveInv(t) /\ LogQueueInv(t)
      /\ CheckpointQueueInv(t) /\ CheckpointInv(t)
  BY <1>2 DEF SessionInv
<1>4. /\ logQueue' = Tail(logQueue)
      /\ checkpointQueue' = IF checkpointAlive
                              THEN Append(checkpointQueue, Head(logQueue))
                              ELSE checkpointQueue
      /\ UNCHANGED <<phase, loaded, next, live, logAlive, checkpointAlive, known,
                     checkpoint, snapshot>>
  BY DEF LogAppend, daemonVars
<1>5. /\ t # s => log'[t] = log[t]
      /\ t = s => log'[t] = written \/ log'[t] = Synced(written)
  BY <1>2 DEF LogAppend
<1>6. /\ t # s => Carried(checkpointQueue', t) = Carried(checkpointQueue, t)
      /\ t = s => Carried(checkpointQueue', t) =
                    IF checkpointAlive THEN Carried(checkpointQueue, t) \union {e}
                                       ELSE Carried(checkpointQueue, t)
      /\ InOrder(checkpointQueue, t) /\ (t = s => \A f \in Carried(checkpointQueue, t) : f.ix < e.ix)
           => InOrder(checkpointQueue', t)
  <2>1. CASE checkpointAlive
    <3> DEFINE longer == Append(checkpointQueue, Head(logQueue))
    <3>1. /\ t # s => Carried(longer, t) = Carried(checkpointQueue, t)
          /\ t = s => Carried(longer, t) = Carried(checkpointQueue, t) \union {e}
          /\ InOrder(checkpointQueue, t)
             /\ (t = s => \A f \in Carried(checkpointQueue, t) : f.ix < e.ix)
             => InOrder(longer, t)
      BY <1>2, AddToQueue
    <3> QED
      BY <1>4, <2>1, <3>1
  <2>2. CASE ~checkpointAlive
    BY <1>4, <2>2
  <2> QED
    BY <2>1, <2>2
<1> HIDE DEF s, e, written
<1>7. CASE t # s
  BY <1>2, <1>3, <1>4, <1>5, <1>6, <1>7, DurableKept DEF DiskInv
<1>8. CASE t = s
  <2>1. /\ written \in LogFile /\ written.tail = "closed"
        /\ log[t].tail # "closed" => ~Readable(written)
        /\ ~Readable(log[t]) => ~Readable(written)
    <3>1. written \in LogFile
      BY <1>2, <1>8, FileTypes DEF written
    <3> QED
      BY <1>2, <1>8, <3>1 DEF written, WriteRecord, Readable, LogFile
  <2>2. CASE Readable(log[t]) /\ log[t].tail = "closed"
    <3> DEFINE D == Durable(t)
               E == RestoredState(log'[t], snapshot'[t])
    <3>1. PICK n \in 0..MaxIndex : WholeUpTo(D, n) /\ e.ix = n + 1
      BY <1>1, <1>8, <2>2, FirstQueued DEF s, e
    <3>2. WholeUpTo(RestoredState(log[t], snapshot[t]), n) /\ Recoverable(log[t], snapshot[t])
      BY <1>3, <3>1 DEF Durable, DiskInv
    <3>3. /\ RestoredState(written, snapshot[t]) = D \union {e}
          /\ Recoverable(written, snapshot[t])
          /\ Readable(written)
      BY <1>2, <1>8, <2>2, <3>1, <3>2, AppendAdds DEF written, Durable
    <3>4. /\ E = D \union {e}
          /\ Recoverable(log'[t], snapshot'[t])
          /\ Readable(log'[t])
          /\ log'[t].tail = "closed"
      <4>1. /\ RestoredState(Synced(written), snapshot[t]) = RestoredState(written, snapshot[t])
            /\ Recoverable(Synced(written), snapshot[t])
            /\ Readable(Synced(written)) <=> Readable(written)
            /\ Synced(written).tail = written.tail
        BY <1>2, <2>1, <3>3, SyncKeeps
      <4> QED
        BY <1>4, <1>5, <1>8, <2>1, <3>3, <4>1
    <3>5. /\ D \in SUBSET Event
          /\ \A f \in D : f.ix < e.ix
          /\ \A f \in Carried(checkpointQueue, t) : f.ix < e.ix
          /\ Carried(checkpointQueue, t) \subseteq D
          /\ InOrder(checkpointQueue, t)
      <4>1. D \in SUBSET Event
        BY <1>2, SessionTypes
      <4>2. \A f \in D : f.ix < e.ix
        BY <1>2, <1>3, <1>8, <2>2 DEF LogQueueInv
      <4>3. Carried(checkpointQueue, t) \subseteq D /\ InOrder(checkpointQueue, t)
        BY <1>3, <2>2 DEF CheckpointQueueInv
      <4> QED
        BY <4>1, <4>2, <4>3
    <3>6. InOrder(checkpointQueue', t)
      BY <1>6, <1>8, <3>5
    <3> HIDE DEF D, E
    <3>7. LiveInv(t)'
      BY <1>2, <1>3, <1>4, <1>8, <2>2, <3>4 DEF LiveInv, Durable, Sent, D, E
    <3>8. LogQueueInv(t)'
      <4>1. \A d \in E, f \in Carried(logQueue', t) : d.ix < f.ix
        BY <1>2, <1>3, <1>4, <1>8, <2>2, <3>4 DEF LogQueueInv, D
      <4>2. logAlive /\ t \in loaded => Sent(t) \ E \subseteq Carried(logQueue', t)
        BY <1>2, <1>3, <1>4, <1>8, <2>2, <3>4 DEF LogQueueInv, D
      <4>3. /\ t \in loaded
            /\ Carried(logQueue', t) \subseteq Sent(t)
            /\ InOrder(logQueue', t)
            /\ Compactions(logQueue', t) \subseteq Compactions(logQueue, t)
        BY <1>2, <1>3, <1>4, <1>8 DEF LogQueueInv
      <4> QED
        BY <1>3, <1>4, <4>1, <4>2, <4>3 DEF LogQueueInv, Sent, Durable, E
    <3>9. CheckpointQueueInv(t)'
      <4>1. t \in loaded
        BY <1>2, <1>8
      <4>2. Carried(checkpointQueue', t) \subseteq E
        BY <1>6, <1>8, <3>4, <3>5
      <4>3. ASSUME t \in known, checkpointAlive
            PROVE  \A d \in E : d.ix > checkpoint[t].applied =>
                     d \in Carried(checkpointQueue', t)
        <5>1. \A d \in D : d.ix > checkpoint[t].applied =>
                d \in Carried(checkpointQueue, t)
          BY <1>2, <1>3, <2>2, <4>3 DEF CheckpointQueueInv, D
        <5> QED
          BY <1>6, <1>8, <3>4, <4>3, <5>1
      <4> QED
        BY <1>4, <3>4, <3>6, <4>1, <4>2, <4>3 DEF CheckpointQueueInv, Durable, E
    <3>10. CheckpointInv(t)'
      BY <1>3, <1>4, <3>4 DEF CheckpointInv, Durable, D, E
    <3> QED
      BY <3>4, <3>7, <3>8, <3>9, <3>10 DEF SessionInv, DiskInv
  <2>3. CASE ~(Readable(log[t]) /\ log[t].tail = "closed")
    <3>1. /\ ~Readable(log'[t]) /\ log'[t].tail = "closed"
      BY <1>5, <1>8, <2>1, <2>3 DEF Synced, Readable, LogFile
    <3>2. t \notin known
      BY <1>2, <1>3, <2>3 DEF CheckpointInv
    <3>3. DiskInv(t)'
      BY <1>3, <1>4, <3>1 DEF DiskInv, Recoverable
    <3>4. LiveInv(t)'
      BY <1>3, <1>4, <3>1 DEF LiveInv
    <3>5. LogQueueInv(t)'
      <4>1. /\ t \in loaded
            /\ Carried(logQueue', t) \subseteq Sent(t)
            /\ InOrder(logQueue', t)
            /\ Compactions(logQueue', t) \subseteq Compactions(logQueue, t)
        BY <1>2, <1>3, <1>4, <1>8 DEF LogQueueInv
      <4> QED
        BY <1>3, <1>4, <3>1, <4>1 DEF LogQueueInv, Sent
    <3>6. CheckpointQueueInv(t)'
      BY <1>2, <1>4, <1>8, <3>1 DEF CheckpointQueueInv
    <3>7. CheckpointInv(t)'
      BY <1>4, <3>2 DEF CheckpointInv
    <3> QED
      BY <3>3, <3>4, <3>5, <3>6, <3>7 DEF SessionInv
  <2> QED
    BY <2>2, <2>3
<1> QED
  BY <1>7, <1>8

(* A compaction keeps the invariant: the snapshot covers what it drops.    *)
LEMMA LogCompactInv ==
  ASSUME PipelineInv, LogCompact, NEW t \in Session
  PROVE  SessionInv(t)'
<1> DEFINE s == Head(logQueue).session
           through == Head(logQueue).through
<1>1. /\ TypeOK /\ SessionInv(t) /\ LogQueueInv(t)
      /\ log[t] \in LogFile /\ snapshot[t] \in Snapshot /\ log \in [Session -> LogFile]
      /\ Recoverable(log[t], snapshot[t])
      /\ logQueue \in Seq(LogCommands) /\ logQueue # <<>>
      /\ Head(logQueue).op = "compact"
      /\ s \in Session /\ through \in Nat
  BY QueueTypes, CommandTypes
  DEF LogCompact, NextLogCommand, PipelineInv, TypeOK, CompactCommands, SessionInv, DiskInv
<1>2. /\ logQueue' = Tail(logQueue)
      /\ UNCHANGED <<phase, loaded, next, live, logAlive, checkpointAlive,
                     checkpointQueue, known, checkpoint, snapshot>>
  BY DEF LogCompact, daemonVars, checkpointVars
<1>3. /\ Carried(logQueue', t) = Carried(logQueue, t)
      /\ Compactions(logQueue', t) \subseteq Compactions(logQueue, t)
      /\ InOrder(logQueue, t) => InOrder(logQueue', t)
      /\ t = s => through \in Compactions(logQueue, t)
  BY <1>1, <1>2, TakeFromQueue
<1> HIDE DEF s, through
<1>4. /\ Recoverable(log'[t], snapshot[t])
      /\ RestoredState(log'[t], snapshot[t]) = RestoredState(log[t], snapshot[t])
      /\ Readable(log'[t]) <=> Readable(log[t])
      /\ log[t].tail = "closed" => log'[t].tail = "closed"
  <2>1. CASE t # s \/ UNCHANGED log
    <3>1. log'[t] = log[t]
      BY <1>1, <2>1 DEF LogCompact, s
    <3> QED
      BY <1>1, <3>1
  <2>2. CASE t = s /\ Readable(log[s]) /\ log' = [log EXCEPT ![s] = CompactUpTo(@, through)]
    <3>1. log'[t] = CompactUpTo(log[t], through)
      BY <1>1, <2>2
    <3>2. through <= snapshot[t].last
      BY <1>1, <1>3, <2>2 DEF LogQueueInv
    <3>3. /\ RestoredState(CompactUpTo(log[t], through), snapshot[t])
               = RestoredState(log[t], snapshot[t])
          /\ Recoverable(CompactUpTo(log[t], through), snapshot[t])
          /\ Readable(CompactUpTo(log[t], through))
          /\ log[t].tail = "closed" => CompactUpTo(log[t], through).tail = "closed"
      BY <1>1, <2>2, <3>2, CompactionKeeps
    <3> QED
      BY <2>2, <3>1, <3>3
  <2> QED
    BY <2>1, <2>2 DEF LogCompact, s, through
<1> QED
  BY <1>1, <1>2, <1>3, <1>4, DurableKept

(* A compaction that fails, before or after the file was replaced, keeps   *)
(* the invariant.                                                          *)
LEMMA LogCompactFailsInv ==
  ASSUME PipelineInv, LogCompactFails, NEW t \in Session
  PROVE  SessionInv(t)'
<1> DEFINE s == Head(logQueue).session
           through == Head(logQueue).through
           compacted == [log EXCEPT ![s] = CompactUpTo(@, through)]
<1>1. /\ TypeOK /\ LogQueueInv(t)
      /\ log[t] \in LogFile /\ snapshot[t] \in Snapshot /\ log \in [Session -> LogFile]
      /\ Recoverable(log[t], snapshot[t])
      /\ RestoredState(log[t], snapshot[t]) = Durable(t)
      /\ logQueue \in Seq(LogCommands) /\ logQueue # <<>>
      /\ Head(logQueue).op = "compact"
      /\ s \in Session /\ through \in Nat
      /\ log[s] \in LogFile
  BY QueueTypes, CommandTypes
  DEF LogCompactFails, NextLogCommand, PipelineInv, TypeOK, CompactCommands, SessionInv,
      DiskInv, Durable
<1>2. LogWorkerExits /\ UNCHANGED <<daemonVars, checkpointVars, snapshot>>
  BY DEF LogCompactFails
<1>3. t = s => through \in Compactions(logQueue, t)
  BY <1>1, TakeFromQueue
<1>4. CASE SyncAll(log)
  BY <1>1, <1>2, <1>4, LogExitInv
<1>5. CASE Readable(log[s]) /\ SyncAll(compacted)
  <2>1. compacted \in [Session -> LogFile]
    <3>1. CompactUpTo(log[s], through) \in LogFile
      BY <1>1, FileTypes
    <3> QED
      BY <1>1, <3>1
  <2>2. /\ RestoredState(compacted[t], snapshot[t]) = Durable(t)
        /\ Recoverable(compacted[t], snapshot[t])
        /\ Readable(compacted[t]) <=> Readable(log[t])
        /\ log[t].tail = "closed" => compacted[t].tail = "closed"
    <3>1. CASE t # s
      BY <1>1, <3>1
    <3>2. CASE t = s
      <4> HIDE DEF s, through
      <4>1. compacted[t] = CompactUpTo(log[t], through)
        BY <1>1, <3>2
      <4>2. through <= snapshot[t].last
        BY <1>1, <1>3, <3>2 DEF LogQueueInv
      <4>3. /\ RestoredState(CompactUpTo(log[t], through), snapshot[t])
                 = RestoredState(log[t], snapshot[t])
            /\ Recoverable(CompactUpTo(log[t], through), snapshot[t])
            /\ Readable(CompactUpTo(log[t], through))
            /\ log[t].tail = "closed" => CompactUpTo(log[t], through).tail = "closed"
        BY <1>1, <1>5, <3>2, <4>2, CompactionKeeps
      <4> QED
        BY <1>1, <1>5, <3>2, <4>1, <4>3
    <3> QED
      BY <3>1, <3>2
  <2> HIDE DEF compacted
  <2> QED
    BY <1>2, <1>5, <2>1, <2>2, LogExitInv
<1> QED
  BY <1>4, <1>5 DEF LogCompactFails

(* Every step of the log worker keeps the invariant.                       *)
LEMMA LogWorkerInv ==
  ASSUME PipelineInv, LogWorker, NEW t \in Session
  PROVE  SessionInv(t)'
<1>1. /\ RestoredState(log[t], snapshot[t]) = Durable(t)
      /\ Recoverable(log[t], snapshot[t])
      /\ log \in [Session -> LogFile]
  BY DEF PipelineInv, TypeOK, SessionInv, DiskInv, Durable
<1>2. CASE LogShutdown
  BY <1>1, <1>2, LogExitInv DEF LogShutdown
<1> QED
  BY <1>2, LogAppendInv, LogAppendFailsInv, LogCompactInv, LogCompactFailsInv
  DEF LogWorker

-----------------------------------------------------------------------------
(* The request thread.                                                     *)

(* What a request finds and leaves in memory.                              *)
LEMMA ApplyExtends ==
  ASSUME PipelineInv, NEW s \in Session, phase = "serving", Loadable(s),
         NEW applied \in 0..2, NEW sent \in 0..applied, Apply(s, applied, sent)
  PROVE  LET new == {Observed(s, i) : i \in 0..(sent - 1)}
         IN  \E n \in 0..MaxIndex :
           /\ WholeUpTo(LiveState(s), n)
           /\ NextIndex(s) = n + 1
           /\ n + applied <= MaxIndex
           /\ WholeUpTo(live'[s], n + applied)
           /\ next'[s] = n + 1 + sent
           /\ LiveState(s) \subseteq live'[s]
           /\ Readable(log[s]) => Durable(s) \subseteq LiveState(s)
           /\ s \in loaded => LiveState(s) = Sent(s)
           /\ s \notin loaded => LiveState(s) = Durable(s)
           /\ Sent(s)' = LiveState(s) \union new
<1> DEFINE L == LiveState(s)
<1>1. /\ TypeOK /\ DiskInv(s) /\ LiveInv(s)
      /\ log[s] \in LogFile /\ snapshot[s] \in Snapshot
      /\ live \in [Session -> SUBSET Event] /\ next \in [Session -> Nat]
      /\ Durable(s) \in SUBSET Event /\ run \in Nat
  BY SessionTypes DEF PipelineInv, SessionInv, TypeOK
<1>2. L \in SUBSET Event /\ NextIndex(s) \in Nat \ {0}
      /\ \A i \in Nat : NextIndex(s) + i \in 1..MaxIndex => Observed(s, i) \in Event
  BY <1>1, RequestTypes
<1>3. PICK n \in 0..MaxIndex :
        /\ WholeUpTo(L, n)
        /\ NextIndex(s) = n + 1
        /\ Readable(log[s]) => Durable(s) \subseteq L
        /\ s \in loaded => L = live[s] /\ next[s] = n + 1
        /\ s \notin loaded => L = Durable(s)
  <2>1. CASE s \in loaded
    BY <1>1, <2>1 DEF LiveInv, LiveState, NextIndex
  <2>2. CASE s \notin loaded
    <3>1. Readable(log[s])
      BY <2>2 DEF Loadable, Restorable
    <3>2. PICK n \in 0..MaxIndex : WholeUpTo(RestoredState(log[s], snapshot[s]), n)
      BY <1>1, <3>1 DEF DiskInv, Recoverable
    <3>3. AppliedIndex(log[s], snapshot[s]) = n
      BY <1>1, <3>2, n \in Nat, RestoredLength DEF DiskInv, Recoverable
    <3> QED
      BY <2>2, <3>2, <3>3 DEF LiveState, NextIndex, Durable
  <2> QED
    BY <2>1, <2>2
<1>4. /\ live'[s] = L \union {Observed(s, i) : i \in 0..(applied - 1)}
      /\ next'[s] = n + 1 + sent
      /\ n + applied <= MaxIndex
  BY <1>1, <1>3, IndexAssumption DEF Apply
<1>5. \A i \in 0..(applied - 1) : Observed(s, i) \in Event /\ Observed(s, i).ix = n + 1 + i
  BY <1>2, <1>3, <1>4, IndexAssumption DEF Observed
<1> HIDE DEF L
<1>6. WholeUpTo(live'[s], n + applied)
  <2>1. CASE applied = 0
    <3>1. live'[s] = L
      BY <1>4, <2>1
    <3> QED
      BY <1>3, <2>1, <3>1
  <2>2. CASE applied = 1
    <3>1. live'[s] = L \union {Observed(s, 0)}
      BY <1>4, <2>2
    <3>2. Observed(s, 0) \in Event /\ Observed(s, 0).ix = n + 1
      BY <1>5, <2>2
    <3> QED
      BY <1>2, <1>3, <2>2, <3>1, <3>2, n \in Nat, WholeExtend
  <2>3. CASE applied = 2
    <3>1. live'[s] = (L \union {Observed(s, 0)}) \union {Observed(s, 1)}
      BY <1>4, <2>3
    <3>2. /\ Observed(s, 0) \in Event /\ Observed(s, 0).ix = n + 1
          /\ Observed(s, 1) \in Event /\ Observed(s, 1).ix = n + 2
      BY <1>5, <2>3
    <3>3. WholeUpTo(L \union {Observed(s, 0)}, n + 1)
      BY <1>2, <1>3, <3>2, n \in Nat, WholeExtend
    <3>4. WholeUpTo((L \union {Observed(s, 0)}) \union {Observed(s, 1)}, (n + 1) + 1)
      BY <1>2, <3>2, <3>3, n + 1 \in Nat, (n + 1) + 1 = n + 2, WholeExtend
    <3> QED
      BY <2>3, <3>1, <3>4, (n + 1) + 1 = n + 2
  <2> QED
    BY <2>1, <2>2, <2>3
<1>7. s \in loaded => L = Sent(s)
  <2>1. \A e \in L : e.ix \in 1..n
    BY <1>2, <1>3, n \in Nat, WholeHas
  <2> QED
    BY <1>3, <2>1 DEF Sent
<1>8. Sent(s)' = L \union {Observed(s, i) : i \in 0..(sent - 1)}
  <2>1. \A e \in L : e.ix \in 1..n
    BY <1>2, <1>3, n \in Nat, WholeHas
  <2>2. Sent(s)' = {e \in live'[s] : e.ix < n + 1 + sent}
    BY <1>4 DEF Sent
  <2> QED
    BY <1>4, <1>5, <2>1, <2>2
<1> QED
  BY <1>3, <1>4, <1>6, <1>7, <1>8 DEF L

(* The session of the request keeps its invariant if its queue gets the    *)
(* events that were sent, or cannot get any.                               *)
LEMMA ApplyInv ==
  ASSUME PipelineInv, NEW s \in Session, phase = "serving", Loadable(s),
         NEW applied \in 0..2, NEW sent \in 0..applied, Apply(s, applied, sent),
         phase' = "serving" => sent = applied,
         UNCHANGED <<logAlive, checkpointVars, diskVars>>,
         LET new == {Observed(s, i) : i \in 0..(sent - 1)}
         IN  /\ Carried(logQueue', s) \subseteq Carried(logQueue, s) \union new
             /\ logAlive => Carried(logQueue', s) = Carried(logQueue, s) \union new,
         InOrder(logQueue', s),
         Compactions(logQueue', s) = Compactions(logQueue, s)
  PROVE  SessionInv(s)'
<1> DEFINE new == {Observed(s, i) : i \in 0..(sent - 1)}
           L == LiveState(s)
<1>1. PICK n \in 0..MaxIndex :
        /\ WholeUpTo(L, n)
        /\ NextIndex(s) = n + 1
        /\ n + applied <= MaxIndex
        /\ WholeUpTo(live'[s], n + applied)
        /\ next'[s] = n + 1 + sent
        /\ L \subseteq live'[s]
        /\ Readable(log[s]) => Durable(s) \subseteq L
        /\ s \in loaded => L = Sent(s)
        /\ s \notin loaded => L = Durable(s)
        /\ Sent(s)' = L \union new
  BY ApplyExtends
<1>2. /\ TypeOK /\ DiskInv(s) /\ LogQueueInv(s) /\ CheckpointQueueInv(s)
      /\ CheckpointInv(s) /\ Durable(s) \in SUBSET Event
  BY SessionTypes DEF PipelineInv, SessionInv
<1>3. s \in loaded'
  BY DEF Apply
<1>4. UNCHANGED <<logAlive, checkpointAlive, checkpointQueue, known, checkpoint,
                  log, snapshot>>
  BY DEF checkpointVars, diskVars
<1>5. L \in SUBSET Event
  BY <1>2, RequestTypes
<1>6. /\ \A e \in L : e.ix \in 1..n
      /\ \A e \in new : e.ix >= n + 1
  BY <1>1, <1>5, n \in Nat, WholeHas DEF Observed
<1> HIDE DEF new, L
<1>7. /\ Carried(logQueue, s) \subseteq L
      /\ s \notin loaded => Carried(logQueue, s) = {}
  BY <1>1, <1>2 DEF LogQueueInv
<1>8. LiveInv(s)'
  <2>1. n + applied \in 0..MaxIndex
    BY <1>1, IndexAssumption
  <2>2. next'[s] <= (n + applied) + 1 /\ (phase' = "serving" => next'[s] = (n + applied) + 1)
    BY <1>1
  <2> QED
    BY <1>1, <1>4, <2>1, <2>2 DEF LiveInv, Durable
<1>9. LogQueueInv(s)'
  <2>1. Carried(logQueue', s) \subseteq L \union new
    BY <1>7 DEF new
  <2>2. Readable(log[s]) => \A d \in Durable(s), f \in Carried(logQueue', s) : d.ix < f.ix
    <3> SUFFICES ASSUME Readable(log[s]), NEW d \in Durable(s), NEW f \in Carried(logQueue', s)
                 PROVE  d.ix < f.ix
      OBVIOUS
    <3>1. d.ix \in 1..n
      BY <1>1, <1>6
    <3>2. CASE f \in Carried(logQueue, s)
      BY <1>2, <3>2 DEF LogQueueInv
    <3>3. CASE f \in new
      <4>1. f.ix \in Nat /\ f.ix >= n + 1
        BY <1>1, <1>6, <3>3 DEF new, Observed
      <4> QED
        BY <3>1, <4>1
    <3> QED
      BY <3>2, <3>3 DEF new
  <2>3. Readable(log[s]) /\ logAlive =>
          (L \union new) \ Durable(s) \subseteq Carried(logQueue', s)
    <3>1. CASE s \in loaded
      BY <1>1, <1>2, <3>1 DEF LogQueueInv, new
    <3>2. CASE s \notin loaded
      BY <1>1, <3>2 DEF new
    <3> QED
      BY <3>1, <3>2
  <2> QED
    BY <1>1, <1>2, <1>3, <1>4, <2>1, <2>2, <2>3 DEF LogQueueInv, Durable
<1>10. CheckpointQueueInv(s)'
  BY <1>2, <1>3, <1>4 DEF CheckpointQueueInv, Durable
<1>11. CheckpointInv(s)'
  BY <1>2, <1>3, <1>4 DEF CheckpointInv, Durable
<1>12. DiskInv(s)'
  BY <1>2, <1>4 DEF DiskInv
<1> QED
  BY <1>8, <1>9, <1>10, <1>11, <1>12 DEF SessionInv

(* The other sessions do not notice.                                       *)
LEMMA RequestOthersInv ==
  ASSUME PipelineInv, NEW s \in Session, NEW t \in Session, t # s, phase = "serving",
         UNCHANGED <<loaded, next, live>>
           \/ (\E applied \in 0..2, sent \in 0..2 : Apply(s, applied, sent)),
         UNCHANGED <<logAlive, checkpointVars, diskVars>>,
         Carried(logQueue', t) = Carried(logQueue, t),
         InOrder(logQueue, t) => InOrder(logQueue', t),
         Compactions(logQueue', t) = Compactions(logQueue, t)
  PROVE  SessionInv(t)'
<1>1. /\ TypeOK /\ SessionInv(t) /\ Recoverable(log[t], snapshot[t])
      /\ next \in [Session -> Nat] /\ live \in [Session -> SUBSET Event]
  BY DEF PipelineInv, SessionInv, DiskInv, TypeOK
<1>2. next'[t] = next[t] /\ live'[t] = live[t] /\ (t \in loaded' <=> t \in loaded)
  BY <1>1 DEF Apply
<1>3. UNCHANGED <<logAlive, checkpointAlive, checkpointQueue, known, checkpoint,
                  log, snapshot>>
  BY DEF checkpointVars, diskVars
<1> QED
  BY <1>1, <1>2, <1>3, DurableKept

(* Asking the log worker to stop gives no session a command.               *)
LEMMA EndServingQueue ==
  ASSUME TypeOK, EndServing, NEW t \in Session
  PROVE  /\ Carried(logQueue', t) = Carried(logQueue, t)
         /\ Compactions(logQueue', t) = Compactions(logQueue, t)
         /\ InOrder(logQueue, t) => InOrder(logQueue', t)
<1>1. logQueue \in Seq(LogCommands) /\ Shutdown \in LogCommands
      /\ Shutdown.op # "event" /\ Shutdown.op # "compact"
  BY CommandTypes DEF TypeOK, Shutdown
<1>2. LET longer == Append(logQueue, Shutdown)
      IN  /\ Carried(longer, t) = Carried(logQueue, t)
          /\ Compactions(longer, t) = Compactions(logQueue, t)
          /\ InOrder(logQueue, t) => InOrder(longer, t)
  BY <1>1, AddToQueue
<1> QED
  BY <1>2 DEF EndServing

(* Sending the events of a request.                                        *)
LEMMA SendQueue ==
  ASSUME NEW q \in Seq(LogCommands), NEW s \in Session, NEW e \in Event, NEW t \in Session
  PROVE  LET longer == Append(q, EventCommand(s, e))
         IN  /\ longer \in Seq(LogCommands)
             /\ Carried(longer, t) = Carried(q, t) \union (IF t = s THEN {e} ELSE {})
             /\ Compactions(longer, t) = Compactions(q, t)
             /\ InOrder(q, t) /\ (t = s => \A f \in Carried(q, t) : f.ix < e.ix)
                  => InOrder(longer, t)
<1>1. EventCommand(s, e) \in LogCommands
  BY CommandTypes
<1>2. /\ EventCommand(s, e).op = "event"
      /\ EventCommand(s, e).session = s
      /\ EventCommand(s, e).event = e
  BY DEF EventCommand
<1> DEFINE c == EventCommand(s, e)
<1> HIDE DEF c
<1>3. LET longer == Append(q, c)
          carries == c.op = "event" /\ c.session = t
          compacts == c.op = "compact" /\ c.session = t
      IN  /\ carries => Carried(longer, t) = Carried(q, t) \union {c.event}
          /\ ~carries => Carried(longer, t) = Carried(q, t)
          /\ ~compacts => Compactions(longer, t) = Compactions(q, t)
          /\ InOrder(q, t) /\ (carries => \A f \in Carried(q, t) : f.ix < c.event.ix)
               => InOrder(longer, t)
  BY <1>1, AddToQueue DEF c
<1>4. Append(q, c) \in Seq(LogCommands)
  BY <1>1 DEF c
<1> QED
  BY <1>2, <1>3, <1>4 DEF c

(* A request that is answered keeps the invariant: its events come after   *)
(* everything that is durable or queued.                                   *)
LEMMA HandleRequestInv ==
  ASSUME PipelineInv, NEW s \in Session, HandleRequest(s), NEW t \in Session
  PROVE  SessionInv(t)'
<1> DEFINE first == Observed(s, 0)
           second == Observed(s, 1)
<1>1. /\ phase = "serving" /\ Loadable(s) /\ logAlive
      /\ phase' = phase
      /\ UNCHANGED <<logAlive, checkpointVars, diskVars>>
  BY DEF HandleRequest
<1>2. TypeOK /\ logQueue \in Seq(LogCommands) /\ LogQueueInv(s) /\ LogQueueInv(t)
  BY DEF PipelineInv, SessionInv, TypeOK
<1>3. NextIndex(s) \in Nat \ {0}
      /\ \A i \in Nat : NextIndex(s) + i \in 1..MaxIndex => Observed(s, i) \in Event
  BY <1>2, RequestTypes
<1>4. ASSUME NEW applied \in 0..2, Apply(s, applied, applied)
      PROVE  \A f \in Carried(logQueue, s) : f.ix < NextIndex(s)
  <2>1. PICK n \in 0..MaxIndex :
          /\ WholeUpTo(LiveState(s), n)
          /\ NextIndex(s) = n + 1
          /\ s \in loaded => LiveState(s) = Sent(s)
    BY <1>1, <1>4, applied \in 0..applied, ApplyExtends
  <2>2. LiveState(s) \in SUBSET Event
    BY <1>2, RequestTypes
  <2>3. \A e \in LiveState(s) : e.ix \in 1..n
    BY <2>1, <2>2, n \in Nat, WholeHas
  <2> QED
    BY <1>2, <2>1, <2>3 DEF LogQueueInv
<1> HIDE DEF first, second
<1>5. CASE Apply(s, 1, 1) /\ logQueue' = Append(logQueue, EventCommand(s, first))
  <2>1. first \in Event /\ first.ix = NextIndex(s)
    BY <1>3, <1>5, IndexAssumption DEF Apply, first, Observed
  <2>2. /\ Carried(logQueue', t) =
             Carried(logQueue, t) \union (IF t = s THEN {first} ELSE {})
        /\ Compactions(logQueue', t) = Compactions(logQueue, t)
        /\ InOrder(logQueue, t) /\ (t = s => \A f \in Carried(logQueue, t) : f.ix < first.ix)
             => InOrder(logQueue', t)
    BY <1>2, <1>5, <2>1, SendQueue
  <2>3. CASE t = s
    <3>1. {Observed(s, i) : i \in 0..(1 - 1)} = {first}
      BY DEF first
    <3>2. InOrder(logQueue', s)
      BY <1>2, <1>4, <1>5, <2>1, <2>2, <2>3 DEF LogQueueInv
    <3> QED
      BY <1>1, <1>5, <2>2, <2>3, <3>1, <3>2, 1 \in 0..2, 1 \in 0..1, ApplyInv
  <2>4. CASE t # s
    BY <1>1, <1>5, <2>2, <2>4, 1 \in 0..2, RequestOthersInv
  <2> QED
    BY <2>3, <2>4
<1>6. CASE /\ Apply(s, 2, 2)
           /\ logQueue' = Append(Append(logQueue, EventCommand(s, first)),
                                 EventCommand(s, second))
  <2>1. /\ first \in Event /\ first.ix = NextIndex(s)
        /\ second \in Event /\ second.ix = NextIndex(s) + 1
    BY <1>3, <1>6, IndexAssumption DEF Apply, first, second, Observed
  <2> DEFINE q == Append(logQueue, EventCommand(s, first))
  <2>2. /\ q \in Seq(LogCommands)
        /\ Carried(q, t) = Carried(logQueue, t) \union (IF t = s THEN {first} ELSE {})
        /\ Compactions(q, t) = Compactions(logQueue, t)
        /\ InOrder(logQueue, t) /\ (t = s => \A f \in Carried(logQueue, t) : f.ix < first.ix)
             => InOrder(q, t)
    BY <1>2, <2>1, SendQueue
  <2>3. logQueue' = Append(q, EventCommand(s, second))
    BY <1>6
  <2> HIDE DEF q
  <2>4. /\ Carried(logQueue', t) =
             Carried(q, t) \union (IF t = s THEN {second} ELSE {})
        /\ Compactions(logQueue', t) = Compactions(q, t)
        /\ InOrder(q, t) /\ (t = s => \A f \in Carried(q, t) : f.ix < second.ix)
             => InOrder(logQueue', t)
    BY <2>1, <2>2, <2>3, SendQueue
  <2>5. CASE t = s
    <3>1. {Observed(s, i) : i \in 0..(2 - 1)} = {first, second}
      BY DEF first, second
    <3>2. \A f \in Carried(logQueue, t) : f.ix < first.ix
      BY <1>4, <1>6, <2>1, <2>5
    <3>3. InOrder(q, t)
      BY <1>2, <2>2, <3>2 DEF LogQueueInv
    <3>4. \A f \in Carried(logQueue, t) : f.ix \in Nat
      BY <1>2 DEF LogQueueInv, Sent, PipelineInv, TypeOK, Event
    <3>5. \A f \in Carried(q, t) : f.ix < second.ix
      BY <1>3, <2>1, <2>2, <3>2, <3>4
    <3>6. InOrder(logQueue', t)
      BY <2>4, <3>3, <3>5
    <3> QED
      BY <1>1, <1>6, <2>2, <2>4, <2>5, <3>1, <3>6, 2 \in 0..2, ApplyInv
  <2>6. CASE t # s
    BY <1>1, <1>6, <2>2, <2>4, <2>6, 2 \in 0..2, RequestOthersInv
  <2> QED
    BY <2>5, <2>6
<1> QED
  BY <1>5, <1>6 DEF HandleRequest, first, second

(* Every request, answered or failed, keeps the invariant.                 *)
LEMMA RequestInv ==
  ASSUME PipelineInv, NEW s \in Session, Request(s), NEW t \in Session
  PROVE  SessionInv(t)'
<1>1. TypeOK /\ LogQueueInv(s) /\ LogQueueInv(t)
  BY DEF PipelineInv, SessionInv
<1>2. EndServing => /\ \A u \in Session :
                         /\ Carried(logQueue', u) = Carried(logQueue, u)
                         /\ Compactions(logQueue', u) = Compactions(logQueue, u)
                         /\ InOrder(logQueue, u) => InOrder(logQueue', u)
                    /\ phase' # "serving"
  BY <1>1, EndServingQueue DEF EndServing
<1>3. CASE HandleRequestUnpersisted(s)
  <2>1. /\ phase = "serving" /\ Loadable(s) /\ ~logAlive /\ EndServing
        /\ UNCHANGED <<logAlive, checkpointVars, diskVars>>
    BY <1>3 DEF HandleRequestUnpersisted
  <2> PICK applied \in 1..2 : \E sent \in 0..(applied - 1) : Apply(s, applied, sent)
    BY <1>3 DEF HandleRequestUnpersisted
  <2>2. PICK sent \in 0..(applied - 1) : Apply(s, applied, sent)
    OBVIOUS
  <2>3. applied \in 0..2 /\ sent \in 0..applied /\ sent \in 0..2
    OBVIOUS
  <2>4. CASE t = s
    BY <1>1, <1>2, <2>1, <2>2, <2>3, <2>4, ApplyInv DEF LogQueueInv
  <2>5. CASE t # s
    BY <1>2, <2>1, <2>2, <2>3, <2>5, RequestOthersInv
  <2> QED
    BY <2>4, <2>5
<1>4. CASE FailRequest(s)
  <2>1. /\ phase = "serving" /\ EndServing
        /\ UNCHANGED <<logAlive, checkpointVars, diskVars>>
    BY <1>4 DEF FailRequest
  <2>2. CASE UNCHANGED <<loaded, next, live>>
    <3>1. SessionInv(t) /\ Recoverable(log[t], snapshot[t])
      BY DEF PipelineInv, SessionInv, DiskInv
    <3>2. UNCHANGED <<logAlive, checkpointAlive, checkpointQueue, known, checkpoint,
                      log, snapshot>>
      BY <2>1 DEF checkpointVars, diskVars
    <3> QED
      BY <1>1, <1>2, <2>1, <2>2, <3>1, <3>2, DurableKept
  <2>3. CASE Loadable(s) /\ \E applied \in 0..1 : Apply(s, applied, 0)
    <3>1. PICK applied \in 0..1 : Apply(s, applied, 0)
      BY <2>3
    <3>2. applied \in 0..2 /\ 0 \in 0..applied /\ 0 \in 0..2
      OBVIOUS
    <3>3. {Observed(s, i) : i \in 0..(0 - 1)} = {}
      OBVIOUS
    <3>4. CASE t = s
      BY <1>1, <1>2, <2>1, <2>3, <3>1, <3>2, <3>3, <3>4, ApplyInv DEF LogQueueInv
    <3>5. CASE t # s
      BY <1>2, <2>1, <3>1, <3>2, <3>5, RequestOthersInv
    <3> QED
      BY <3>4, <3>5
  <2> QED
    BY <1>4, <2>2, <2>3 DEF FailRequest
<1> QED
  BY <1>3, <1>4, HandleRequestInv DEF Request

-----------------------------------------------------------------------------
(* The checkpoint worker.                                                  *)

(* The state the worker ends an update with holds the event of the update, *)
(* is an initial segment of what is durable, and has not fallen behind.    *)
LEMMA UpdatedIsPrefix ==
  ASSUME PipelineInv, NextUpdate,
         LET s == Head(checkpointQueue).session
         IN  s \in known \/ Restorable(log[s], snapshot[s])
  PROVE  LET s == Head(checkpointQueue).session
             e == Head(checkpointQueue).event
             state == Updated(KnownCheckpoint(s), e)
         IN  /\ s \in Session /\ s \in loaded /\ e \in Event
             /\ Readable(log[s])
             /\ logAlive => log[s].tail = "closed"
             /\ e \in Durable(s) /\ e \in Carried(checkpointQueue, s)
             /\ state \in CheckpointState
             /\ WholeUpTo(state.state, state.applied)
             /\ state.state \subseteq Durable(s)
             /\ state.last = snapshot[s].last /\ state.last <= state.applied
             /\ e.ix <= state.applied
             /\ \A d \in Durable(s) :
                  /\ d.ix > state.applied
                  /\ logAlive \/ \E f \in Carried(checkpointQueue, s) : d.ix < f.ix
                  => d \in Carried(checkpointQueue, s) /\ d # e
<1> DEFINE s == Head(checkpointQueue).session
           e == Head(checkpointQueue).event
           old == KnownCheckpoint(s)
           state == Updated(old, e)
<1>1. /\ s \in Session /\ e \in Event
      /\ checkpointQueue \in Seq(WorkerCommands) /\ checkpointQueue # <<>>
      /\ Head(checkpointQueue).op = "event" /\ checkpointAlive
  BY QueueTypes, CommandTypes DEF NextUpdate, PipelineInv, TypeOK, EventCommands
<1>2. /\ TypeOK /\ DiskInv(s) /\ CheckpointQueueInv(s) /\ CheckpointInv(s)
      /\ log[s] \in LogFile /\ snapshot[s] \in Snapshot /\ Durable(s) \in SUBSET Event
  BY <1>1, SessionTypes DEF PipelineInv, SessionInv
<1>3. old \in CheckpointState /\ state \in CheckpointState
  BY <1>1, <1>2, CheckpointTypes
<1> HIDE DEF s, e
<1>4. /\ Carried(checkpointQueue, s) = Carried(Tail(checkpointQueue), s) \union {e}
      /\ InOrder(checkpointQueue, s) =>
           \A f \in Carried(Tail(checkpointQueue), s) : e.ix < f.ix
  BY <1>1, TakeFromQueue DEF s, e
<1>5. Readable(log[s])
  BY <1>2 DEF CheckpointInv, Restorable, s
<1>6. /\ s \in loaded /\ (logAlive => log[s].tail = "closed")
      /\ e \in Durable(s)
      /\ \A f \in Carried(checkpointQueue, s) : f = e \/ e.ix < f.ix
      /\ Carried(checkpointQueue, s) \subseteq Durable(s)
  BY <1>2, <1>4, <1>5 DEF CheckpointQueueInv
<1>7. PICK n \in 0..MaxIndex : WholeUpTo(Durable(s), n)
  BY <1>2, <1>5 DEF DiskInv, Recoverable, Durable
<1>8. \A d \in Durable(s) : d.ix \in 1..n
  BY <1>2, <1>7, n \in Nat, WholeHas
<1>9. /\ WholeUpTo(old.state, old.applied)
      /\ old.state \subseteq Durable(s)
      /\ old.last = snapshot[s].last /\ old.last <= old.applied
      /\ \A d \in Durable(s) :
           /\ d.ix > old.applied
           /\ logAlive \/ \E f \in Carried(checkpointQueue, s) : d.ix < f.ix
           => d \in Carried(checkpointQueue, s)
  <2>1. CASE s \in known
    BY <1>1, <1>2, <1>5, <2>1 DEF CheckpointInv, CheckpointQueueInv, KnownCheckpoint
  <2>2. CASE s \notin known
    <3>1. WholeUpTo(RestoredState(log[s], snapshot[s]), n)
          /\ WholeUpTo(snapshot[s].state, snapshot[s].last)
      BY <1>2, <1>7 DEF Durable, DiskInv, Recoverable
    <3>2. AppliedIndex(log[s], snapshot[s]) = n /\ snapshot[s].last <= n
      BY <1>2, <3>1, n \in Nat, RestoredLength
    <3>3. old = [applied |-> n, last |-> snapshot[s].last, state |-> Durable(s)]
      BY <2>2, <3>2 DEF KnownCheckpoint, RestoredCheckpoint, Durable
    <3> QED
      BY <1>7, <1>8, <3>2, <3>3
  <2> QED
    BY <2>1, <2>2
<1> HIDE DEF old, state
<1>10. CASE e.ix <= old.applied
  <2>1. state = old
    BY <1>1, <1>3, <1>10 DEF state, Updated, Event, CheckpointState
  <2> QED
    BY <1>1, <1>3, <1>4, <1>5, <1>6, <1>9, <1>10, <2>1 DEF s, e, state, old,
       CheckpointState, Event
<1>11. CASE e.ix > old.applied
  <2>0. e.ix \in Nat /\ old.applied \in Nat /\ old.last \in Nat /\ old.state \in SUBSET Event
    BY <1>1, <1>3 DEF CheckpointState, Event
  <2>1. /\ state.applied = e.ix /\ state.last = old.last
        /\ state.state = old.state \union {e}
    BY <1>3, <1>11 DEF state, Updated, CheckpointState
  <2>2. e.ix = old.applied + 1
    <3>1. old.applied + 1 \in 1..n
      BY <1>6, <1>8, <1>11, <2>0
    <3>2. PICK d \in Durable(s) : d.ix = old.applied + 1
      BY <1>2, <1>7, <3>1, n \in Nat, WholeHas
    <3>3. CASE d.ix < e.ix
      <4>1. d \in Carried(checkpointQueue, s)
        BY <1>4, <1>9, <2>0, <3>2, <3>3
      <4> QED
        BY <1>6, <2>0, <3>2, <3>3, <4>1
    <3> QED
      BY <1>11, <2>0, <3>2, <3>3
  <2>3. WholeUpTo(state.state, state.applied)
    BY <1>1, <1>9, <2>0, <2>1, <2>2, WholeExtend
  <2>4. ASSUME NEW d \in Durable(s), d.ix > state.applied,
               logAlive \/ \E f \in Carried(checkpointQueue, s) : d.ix < f.ix
        PROVE  d \in Carried(checkpointQueue, s) /\ d # e
    <3>1. d.ix \in Nat
      BY <1>8
    <3> QED
      BY <1>9, <1>11, <2>0, <2>1, <2>4, <3>1
  <2>5. state.last <= state.applied /\ e.ix <= state.applied
    BY <1>9, <1>11, <2>0, <2>1
  <2> QED
    BY <1>1, <1>3, <1>4, <1>5, <1>6, <1>9, <2>1, <2>3, <2>4, <2>5 DEF s, e, state, old
<1> QED
  BY <1>1, <1>3, <1>10, <1>11 DEF CheckpointState, Event

(* Asking for a compaction.                                                *)
LEMMA CompactQueue ==
  ASSUME NEW q \in Seq(LogCommands), NEW s \in Session, NEW n \in Nat, NEW t \in Session
  PROVE  LET longer == Append(q, CompactCommand(s, n))
         IN  /\ longer \in Seq(LogCommands)
             /\ Carried(longer, t) = Carried(q, t)
             /\ Compactions(longer, t) = Compactions(q, t) \union (IF t = s THEN {n} ELSE {})
             /\ InOrder(q, t) => InOrder(longer, t)
<1> DEFINE c == CompactCommand(s, n)
<1>1. /\ c \in LogCommands
      /\ c.op = "compact" /\ c.session = s /\ c.through = n
  BY CommandTypes DEF CompactCommand
<1> HIDE DEF c
<1>2. LET longer == Append(q, c)
          carries == c.op = "event" /\ c.session = t
          compacts == c.op = "compact" /\ c.session = t
      IN  /\ ~carries => Carried(longer, t) = Carried(q, t)
          /\ compacts => Compactions(longer, t) = Compactions(q, t) \union {c.through}
          /\ ~compacts => Compactions(longer, t) = Compactions(q, t)
          /\ InOrder(q, t) /\ (carries => \A f \in Carried(q, t) : f.ix < c.event.ix)
               => InOrder(longer, t)
  BY <1>1, AddToQueue
<1>3. Append(q, c) \in Seq(LogCommands)
  BY <1>1
<1> QED
  BY <1>1, <1>2, <1>3 DEF c

(* An update of the checkpoint worker keeps the invariant, whether or not  *)
(* its session has to be restored first and whether or not a checkpoint    *)
(* is due: the snapshot it writes holds only durable events, and the       *)
(* compaction it asks for stops before it.                                 *)
LEMMA CheckpointUpdateInv ==
  ASSUME PipelineInv, CheckpointUpdate, ~DatabaseFails, NEW t \in Session
  PROVE  SessionInv(t)'
<1> DEFINE s == Head(checkpointQueue).session
           e == Head(checkpointQueue).event
           state == Updated(KnownCheckpoint(s), e)
           compact == CompactCommand(s, SaturatingSub(state.applied, RetentionTail))
<1>1. /\ s \in Session /\ s \in loaded /\ e \in Event
      /\ Readable(log[s])
      /\ logAlive => log[s].tail = "closed"
      /\ e \in Durable(s) /\ e \in Carried(checkpointQueue, s)
      /\ state \in CheckpointState
      /\ WholeUpTo(state.state, state.applied)
      /\ state.state \subseteq Durable(s)
      /\ state.last = snapshot[s].last /\ state.last <= state.applied
      /\ \A d \in Durable(s) :
           /\ d.ix > state.applied
           /\ logAlive \/ \E f \in Carried(checkpointQueue, s) : d.ix < f.ix
           => d \in Carried(checkpointQueue, s) /\ d # e
  BY UpdatedIsPrefix DEF CheckpointUpdate
<1>2. /\ TypeOK /\ SessionInv(t)
      /\ log[t] \in LogFile /\ snapshot[t] \in Snapshot
      /\ checkpoint \in [Session -> CheckpointState] /\ snapshot \in [Session -> Snapshot]
      /\ checkpointQueue \in Seq(WorkerCommands) /\ checkpointQueue # <<>>
      /\ Head(checkpointQueue).op = "event" /\ checkpointAlive
      /\ logQueue \in Seq(LogCommands)
      /\ SaturatingSub(state.applied, RetentionTail) \in Nat
      /\ compact \in LogCommands
      /\ state.applied \in Nat /\ state.last \in Nat /\ state.state \in SUBSET Event
  BY <1>1, CheckpointTypes, CommandTypes
  DEF CheckpointUpdate, NextUpdate, PipelineInv, TypeOK, CheckpointState
<1>3. /\ DiskInv(t) /\ LiveInv(t) /\ LogQueueInv(t)
      /\ CheckpointQueueInv(t) /\ CheckpointInv(t)
  BY <1>2 DEF SessionInv
<1>4. /\ known' = known \union {s}
      /\ checkpointQueue' = Tail(checkpointQueue)
      /\ UNCHANGED <<phase, loaded, next, live, logAlive, checkpointAlive, log>>
      /\ \/ /\ checkpoint' = [checkpoint EXCEPT ![s] = state]
            /\ UNCHANGED <<snapshot, logQueue>>
         \/ /\ snapshot' = [snapshot EXCEPT ![s] = SnapshotOf(state)]
            /\ checkpoint' = [checkpoint EXCEPT ![s] = Checkpointed(state)]
            /\ logQueue' = IF logAlive THEN Append(logQueue, compact) ELSE logQueue
  BY DEF CheckpointUpdate, daemonVars
<1>5. /\ t # s => Carried(checkpointQueue', t) = Carried(checkpointQueue, t)
      /\ t = s => Carried(checkpointQueue, t) = Carried(checkpointQueue', t) \union {e}
      /\ InOrder(checkpointQueue, t) => InOrder(checkpointQueue', t)
  BY <1>2, <1>4, TakeFromQueue
<1>6. /\ compact.op = "compact" /\ compact.session = s
      /\ compact.through = SaturatingSub(state.applied, RetentionTail)
      /\ compact.through <= state.applied
  BY <1>2, IntervalAssumption DEF CompactCommand, SaturatingSub
<1> HIDE DEF s, e, state, compact
<1>7. /\ Carried(logQueue', t) = Carried(logQueue, t)
      /\ InOrder(logQueue, t) => InOrder(logQueue', t)
      /\ t # s => Compactions(logQueue', t) = Compactions(logQueue, t)
      /\ Compactions(logQueue', t) \subseteq Compactions(logQueue, t) \union {compact.through}
  <2>1. LET longer == Append(logQueue, compact)
        IN  /\ Carried(longer, t) = Carried(logQueue, t)
            /\ Compactions(longer, t) =
                 Compactions(logQueue, t) \union (IF t = s THEN {compact.through} ELSE {})
            /\ InOrder(logQueue, t) => InOrder(longer, t)
    BY <1>1, <1>2, <1>6, CompactQueue DEF compact
  <2> QED
    BY <1>4, <2>1
<1>8. CASE t # s
  <2>1. snapshot'[t] = snapshot[t] /\ checkpoint'[t] = checkpoint[t]
        /\ (t \in known' <=> t \in known) /\ log'[t] = log[t]
    BY <1>2, <1>4, <1>8
  <2> QED
    BY <1>2, <1>3, <1>4, <1>5, <1>7, <1>8, <2>1, DurableKept DEF DiskInv
<1>9. CASE t = s
  <2> DEFINE D == Durable(t)
             E == RestoredState(log'[t], snapshot'[t])
  <2>1. /\ E = D
        /\ Recoverable(log'[t], snapshot'[t])
        /\ checkpoint'[t].last = snapshot'[t].last
        /\ checkpoint'[t].last <= checkpoint'[t].applied
        /\ checkpoint'[t].applied = state.applied
        /\ checkpoint'[t].state = state.state
        /\ snapshot'[t].last >= snapshot[t].last
        /\ \A m \in Compactions(logQueue', t) : m \in Nat => m <= snapshot'[t].last
    <3>1. CASE /\ checkpoint' = [checkpoint EXCEPT ![s] = state]
               /\ UNCHANGED <<snapshot, logQueue>>
      <4>1. checkpoint'[t] = state /\ snapshot'[t] = snapshot[t] /\ log'[t] = log[t]
        BY <1>2, <1>4, <1>9, <3>1
      <4> QED
        BY <1>1, <1>2, <1>3, <1>9, <3>1, <4>1 DEF Durable, DiskInv, LogQueueInv, Snapshot
    <3>2. CASE /\ snapshot' = [snapshot EXCEPT ![s] = SnapshotOf(state)]
               /\ checkpoint' = [checkpoint EXCEPT ![s] = Checkpointed(state)]
      <4>1. /\ snapshot'[t] = [last |-> state.applied, state |-> state.state]
            /\ checkpoint'[t] = Checkpointed(state)
            /\ log'[t] = log[t]
        BY <1>2, <1>4, <1>9, <3>2 DEF SnapshotOf
      <4>2. /\ checkpoint'[t].last = state.applied
            /\ checkpoint'[t].applied = state.applied
            /\ checkpoint'[t].state = state.state
        BY <1>1, <4>1 DEF Checkpointed, CheckpointState
      <4>3. /\ E = D
            /\ Recoverable(log'[t], snapshot'[t])
        BY <1>1, <1>2, <1>3, <1>9, <4>1, SnapshotKeeps DEF Durable, DiskInv
      <4>4. snapshot[t].last \in Nat
        BY <1>2 DEF Snapshot
      <4>5. \A m \in Compactions(logQueue', t) : m \in Nat => m <= state.applied
        BY <1>1, <1>2, <1>3, <1>6, <1>7, <1>9, <4>4 DEF LogQueueInv
      <4> QED
        BY <1>1, <1>2, <1>9, <4>1, <4>2, <4>3, <4>4, <4>5
    <3> QED
      BY <1>4, <3>1, <3>2
  <2>2. /\ t \in known' /\ t \in loaded' /\ log'[t] = log[t]
    BY <1>1, <1>4, <1>9
  <2> HIDE DEF D, E
  <2>3. LiveInv(t)'
    BY <1>3, <1>4, <2>1, <2>2 DEF LiveInv, Durable, D, E
  <2>4. LogQueueInv(t)'
    <3>1. \A m \in Compactions(logQueue', t) : m \in Nat
      <4>1. logQueue' \in Seq(LogCommands)
        BY CheckpointWorkerTypeOK DEF CheckpointWorker, PipelineInv, TypeOK
      <4>2. \A i \in DOMAIN logQueue' : logQueue'[i] \in LogCommands
        BY <4>1
      <4> QED
        BY <4>2, CommandTypes DEF Compactions, CompactCommands
    <3> QED
      BY <1>3, <1>4, <1>7, <2>1, <2>2, <3>1 DEF LogQueueInv, Sent, Durable, D, E
  <2>5. CheckpointQueueInv(t)'
    <3>1. Carried(checkpointQueue', t) \subseteq Carried(checkpointQueue, t)
      BY <1>5, <1>9
    <3>2. /\ Carried(checkpointQueue, t) \subseteq D
          /\ InOrder(checkpointQueue', t)
      BY <1>1, <1>3, <1>5, <1>9 DEF CheckpointQueueInv, D
    <3>3. \A d \in E :
            /\ d.ix > checkpoint'[t].applied
            /\ logAlive' \/ \E f \in Carried(checkpointQueue', t) : d.ix < f.ix
            => d \in Carried(checkpointQueue', t)
      BY <1>1, <1>4, <1>5, <1>9, <2>1, <3>1 DEF D
    <3> QED
      BY <1>1, <1>4, <1>9, <2>1, <2>2, <3>1, <3>2, <3>3 DEF CheckpointQueueInv, Durable, E
  <2>6. CheckpointInv(t)'
    BY <1>1, <1>4, <1>9, <2>1, <2>2 DEF CheckpointInv, Durable, D, E
  <2> QED
    BY <2>1, <2>3, <2>4, <2>5, <2>6 DEF SessionInv, DiskInv
<1> QED
  BY <1>8, <1>9

(* An update of a session that cannot be restored is dropped, and the      *)
(* invariant kept: it is a session the worker does not know.               *)
LEMMA CheckpointUpdateDroppedInv ==
  ASSUME PipelineInv, CheckpointUpdateDropped, NEW t \in Session
  PROVE  SessionInv(t)'
<1> DEFINE s == Head(checkpointQueue).session
<1>1. /\ TypeOK /\ SessionInv(t) /\ Recoverable(log[t], snapshot[t])
      /\ checkpointQueue \in Seq(WorkerCommands) /\ checkpointQueue # <<>>
      /\ Head(checkpointQueue).op = "event" /\ s \notin known
      /\ checkpointQueue' = Tail(checkpointQueue)
      /\ UNCHANGED <<phase, loaded, next, live, logAlive, logQueue, checkpointAlive,
                     known, checkpoint, log, snapshot>>
  BY DEF CheckpointUpdateDropped, NextUpdate, PipelineInv, TypeOK, SessionInv, DiskInv,
         daemonVars, logVars, diskVars
<1>2. /\ t # s => Carried(checkpointQueue', t) = Carried(checkpointQueue, t)
      /\ Carried(checkpointQueue', t) \subseteq Carried(checkpointQueue, t)
      /\ InOrder(checkpointQueue, t) => InOrder(checkpointQueue', t)
  BY <1>1, TakeFromQueue
<1> HIDE DEF s
<1> QED
  BY <1>1, <1>2, DurableKept

(* The checkpoints written when the worker stops keep the invariant.       *)
LEMMA CheckpointShutdownInv ==
  ASSUME PipelineInv, CheckpointShutdown, ~DatabaseFails, NEW t \in Session
  PROVE  SessionInv(t)'
<1> DEFINE behind == {s \in known : checkpoint[s].applied > checkpoint[s].last}
<1>1. /\ checkpointAlive /\ checkpointAlive' = FALSE /\ checkpointQueue' = <<>>
      /\ snapshot' = [s \in Session |-> IF s \in behind
                                          THEN SnapshotOf(checkpoint[s])
                                          ELSE snapshot[s]]
      /\ UNCHANGED <<phase, loaded, next, live, logAlive, logQueue, known,
                     checkpoint, log>>
  BY DEF CheckpointShutdown, daemonVars, logVars
<1>2. /\ TypeOK /\ DiskInv(t) /\ LiveInv(t) /\ LogQueueInv(t)
      /\ CheckpointQueueInv(t) /\ CheckpointInv(t) /\ SessionInv(t)
      /\ log[t] \in LogFile /\ snapshot[t] \in Snapshot
      /\ checkpoint[t] \in CheckpointState
  BY DEF PipelineInv, SessionInv, TypeOK
<1>3. /\ Carried(checkpointQueue', t) = {} /\ Compactions(checkpointQueue', t) = {}
      /\ InOrder(checkpointQueue', t)
  BY <1>1, NothingQueued
<1> HIDE DEF behind
<1>4. CASE t \notin behind
  <2>1. snapshot'[t] = snapshot[t]
    BY <1>1, <1>4
  <2>2. /\ LiveInv(t)' /\ LogQueueInv(t)'
    BY <1>1, <1>2, <2>1 DEF LiveInv, LogQueueInv, Durable, Sent
  <2>3. /\ CheckpointQueueInv(t)' /\ CheckpointInv(t)'
    BY <1>1, <1>2, <1>3, <2>1 DEF CheckpointQueueInv, CheckpointInv, Durable
  <2> QED
    BY <1>1, <1>2, <2>1, <2>2, <2>3 DEF SessionInv, DiskInv
<1>5. CASE t \in behind
  <2>1. /\ t \in known /\ Readable(log[t])
        /\ WholeUpTo(checkpoint[t].state, checkpoint[t].applied)
        /\ checkpoint[t].state \subseteq Durable(t)
        /\ snapshot[t].last <= checkpoint[t].applied
        /\ checkpoint[t].applied \in Nat /\ checkpoint[t].state \in SUBSET Event
    BY <1>1, <1>2, <1>5 DEF CheckpointInv, CheckpointState, behind
  <2>2. snapshot'[t] = [last |-> checkpoint[t].applied, state |-> checkpoint[t].state]
    BY <1>1, <1>5 DEF SnapshotOf
  <2>3. /\ RestoredState(log[t], snapshot'[t]) = RestoredState(log[t], snapshot[t])
        /\ Recoverable(log[t], snapshot'[t])
    BY <1>2, <2>1, <2>2, SnapshotKeeps DEF Durable, DiskInv
  <2>4. \A m \in Compactions(logQueue, t) : m <= snapshot'[t].last
    <3>1. \A m \in Compactions(logQueue, t) : m \in Nat
      <4>1. \A i \in DOMAIN logQueue : logQueue[i] \in LogCommands
        BY <1>2 DEF TypeOK
      <4> QED
        BY <4>1, CommandTypes DEF Compactions, CompactCommands
    <3>2. snapshot[t].last \in Nat /\ snapshot'[t].last = checkpoint[t].applied
      BY <1>2, <2>2 DEF Snapshot
    <3> QED
      BY <1>2, <2>1, <3>1, <3>2 DEF LogQueueInv
  <2>5. LiveInv(t)' /\ LogQueueInv(t)'
    BY <1>1, <1>2, <2>3, <2>4 DEF LiveInv, LogQueueInv, Durable, Sent
  <2>6. CheckpointQueueInv(t)' /\ CheckpointInv(t)'
    BY <1>1, <1>2, <1>3, <2>3 DEF CheckpointQueueInv, CheckpointInv, Durable
  <2> QED
    BY <1>1, <2>3, <2>5, <2>6 DEF SessionInv, DiskInv
<1> QED
  BY <1>4, <1>5

-----------------------------------------------------------------------------
(* The materializer, and dropping the runtime.                             *)

(* The materializer touches nothing the invariant speaks of.               *)
LEMMA MaterializerInv ==
  ASSUME PipelineInv, Materializer, NEW t \in Session
  PROVE  SessionInv(t)'
<1>1. /\ TypeOK /\ SessionInv(t) /\ Recoverable(log[t], snapshot[t])
  BY DEF PipelineInv, SessionInv, DiskInv
<1>2. UNCHANGED <<phase, loaded, next, live, logAlive, logQueue, checkpointAlive,
                  checkpointQueue, known, checkpoint, log, snapshot>>
  BY DEF Materializer, Materialize, MaterializerShutdown, daemonVars, logVars,
         checkpointVars, diskVars
<1> QED
  BY <1>1, <1>2, DurableKept

(* Dropping the runtime keeps the invariant: each join waits for a worker  *)
(* that has exited, and the last compactions stop before the snapshots.    *)
LEMMA DropInv ==
  ASSUME PipelineInv, Drop, NEW t \in Session
  PROVE  SessionInv(t)'
<1>1. /\ TypeOK /\ SessionInv(t) /\ Recoverable(log[t], snapshot[t])
      /\ log[t] \in LogFile /\ snapshot[t] \in Snapshot
      /\ checkpointQueue \in Seq(WorkerCommands)
  BY DEF PipelineInv, SessionInv, DiskInv, TypeOK
<1>2. CASE DropJoinLog
  <2>1. /\ phase' # "serving"
        /\ UNCHANGED <<loaded, next, live, logAlive, logQueue, checkpointAlive,
                       checkpointQueue, known, checkpoint, log, snapshot>>
    BY <1>2 DEF DropJoinLog, logVars, checkpointVars, diskVars
  <2> QED
    BY <1>1, <2>1, DurableKept
<1>3. CASE DropJoinMaterializer
  <2>1. /\ phase' # "serving"
        /\ checkpointQueue' = Append(checkpointQueue, Shutdown)
        /\ UNCHANGED <<loaded, next, live, logAlive, logQueue, checkpointAlive,
                       known, checkpoint, log, snapshot>>
    BY <1>3 DEF DropJoinMaterializer, logVars, diskVars
  <2>2. Shutdown \in WorkerCommands /\ Shutdown.op # "event"
    BY CommandTypes DEF Shutdown
  <2>3. LET longer == Append(checkpointQueue, Shutdown)
        IN  /\ Carried(longer, t) = Carried(checkpointQueue, t)
            /\ InOrder(checkpointQueue, t) => InOrder(longer, t)
    BY <1>1, <2>2, AddToQueue
  <2> QED
    BY <1>1, <2>1, <2>3, DurableKept
<1>4. CASE DropJoinCheckpoint
  <2>1. /\ phase' # "serving"
        /\ UNCHANGED <<loaded, next, live, logAlive, logQueue, checkpointAlive,
                       checkpointQueue, known, checkpoint, snapshot>>
    BY <1>4 DEF DropJoinCheckpoint, logVars, checkpointVars
  <2> DEFINE through == SaturatingSub(snapshot[t].last, RetentionTail)
  <2>2. \/ log'[t] = log[t]
        \/ Readable(log[t]) /\ log'[t] = CompactUpTo(log[t], through)
    BY <1>4 DEF DropJoinCheckpoint
  <2>3. through \in Nat /\ through <= snapshot[t].last
    BY <1>1, IntervalAssumption DEF SaturatingSub, Snapshot
  <2> HIDE DEF through
  <2>4. /\ Recoverable(log'[t], snapshot[t])
        /\ RestoredState(log'[t], snapshot[t]) = RestoredState(log[t], snapshot[t])
        /\ Readable(log'[t]) <=> Readable(log[t])
        /\ log[t].tail = "closed" => log'[t].tail = "closed"
    <3>1. CASE log'[t] = log[t]
      BY <1>1, <3>1
    <3>2. CASE Readable(log[t]) /\ log'[t] = CompactUpTo(log[t], through)
      <4>1. /\ RestoredState(CompactUpTo(log[t], through), snapshot[t])
                 = RestoredState(log[t], snapshot[t])
            /\ Recoverable(CompactUpTo(log[t], through), snapshot[t])
            /\ Readable(CompactUpTo(log[t], through))
            /\ log[t].tail = "closed" => CompactUpTo(log[t], through).tail = "closed"
        BY <1>1, <2>3, <3>2, CompactionKeeps
      <4> QED
        BY <3>2, <4>1
    <3> QED
      BY <2>2, <3>1, <3>2
  <2> QED
    BY <1>1, <2>1, <2>4, DurableKept
<1> QED
  BY <1>2, <1>3, <1>4 DEF Drop

-----------------------------------------------------------------------------
(* The invariant.                                                          *)

(* The invariant holds of empty files and an empty database.               *)
LEMMA InitInv == Init => PipelineInv
<1> SUFFICES ASSUME Init PROVE PipelineInv
  OBVIOUS
<1>1. TypeOK
  BY InitTypeOK
<1>2. ASSUME NEW s \in Session
      PROVE  SessionInv(s)
  <2>1. /\ log[s] = EmptyLog /\ snapshot[s] = NoSnapshot
        /\ s \notin loaded /\ s \notin known
        /\ logQueue = <<>> /\ checkpointQueue = <<>>
    BY DEF Init
  <2>2. Recoverable(EmptyLog, NoSnapshot)
    <3>1. EmptyLog.lines = {} /\ EmptyLog.unsynced = {} /\ EmptyLog.tail = "closed"
      BY DEF EmptyLog
    <3>2. NoSnapshot.last = 0 /\ NoSnapshot.state = {}
      BY DEF NoSnapshot
    <3>3. \A n \in Nat : EventsAfter(EmptyLog, n) = {}
      BY <3>1 DEF EventsAfter
    <3>4. RestoredState(EmptyLog, NoSnapshot) = {}
      BY <3>2, <3>3 DEF RestoredState
    <3>5. WholeUpTo({}, 0)
      BY {} \in SUBSET Event, 0 \in Nat, WholeIf
    <3>6. 0 \in 0..MaxIndex
      BY IndexAssumption
    <3>7. EmptyLog.unsynced = EventsAfter(EmptyLog, 0)
      BY <3>1, <3>3
    <3> QED
      BY <3>1, <3>2, <3>4, <3>5, <3>6, <3>7 DEF Recoverable
  <2>3. LogQueueInv(s)
    BY <2>1, NothingQueued DEF LogQueueInv
  <2>4. CheckpointQueueInv(s)
    BY <2>1, NothingQueued DEF CheckpointQueueInv
  <2> QED
    BY <2>1, <2>2, <2>3, <2>4 DEF SessionInv, DiskInv, LiveInv, CheckpointInv
<1> QED
  BY <1>1, <1>2 DEF PipelineInv

(* As long as the database does not fail, every step keeps the invariant.  *)
LEMMA NextInv ==
  ASSUME ~DatabaseFails
  PROVE  PipelineInv /\ [Next]_vars => PipelineInv'
<1> SUFFICES ASSUME PipelineInv, [Next]_vars
             PROVE  PipelineInv'
  OBVIOUS
<1>1. TypeOK'
  BY NextTypeOK DEF PipelineInv
<1>2. ASSUME NEW t \in Session
      PROVE  SessionInv(t)'
  <2>1. CASE UNCHANGED vars
    <3>1. UNCHANGED <<phase, loaded, next, live, logAlive, logQueue, checkpointAlive,
                      checkpointQueue, known, checkpoint, log, snapshot>>
      BY <2>1 DEF vars, daemonVars, logVars, checkpointVars, diskVars
    <3>2. TypeOK /\ SessionInv(t) /\ Recoverable(log[t], snapshot[t])
      BY DEF PipelineInv, SessionInv, DiskInv
    <3> QED
      BY <3>1, <3>2, DurableKept
  <2>2. CASE Start \/ Kill \/ LosePower
    BY <2>2, LifeInv
  <2>3. CASE \E s \in Session : Request(s)
    BY <2>3, RequestInv
  <2>4. CASE LogWorker
    BY <2>4, LogWorkerInv
  <2>5. CASE Materializer
    BY <2>5, MaterializerInv
  <2>6. CASE CheckpointWorker
    BY <2>6, CheckpointUpdateInv, CheckpointUpdateDroppedInv, CheckpointShutdownInv
    DEF CheckpointWorker
  <2>7. CASE Drop
    BY <2>7, DropInv
  <2> QED
    BY <2>1, <2>2, <2>3, <2>4, <2>5, <2>6, <2>7 DEF Next
<1> QED
  BY <1>1, <1>2 DEF PipelineInv

(* The inductive invariant holds: if the database does not fail, the disk, *)
(* the memory of the daemon and its queues agree about every session.      *)
THEOREM PipelineCorrect ==
  ASSUME ~DatabaseFails
  PROVE  Spec => []PipelineInv
BY InitInv, NextInv, PTL DEF Spec

(* If the database does not fail, what a restart would find of a session   *)
(* is at every moment an initial segment of its history, whatever appends  *)
(* are cut short, log writes fail, and daemons are killed or lose power.   *)
THEOREM RestoreIsPrefixHolds ==
  ASSUME ~DatabaseFails
  PROVE  Spec => []RestoreIsPrefix
<1>1. PipelineInv => RestoreIsPrefix
  <2> SUFFICES ASSUME PipelineInv, NEW s \in Session, Readable(log[s])
               PROVE  /\ \E n \in 0..MaxIndex : WholeUpTo(Durable(s), n)
                      /\ s \in loaded => Durable(s) \subseteq live[s]
    BY DEF RestoreIsPrefix
  <2> QED
    BY DEF PipelineInv, SessionInv, DiskInv, LiveInv, Recoverable, Durable
<1> QED
  BY <1>1, PipelineCorrect, PTL

-----------------------------------------------------------------------------
(***************************************************************************)
(* What holds whatever fails, the database included.                       *)
(***************************************************************************)
(* Fewer events conflict less. *)
LEMMA ConflictsOfFewer ==
  ASSUME NEW A, NEW B, A \subseteq B, ~Conflicting(B)
  PROVE  ~Conflicting(A)
BY DEF Conflicting

(* A record written to a file, as far as it gets, adds at most its event,  *)
(* and never makes an unreadable file readable; after a newline it keeps   *)
(* the file readable, and a whole one ends with a newline.                 *)
LEMMA WriteAddsOne ==
  ASSUME NEW file \in LogFile, NEW e, NEW out \in {"torn", "bare", "done"}
  PROVE  LET written == WriteRecord(file, e, out)
         IN  /\ written.lines \subseteq file.lines \union {e}
             /\ Readable(written) => Readable(file)
             /\ file.tail = "closed" /\ Readable(file) => Readable(written)
             /\ out = "done" => written.tail = "closed"
BY DEF WriteRecord, Unmerged, Readable, LogFile

(* Syncing, compacting and losing power only take lines away.              *)
LEMMA LinesTakenAway ==
  ASSUME NEW file \in LogFile
  PROVE  /\ Synced(file).lines = file.lines
         /\ Synced(file).tail = file.tail
         /\ Readable(Synced(file)) <=> Readable(file)
         /\ \A from : /\ Surviving(file, from).lines \subseteq file.lines
                      /\ Readable(Surviving(file, from)) <=> Readable(file)
         /\ \A through :
              /\ CompactUpTo(file, through).lines \subseteq file.lines
              /\ file.tail = "closed" => CompactUpTo(file, through).tail = "closed"
              /\ Readable(file) => Readable(CompactUpTo(file, through))
BY DEF Synced, Surviving, CompactUpTo, EventsAfter, Readable, LogFile

(* The state restored from disk is part of the snapshot and the log, and   *)
(* the index a restart continues from is the greatest of all of them.      *)
LEMMA RestoredIsNewest ==
  ASSUME NEW file \in LogFile, NEW snap \in Snapshot,
         \A e \in snap.state : e.ix <= snap.last
  PROVE  /\ RestoredState(file, snap) \subseteq snap.state \union file.lines
         /\ AppliedIndex(file, snap) \in Nat
         /\ snap.last <= AppliedIndex(file, snap)
         /\ \A e \in snap.state \union file.lines : e.ix <= AppliedIndex(file, snap)
<1> DEFINE after == EventsAfter(file, snap.last)
<1>1. /\ after \in SUBSET Event /\ file.lines \in SUBSET Event
      /\ snap.state \in SUBSET Event /\ snap.last \in Nat
      /\ \A e \in file.lines : e \in after \/ e.ix <= snap.last
      /\ \A e \in after : e.ix > snap.last
  BY DEF EventsAfter, LogFile, Snapshot, Event
<1>2. AppliedIndex(file, snap) \in Nat
  BY FileTypes
<1>3. CASE after = {}
  <2>1. AppliedIndex(file, snap) = snap.last
    BY <1>3 DEF AppliedIndex
  <2> QED
    BY <1>1, <1>2, <1>3, <2>1 DEF RestoredState
<1>4. CASE after # {}
  <2>1. AppliedIndex(file, snap) = LastIndex(after)
    BY <1>4 DEF AppliedIndex
  <2>2. \A e \in after : e.ix <= AppliedIndex(file, snap)
    BY <1>1, <1>4, <2>1, LastIndexIsOne
  <2>3. PICK e \in after : TRUE
    BY <1>4
  <2>4. snap.last < AppliedIndex(file, snap)
    <3>1. e.ix \in Nat /\ e.ix > snap.last /\ e.ix <= AppliedIndex(file, snap)
      BY <1>1, <2>2, <2>3, IndexAssumption DEF Event
    <3> QED
      BY <1>1, <1>2, <3>1
  <2>5. \A f \in snap.state \union file.lines : f.ix <= AppliedIndex(file, snap)
    <3> SUFFICES ASSUME NEW f \in snap.state \union file.lines
                 PROVE  f.ix <= AppliedIndex(file, snap)
      OBVIOUS
    <3>1. f.ix \in Nat
      BY <1>1, IndexAssumption DEF Event
    <3>2. CASE f \in after
      BY <2>2, <3>2
    <3>3. CASE f.ix <= snap.last
      BY <1>1, <1>2, <2>4, <3>1, <3>3
    <3> QED
      BY <1>1, <3>2, <3>3
  <2>6. RestoredState(file, snap) \subseteq snap.state \union file.lines
    BY DEF RestoredState, EventsAfter
  <2>7. snap.last <= AppliedIndex(file, snap)
    BY <1>1, <1>2, <2>4
  <2> QED
    BY <1>2, <2>5, <2>6, <2>7
<1> QED
  BY <1>3, <1>4

(* A session keeps what holds of it through every step that writes to its  *)
(* log no event but those of the live state, and gives it no new command   *)
(* but, to the checkpoint worker, an event the log worker had.             *)
LEMMA LinesKept ==
  ASSUME NEW s \in Session, TypeOK, FaultSessionInv(s),
         log'[s].lines \subseteq log[s].lines \union (IF s \in loaded THEN live[s] ELSE {}),
         Readable(log'[s]) => Readable(log[s]),
         s \in known => Readable(log'[s]),
         (s \in known \/ Carried(checkpointQueue', s) # {}) /\ logAlive'
           => log'[s].tail = "closed",
         s \in loaded \/ log'[s].lines \subseteq log[s].lines,
         snapshot'[s] = snapshot[s],
         next'[s] = next[s], live'[s] = live[s], checkpoint'[s] = checkpoint[s],
         s \in loaded' <=> s \in loaded,
         s \in known' <=> s \in known,
         phase' = "serving" => phase = "serving",
         checkpointAlive' => checkpointAlive,
         Carried(logQueue', s) \subseteq Carried(logQueue, s),
         Compactions(logQueue', s) \subseteq Compactions(logQueue, s),
         Carried(checkpointQueue', s)
           \subseteq Carried(checkpointQueue, s) \union Carried(logQueue, s)
  PROVE  FaultSessionInv(s)'
<1>1. /\ FaultDiskInv(s) /\ FaultLiveInv(s) /\ FaultQueueInv(s) /\ FaultCheckpointInv(s)
  BY DEF FaultSessionInv
<1>2. FaultDiskInv(s)'
  <2>1. ASSUME Readable(log'[s])
        PROVE  ~Conflicting(snapshot'[s].state \union log'[s].lines)
    <3>1. CASE s \in loaded
      <4>1. ~Conflicting(live[s] \union log[s].lines) /\ Durable(s) \subseteq live[s]
        BY <1>1, <2>1, <3>1 DEF FaultLiveInv
      <4>2. snapshot'[s].state \union log'[s].lines \subseteq live[s] \union log[s].lines
        BY <3>1, <4>1 DEF Durable, RestoredState
      <4> QED
        BY <4>1, <4>2, ConflictsOfFewer
    <3>2. CASE s \notin loaded
      <4>1. ~Conflicting(snapshot[s].state \union log[s].lines)
        BY <1>1, <2>1 DEF FaultDiskInv
      <4> QED
        BY <3>2, <4>1, ConflictsOfFewer
    <3> QED
      BY <3>1, <3>2
  <2> QED
    BY <1>1, <2>1 DEF FaultDiskInv
<1>3. FaultLiveInv(s)'
  <2> SUFFICES ASSUME s \in loaded, Readable(log'[s])
               PROVE  /\ Durable(s)' \subseteq live[s]
                      /\ ~Conflicting(live[s] \union log'[s].lines)
                      /\ phase' = "serving" =>
                           \A e \in live[s] \union log'[s].lines : e.ix < next[s]
    BY DEF FaultLiveInv
  <2>1. /\ Durable(s) \subseteq live[s]
        /\ ~Conflicting(live[s] \union log[s].lines)
        /\ phase' = "serving" => \A e \in live[s] \union log[s].lines : e.ix < next[s]
    BY <1>1 DEF FaultLiveInv
  <2>2. live[s] \union log'[s].lines \subseteq live[s] \union log[s].lines
    OBVIOUS
  <2>3. Durable(s)' \subseteq Durable(s) \union live[s]
    BY DEF Durable, RestoredState, EventsAfter
  <2> QED
    BY <2>1, <2>2, <2>3, ConflictsOfFewer
<1>4. FaultQueueInv(s)'
  BY <1>1 DEF FaultQueueInv
<1>5. FaultCheckpointInv(s)'
  BY <1>1 DEF FaultCheckpointInv
<1> QED
  BY <1>2, <1>3, <1>4, <1>5 DEF FaultSessionInv

(* What a daemon that has just started, or ended without a trace in memory,*)
(* finds on disk is a part of what was there or, for a killed daemon, that *)
(* and an event it had accepted.                                           *)
LEMMA LifeFault ==
  ASSUME FaultInv, Start \/ Kill \/ LosePower, NEW t \in Session
  PROVE  FaultSessionInv(t)'
<1>1. /\ TypeOK /\ FaultDiskInv(t) /\ FaultLiveInv(t) /\ FaultQueueInv(t)
      /\ log \in [Session -> LogFile] /\ log[t] \in LogFile
  BY DEF FaultInv, FaultSessionInv, TypeOK
<1>2. (\E alive : Reset(alive)) /\ snapshot' = snapshot
  BY DEF Start, Kill, LosePower, diskVars
<1>3. /\ Carried(logQueue', t) = {} /\ Compactions(logQueue', t) = {}
      /\ Carried(checkpointQueue', t) = {}
      /\ t \notin loaded' /\ t \notin known'
  BY <1>2, NothingQueued DEF Reset
<1>4. /\ Readable(log'[t]) => Readable(log[t])
      /\ \/ log'[t].lines \subseteq log[t].lines
         \/ /\ t \in loaded
            /\ log'[t].lines \subseteq log[t].lines \union live[t]
  <2>1. CASE Start
    BY <2>1 DEF Start, diskVars
  <2>2. CASE Kill
    <3>1. CASE UNCHANGED log
      BY <3>1
    <3>2. ASSUME NextLogCommand("event"), NEW out \in {"torn", "bare"},
                 log' = [log EXCEPT ![Head(logQueue).session] =
                           WriteRecord(@, Head(logQueue).event, out)]
          PROVE  /\ Readable(log'[t]) => Readable(log[t])
                 /\ \/ log'[t].lines \subseteq log[t].lines
                    \/ /\ t \in loaded
                       /\ log'[t].lines \subseteq log[t].lines \union live[t]
      <4> DEFINE s == Head(logQueue).session
                 e == Head(logQueue).event
      <4>1. CASE t # s
        BY <1>1, <3>2, <4>1
      <4>2. CASE t = s
        <5>1. logQueue \in Seq(LogCommands) /\ logQueue # <<>> /\ Head(logQueue).op = "event"
          BY <1>1, <3>2 DEF TypeOK, NextLogCommand
        <5>2. e \in Carried(logQueue, t)
          BY <4>2, <5>1, TakeFromQueue
        <5>3. t \in loaded /\ e \in live[t]
          BY <1>1, <5>2 DEF FaultQueueInv
        <5>4. log'[t] = WriteRecord(log[t], e, out)
          BY <1>1, <3>2, <4>2
        <5> HIDE DEF s, e
        <5>5. /\ log'[t].lines \subseteq log[t].lines \union {e}
              /\ Readable(log'[t]) => Readable(log[t])
          BY <1>1, <5>4, WriteAddsOne
        <5> QED
          BY <5>3, <5>5
      <4> QED
        BY <4>1, <4>2
    <3> QED
      BY <2>2, <3>1, <3>2 DEF Kill
  <2>3. CASE LosePower
    <3>1. PICK from \in [Session -> 1..MaxIndex] :
                 log' = [s \in Session |-> Surviving(log[s], from[s])]
      BY <2>3 DEF LosePower
    <3>2. log'[t] = Surviving(log[t], from[t])
      BY <3>1
    <3> QED
      BY <1>1, <3>2, LinesTakenAway
  <2> QED
    BY <2>1, <2>2, <2>3
<1>5. FaultDiskInv(t)'
  <2>1. ASSUME Readable(log'[t])
        PROVE  ~Conflicting(snapshot[t].state \union log'[t].lines)
    <3>1. CASE log'[t].lines \subseteq log[t].lines
      <4>1. /\ ~Conflicting(snapshot[t].state \union log[t].lines)
            /\ snapshot[t].state \union log'[t].lines
                 \subseteq snapshot[t].state \union log[t].lines
        BY <1>1, <1>4, <2>1, <3>1 DEF FaultDiskInv
      <4> QED
        BY <4>1, ConflictsOfFewer
    <3>2. CASE t \in loaded /\ log'[t].lines \subseteq log[t].lines \union live[t]
      <4>1. /\ ~Conflicting(live[t] \union log[t].lines)
            /\ snapshot[t].state \union log'[t].lines \subseteq live[t] \union log[t].lines
        BY <1>1, <1>4, <2>1, <3>2 DEF FaultLiveInv, Durable, RestoredState
      <4> QED
        BY <4>1, ConflictsOfFewer
    <3> QED
      BY <1>4, <3>1, <3>2
  <2> QED
    BY <1>1, <1>2, <2>1 DEF FaultDiskInv
<1> QED
  BY <1>3, <1>5 DEF FaultSessionInv, FaultLiveInv, FaultQueueInv, FaultCheckpointInv

(* The log worker may exit after any failure that writes to a log no event *)
(* but those of the live state.                                            *)
LEMMA LogExitFault ==
  ASSUME FaultInv, NEW t \in Session, LogWorkerExits,
         NEW files \in [Session -> LogFile], SyncAll(files),
         files[t].lines \subseteq log[t].lines \union (IF t \in loaded THEN live[t] ELSE {}),
         Readable(files[t]) => Readable(log[t]),
         t \in known => Readable(files[t]),
         UNCHANGED <<daemonVars, checkpointVars, snapshot>>
  PROVE  FaultSessionInv(t)'
<1>1. TypeOK /\ FaultSessionInv(t)
  BY DEF FaultInv
<1>2. log'[t].lines = files[t].lines /\ (Readable(log'[t]) <=> Readable(files[t]))
  <2>1. files[t] \in LogFile
    OBVIOUS
  <2>2. log'[t] = files[t] \/ log'[t] = Synced(files[t])
    BY DEF SyncAll
  <2> QED
    BY <2>1, <2>2, LinesTakenAway
<1>3. /\ Carried(logQueue', t) = {} /\ Compactions(logQueue', t) = {}
      /\ logAlive' = FALSE
  BY NothingQueued DEF LogWorkerExits
<1>4. UNCHANGED <<phase, loaded, next, live, checkpointAlive, checkpointQueue,
                  known, checkpoint, snapshot>>
  BY DEF daemonVars, checkpointVars
<1> HIDE DEF FaultInv
<1> QED
  BY <1>1, <1>2, <1>3, <1>4, LinesKept

(* The first command of the log worker's queue, when it carries an event.  *)
LEMMA HeadEvent ==
  ASSUME FaultInv, NextLogCommand("event")
  PROVE  LET s == Head(logQueue).session
             e == Head(logQueue).event
         IN  /\ s \in Session /\ e \in Event /\ Head(logQueue) \in WorkerCommands
             /\ logQueue \in Seq(LogCommands) /\ logQueue # <<>> /\ logAlive
             /\ Head(logQueue).op = "event"
             /\ log \in [Session -> LogFile]
             /\ s \in loaded /\ e \in live[s] /\ e \in Carried(logQueue, s)
             /\ \A t \in Session :
                  /\ Carried(Tail(logQueue), t) \subseteq Carried(logQueue, t)
                  /\ Compactions(Tail(logQueue), t) \subseteq Compactions(logQueue, t)
<1> DEFINE s == Head(logQueue).session
           e == Head(logQueue).event
<1>1. /\ s \in Session /\ e \in Event /\ Head(logQueue) \in WorkerCommands
      /\ logQueue \in Seq(LogCommands) /\ logQueue # <<>> /\ logAlive
      /\ Head(logQueue).op = "event" /\ log \in [Session -> LogFile]
  BY QueueTypes, CommandTypes DEF FaultInv, TypeOK, NextLogCommand, EventCommands
<1>2. e \in Carried(logQueue, s)
  BY <1>1, TakeFromQueue
<1>3. s \in loaded /\ e \in live[s]
  BY <1>1, <1>2 DEF FaultInv, FaultSessionInv, FaultQueueInv
<1>4. ASSUME NEW t \in Session
      PROVE  /\ Carried(Tail(logQueue), t) \subseteq Carried(logQueue, t)
             /\ Compactions(Tail(logQueue), t) \subseteq Compactions(logQueue, t)
  BY <1>1, TakeFromQueue
<1> QED
  BY <1>1, <1>2, <1>3, <1>4

(* An append, whole or cut short, adds to its log an event of the live     *)
(* state, and keeps the logs the checkpoint worker knows readable.         *)
LEMMA AppendedFile ==
  ASSUME FaultInv, NextLogCommand("event"), NEW out \in {"torn", "bare", "done"},
         NEW t \in Session
  PROVE  LET s == Head(logQueue).session
             written == [log EXCEPT ![s] = WriteRecord(@, Head(logQueue).event, out)]
         IN  /\ written \in [Session -> LogFile]
             /\ written[t].lines
                  \subseteq log[t].lines \union (IF t \in loaded THEN live[t] ELSE {})
             /\ Readable(written[t]) => Readable(log[t])
             /\ t \in known => Readable(written[t])
             /\ t # s => written[t] = log[t]
             /\ t = s /\ out = "done" => written[t].tail = "closed"
<1> DEFINE s == Head(logQueue).session
           e == Head(logQueue).event
           written == [log EXCEPT ![s] = WriteRecord(@, e, out)]
<1>1. /\ s \in Session /\ e \in Event /\ log \in [Session -> LogFile] /\ logAlive
      /\ s \in loaded /\ e \in live[s]
  BY HeadEvent
<1>2. written \in [Session -> LogFile]
  <2>1. WriteRecord(log[s], e, out) \in LogFile
    BY <1>1, FileTypes DEF FaultInv, TypeOK
  <2> QED
    BY <1>1, <2>1
<1>3. t \in known => Readable(log[t]) /\ log[t].tail = "closed"
  BY <1>1 DEF FaultInv, FaultSessionInv, FaultCheckpointInv
<1>4. CASE t # s
  BY <1>1, <1>2, <1>3, <1>4
<1>5. CASE t = s
  <2>1. written[t] = WriteRecord(log[t], e, out)
    BY <1>1, <1>5
  <2>2. /\ written[t].lines \subseteq log[t].lines \union {e}
        /\ Readable(written[t]) => Readable(log[t])
        /\ log[t].tail = "closed" /\ Readable(log[t]) => Readable(written[t])
        /\ out = "done" => written[t].tail = "closed"
    <3> HIDE DEF e, written
    <3> QED
      BY <1>1, <2>1, WriteAddsOne
  <2> QED
    BY <1>1, <1>2, <1>3, <1>5, <2>2
<1> QED
  BY <1>4, <1>5

(* The log worker's steps. *)
LEMMA LogAppendFault ==
  ASSUME FaultInv, LogAppend, NEW t \in Session
  PROVE  FaultSessionInv(t)'
<1> DEFINE s == Head(logQueue).session
           e == Head(logQueue).event
           written == [log EXCEPT ![s] = WriteRecord(@, e, "done")]
<1>1. NextLogCommand("event") /\ TypeOK /\ FaultSessionInv(t)
  BY DEF LogAppend, FaultInv
<1>2. /\ s \in Session /\ e \in Event /\ Head(logQueue) \in WorkerCommands
      /\ logQueue \in Seq(LogCommands) /\ log \in [Session -> LogFile]
      /\ logQueue # <<>> /\ Head(logQueue).op = "event"
      /\ e \in Carried(logQueue, s)
      /\ Carried(Tail(logQueue), t) \subseteq Carried(logQueue, t)
      /\ Compactions(Tail(logQueue), t) \subseteq Compactions(logQueue, t)
  BY <1>1, HeadEvent
<1>3. /\ written \in [Session -> LogFile]
      /\ written[t].lines \subseteq log[t].lines \union (IF t \in loaded THEN live[t] ELSE {})
      /\ Readable(written[t]) => Readable(log[t])
      /\ t \in known => Readable(written[t])
      /\ t # s => written[t] = log[t]
      /\ t = s => written[t].tail = "closed"
      /\ s \in loaded
  BY <1>1, AppendedFile, HeadEvent
<1>4. /\ log'[t].lines = written[t].lines /\ log'[t].tail = written[t].tail
      /\ Readable(log'[t]) <=> Readable(written[t])
  <2>1. log'[t] = written[t] \/ log'[t] = Synced(written[t])
    BY <1>2 DEF LogAppend
  <2>2. written[t] \in LogFile
    BY <1>3
  <2> HIDE DEF written
  <2> QED
    BY <2>1, <2>2, LinesTakenAway
<1>5. logQueue' = Tail(logQueue)
      /\ UNCHANGED <<phase, loaded, next, live, logAlive, checkpointAlive, known,
                     checkpoint, snapshot>>
  BY DEF LogAppend, daemonVars
<1>6. /\ Carried(checkpointQueue', t)
           \subseteq Carried(checkpointQueue, t) \union Carried(logQueue, t)
      /\ Carried(checkpointQueue', t) # {} => t = s \/ Carried(checkpointQueue, t) # {}
  <2>1. CASE checkpointQueue' = checkpointQueue
    BY <2>1
  <2>2. CASE checkpointQueue' = Append(checkpointQueue, Head(logQueue))
    <3>1. checkpointQueue \in Seq(WorkerCommands)
      BY <1>1 DEF TypeOK
    <3>2. Carried(checkpointQueue', t)
            = Carried(checkpointQueue, t) \union (IF t = s THEN {e} ELSE {})
      BY <1>2, <2>2, <3>1, AddToQueue
    <3> QED
      BY <1>2, <3>2
  <2> QED
    BY <2>1, <2>2 DEF LogAppend
<1>7. (t \in known \/ Carried(checkpointQueue', t) # {}) /\ logAlive'
        => log'[t].tail = "closed"
  BY <1>1, <1>3, <1>4, <1>5, <1>6 DEF FaultSessionInv, FaultQueueInv, FaultCheckpointInv
<1>8. t \in loaded \/ log'[t].lines \subseteq log[t].lines
  BY <1>3, <1>4
<1> HIDE DEF s, e, written
<1> QED
  BY <1>1, <1>2, <1>3, <1>4, <1>5, <1>6, <1>7, <1>8, LinesKept

LEMMA LogAppendFailsFault ==
  ASSUME FaultInv, LogAppendFails, NEW t \in Session
  PROVE  FaultSessionInv(t)'
<1>1. /\ NextLogCommand("event") /\ LogWorkerExits
      /\ UNCHANGED <<daemonVars, checkpointVars, snapshot>>
  BY DEF LogAppendFails
<1>2. CASE SyncAll(log)
  <2>1. log \in [Session -> LogFile] /\ (t \in known => Readable(log[t]))
    BY DEF FaultInv, TypeOK, FaultSessionInv, FaultCheckpointInv
  <2> QED
    BY <1>1, <1>2, <2>1, LogExitFault
<1>3. ASSUME NEW out \in {"torn", "bare", "done"},
             SyncAll([log EXCEPT ![Head(logQueue).session] =
                        WriteRecord(@, Head(logQueue).event, out)])
      PROVE  FaultSessionInv(t)'
  <2> DEFINE written == [log EXCEPT ![Head(logQueue).session] =
                           WriteRecord(@, Head(logQueue).event, out)]
  <2>1. /\ written \in [Session -> LogFile]
        /\ written[t].lines \subseteq log[t].lines \union (IF t \in loaded THEN live[t] ELSE {})
        /\ Readable(written[t]) => Readable(log[t])
        /\ t \in known => Readable(written[t])
    BY <1>1, AppendedFile
  <2>2. SyncAll(written)
    BY <1>3
  <2> HIDE DEF written
  <2> QED
    BY <1>1, <2>1, <2>2, LogExitFault
<1> QED
  BY <1>2, <1>3 DEF LogAppendFails

(* A compaction, done or failed, only takes lines away.                    *)
LEMMA LogCompactFault ==
  ASSUME FaultInv, LogCompact \/ LogCompactFails \/ LogShutdown, NEW t \in Session
  PROVE  FaultSessionInv(t)'
<1> DEFINE s == Head(logQueue).session
           through == Head(logQueue).through
           compacted == [log EXCEPT ![s] = CompactUpTo(@, through)]
<1>1. /\ TypeOK /\ FaultSessionInv(t) /\ log \in [Session -> LogFile]
      /\ t \in known => Readable(log[t])
      /\ logQueue \in Seq(LogCommands) /\ logQueue # <<>>
  BY DEF FaultInv, TypeOK, FaultSessionInv, FaultCheckpointInv,
         LogCompact, LogCompactFails, LogShutdown, NextLogCommand
<1>2. ASSUME Head(logQueue).op = "compact", Readable(log[s])
      PROVE  /\ compacted \in [Session -> LogFile]
             /\ compacted[t].lines \subseteq log[t].lines
             /\ Readable(compacted[t]) <=> Readable(log[t])
             /\ log[t].tail = "closed" => compacted[t].tail = "closed"
  <2>1. s \in Session /\ through \in Nat
    BY <1>1, <1>2, QueueTypes, CommandTypes DEF CompactCommands
  <2>2. log[s] \in LogFile /\ CompactUpTo(log[s], through) \in LogFile
    BY <1>1, <2>1, FileTypes DEF TypeOK
  <2>3. /\ CompactUpTo(log[s], through).lines \subseteq log[s].lines
        /\ log[s].tail = "closed" => CompactUpTo(log[s], through).tail = "closed"
        /\ Readable(CompactUpTo(log[s], through))
    BY <1>2, <2>2, LinesTakenAway
  <2> QED
    BY <1>1, <1>2, <2>1, <2>2, <2>3
<1>3. CASE LogCompact
  <2>1. /\ logQueue' = Tail(logQueue)
        /\ UNCHANGED <<phase, loaded, next, live, logAlive, checkpointAlive,
                       checkpointQueue, known, checkpoint, snapshot>>
        /\ Head(logQueue).op = "compact"
        /\ log' = log \/ (Readable(log[s]) /\ log' = compacted)
    BY <1>3 DEF LogCompact, NextLogCommand, daemonVars, checkpointVars
  <2>2. /\ log'[t].lines \subseteq log[t].lines
        /\ Readable(log'[t]) <=> Readable(log[t])
        /\ log[t].tail = "closed" => log'[t].tail = "closed"
    BY <1>2, <2>1
  <2>3. /\ Carried(logQueue', t) \subseteq Carried(logQueue, t)
        /\ Compactions(logQueue', t) \subseteq Compactions(logQueue, t)
    BY <1>1, <2>1, TakeFromQueue
  <2>4. (t \in known \/ Carried(checkpointQueue', t) # {}) /\ logAlive'
          => log'[t].tail = "closed"
    BY <1>1, <2>1, <2>2 DEF FaultSessionInv, FaultQueueInv, FaultCheckpointInv
  <2> HIDE DEF s, through, compacted
  <2> QED
    BY <1>1, <2>1, <2>2, <2>3, <2>4, LinesKept
<1>4. CASE LogCompactFails
  <2>1. /\ LogWorkerExits /\ UNCHANGED <<daemonVars, checkpointVars, snapshot>>
        /\ Head(logQueue).op = "compact"
        /\ SyncAll(log) \/ (Readable(log[s]) /\ SyncAll(compacted))
    BY <1>4 DEF LogCompactFails, NextLogCommand
  <2> HIDE DEF s, through, compacted
  <2> QED
    BY <1>1, <1>2, <2>1, LogExitFault
<1>5. CASE LogShutdown
  BY <1>1, <1>5, LogExitFault DEF LogShutdown
<1> QED
  BY <1>3, <1>4, <1>5

(* A request numbers its events after everything its session holds in      *)
(* memory and in the log: after next_event_index when the daemon has the   *)
(* session loaded, after what it restores when it has not.                 *)
LEMMA ApplyFault ==
  ASSUME FaultInv, NEW s \in Session, phase = "serving", Loadable(s),
         NEW applied \in 0..2, NEW sent \in 0..applied, Apply(s, applied, sent),
         phase' = "serving" => sent = applied,
         UNCHANGED <<logAlive, checkpointVars, diskVars>>,
         Carried(logQueue', s)
           \subseteq Carried(logQueue, s) \union {Observed(s, i) : i \in 0..(applied - 1)},
         Compactions(logQueue', s) \subseteq Compactions(logQueue, s)
  PROVE  FaultSessionInv(s)'
<1> DEFINE new == {Observed(s, i) : i \in 0..(applied - 1)}
           L == LiveState(s)
           N == NextIndex(s)
<1>1. /\ TypeOK /\ FaultDiskInv(s) /\ FaultLiveInv(s) /\ FaultQueueInv(s)
      /\ FaultCheckpointInv(s)
      /\ log[s] \in LogFile /\ snapshot[s] \in Snapshot
      /\ log[s].lines \in SUBSET Event
      /\ next[s] \in Nat /\ live \in [Session -> SUBSET Event]
      /\ next \in [Session -> Nat]
  BY DEF FaultInv, FaultSessionInv, TypeOK, LogFile
<1>2. L \in SUBSET Event /\ N \in Nat
  BY <1>1, RequestTypes
<1>3. /\ s \in loaded' /\ next'[s] = N + sent /\ live'[s] = L \union new
  BY <1>1 DEF Apply
<1>4. UNCHANGED <<logAlive, checkpointAlive, checkpointQueue, known, checkpoint,
                  log, snapshot>>
  BY DEF checkpointVars, diskVars
<1>5. Readable(log[s]) =>
        /\ \A d \in L \union log[s].lines : d.ix < N
        /\ ~Conflicting(L \union log[s].lines)
        /\ Durable(s) \subseteq L
  <2> SUFFICES ASSUME Readable(log[s])
               PROVE  /\ \A d \in L \union log[s].lines : d.ix < N
                      /\ ~Conflicting(L \union log[s].lines)
                      /\ Durable(s) \subseteq L
    OBVIOUS
  <2>1. CASE s \in loaded
    BY <1>1, <2>1 DEF FaultLiveInv, LiveState, NextIndex
  <2>2. CASE s \notin loaded
    <3>1. L = RestoredState(log[s], snapshot[s]) /\ N = AppliedIndex(log[s], snapshot[s]) + 1
      BY <2>2 DEF LiveState, NextIndex
    <3>2. /\ RestoredState(log[s], snapshot[s]) \subseteq snapshot[s].state \union log[s].lines
          /\ AppliedIndex(log[s], snapshot[s]) \in Nat
          /\ \A e \in snapshot[s].state \union log[s].lines :
               e.ix <= AppliedIndex(log[s], snapshot[s])
      BY <1>1, RestoredIsNewest DEF FaultDiskInv
    <3>3. ~Conflicting(snapshot[s].state \union log[s].lines)
      BY <1>1 DEF FaultDiskInv
    <3> HIDE DEF L, N
    <3>4. \A d \in L \union log[s].lines : d.ix \in Nat
      BY <1>1, <1>2, IndexAssumption DEF Event
    <3>5. L \union log[s].lines \subseteq snapshot[s].state \union log[s].lines
      BY <3>1, <3>2
    <3>6. \A d \in L \union log[s].lines : d.ix < N
      BY <3>1, <3>2, <3>4, <3>5
    <3>7. ~Conflicting(L \union log[s].lines)
      BY <3>3, <3>5, ConflictsOfFewer
    <3> QED
      BY <3>1, <3>6, <3>7 DEF Durable
  <2> QED
    BY <2>1, <2>2
<1>6. /\ \A e \in new : e.ix \in Nat /\ N <= e.ix /\ e.ix < N + applied
      /\ \A e, f \in new : e.ix = f.ix => e = f
  BY <1>2 DEF Observed
<1>7. live[s] \subseteq L \/ s \notin loaded
  BY DEF LiveState
<1>8. \A d \in L \union log[s].lines : d.ix \in Nat
  BY <1>1, <1>2, IndexAssumption DEF Event
<1> HIDE DEF new, L, N
<1>9. FaultLiveInv(s)'
  <2> SUFFICES ASSUME Readable(log[s])
               PROVE  /\ Durable(s) \subseteq L \union new
                      /\ ~Conflicting((L \union new) \union log[s].lines)
                      /\ sent = applied =>
                           \A e \in (L \union new) \union log[s].lines : e.ix < N + sent
    BY <1>3, <1>4 DEF FaultLiveInv, Durable
  <2>1. ~Conflicting((L \union new) \union log[s].lines)
    <3> SUFFICES ASSUME NEW e \in (L \union new) \union log[s].lines,
                        NEW f \in (L \union new) \union log[s].lines,
                        e.ix = f.ix
                 PROVE  e = f
      BY DEF Conflicting
    <3>1. CASE e \in new /\ f \in new
      BY <1>6, <3>1
    <3>2. CASE e \in new /\ f \notin new
      BY <1>2, <1>5, <1>6, <1>8, <3>2
    <3>3. CASE e \notin new /\ f \in new
      BY <1>2, <1>5, <1>6, <1>8, <3>3
    <3>4. CASE e \notin new /\ f \notin new
      BY <1>5, <3>4 DEF Conflicting
    <3> QED
      BY <3>1, <3>2, <3>3, <3>4
  <2>2. sent = applied => \A e \in (L \union new) \union log[s].lines : e.ix < N + sent
    BY <1>2, <1>5, <1>6, <1>8
  <2> QED
    BY <1>5, <2>1, <2>2
<1>10. FaultDiskInv(s)'
  BY <1>1, <1>4 DEF FaultDiskInv
<1>11. FaultQueueInv(s)'
  BY <1>1, <1>3, <1>4, <1>7 DEF FaultQueueInv, new
<1>12. FaultCheckpointInv(s)'
  BY <1>1, <1>3, <1>4, <1>7 DEF FaultCheckpointInv
<1> QED
  BY <1>9, <1>10, <1>11, <1>12 DEF FaultSessionInv

(* A session keeps what holds of it through every step that leaves its log,*)
(* its snapshot and what the daemon holds of it alone.                     *)
LEMMA SessionKept ==
  ASSUME NEW s \in Session, TypeOK, FaultSessionInv(s),
         log'[s] = log[s], snapshot'[s] = snapshot[s],
         next'[s] = next[s], live'[s] = live[s], checkpoint'[s] = checkpoint[s],
         s \in loaded' <=> s \in loaded,
         s \in known' <=> s \in known,
         phase' = "serving" => phase = "serving",
         logAlive' => logAlive, checkpointAlive' => checkpointAlive,
         Carried(logQueue', s) \subseteq Carried(logQueue, s),
         Compactions(logQueue', s) \subseteq Compactions(logQueue, s),
         Carried(checkpointQueue', s) \subseteq Carried(checkpointQueue, s)
  PROVE  FaultSessionInv(s)'
<1>1. /\ s \in known => Readable(log[s])
      /\ (s \in known \/ Carried(checkpointQueue', s) # {}) /\ logAlive'
           => log[s].tail = "closed"
  BY DEF FaultSessionInv, FaultQueueInv, FaultCheckpointInv
<1> QED
  BY <1>1, LinesKept

(* A request, answered or failed. *)
LEMMA RequestFault ==
  ASSUME FaultInv, NEW s \in Session, Request(s), NEW t \in Session
  PROVE  FaultSessionInv(t)'
<1>1. /\ TypeOK /\ FaultSessionInv(t) /\ logQueue \in Seq(LogCommands)
      /\ phase = "serving"
      /\ UNCHANGED <<logAlive, checkpointVars, diskVars>>
      /\ UNCHANGED <<checkpointAlive, checkpointQueue, known, checkpoint, log, snapshot>>
  BY DEF FaultInv, TypeOK, Request, HandleRequest, HandleRequestUnpersisted, FailRequest,
         checkpointVars, diskVars
<1>2. ASSUME NEW applied \in 0..2, NEW sent \in 0..applied, Apply(s, applied, sent), t # s
      PROVE  /\ next'[t] = next[t] /\ live'[t] = live[t]
             /\ t \in loaded' <=> t \in loaded
  BY <1>1, <1>2 DEF Apply, TypeOK
<1>3. ASSUME NEW applied \in 0..2, NEW sent \in 0..applied, Apply(s, applied, sent),
             Loadable(s),
             phase' = "serving" => sent = applied,
             Carried(logQueue', t) \subseteq Carried(logQueue, t) \union
               (IF t = s THEN {Observed(s, i) : i \in 0..(applied - 1)} ELSE {}),
             Compactions(logQueue', t) \subseteq Compactions(logQueue, t)
      PROVE  FaultSessionInv(t)'
  <2>1. CASE t = s
    BY <1>1, <1>3, <2>1, ApplyFault
  <2>2. CASE t # s
    BY <1>1, <1>2, <1>3, <2>2, SessionKept
  <2> QED
    BY <2>1, <2>2
<1>4. EndServing => /\ Carried(logQueue', t) = Carried(logQueue, t)
                    /\ Compactions(logQueue', t) = Compactions(logQueue, t)
                    /\ phase' # "serving"
  BY <1>1, EndServingQueue DEF EndServing
<1>5. CASE HandleRequest(s)
  <2> DEFINE first == Observed(s, 0)
             second == Observed(s, 1)
             q == Append(logQueue, EventCommand(s, first))
  <2>1. NextIndex(s) \in Nat \ {0}
    BY <1>1, RequestTypes
  <2>2. CASE /\ Apply(s, 1, 1)
             /\ logQueue' = q
    <3>1. first \in Event
      BY <1>1, <2>1, <2>2, RequestTypes, IndexAssumption DEF Apply
    <3>2. /\ Carried(logQueue', t) \subseteq Carried(logQueue, t) \union
               (IF t = s THEN {first} ELSE {})
          /\ Compactions(logQueue', t) = Compactions(logQueue, t)
      BY <1>1, <2>2, <3>1, SendQueue
    <3>3. first \in {Observed(s, i) : i \in 0..(1 - 1)}
      OBVIOUS
    <3>4. Carried(logQueue', t) \subseteq Carried(logQueue, t) \union
            (IF t = s THEN {Observed(s, i) : i \in 0..(1 - 1)} ELSE {})
      <4> DEFINE new == {Observed(s, i) : i \in 0..(1 - 1)}
      <4>1. first \in new
        BY <3>3
      <4> HIDE DEF first, new
      <4>2. Carried(logQueue', t)
              \subseteq Carried(logQueue, t) \union (IF t = s THEN new ELSE {})
        BY <3>2, <4>1
      <4> QED
        BY <4>2 DEF new
    <3>5. 1 \in 0..2 /\ 1 \in 0..1 /\ Loadable(s) /\ Apply(s, 1, 1)
      BY <1>5, <2>2 DEF HandleRequest
    <3> QED
      BY <1>3, <3>2, <3>4, <3>5
  <2>3. CASE /\ Apply(s, 2, 2)
             /\ logQueue' = Append(q, EventCommand(s, second))
    <3>5. NextIndex(s) + 0 \in 1..MaxIndex /\ NextIndex(s) + 1 \in 1..MaxIndex
      BY <2>1, <2>3, IndexAssumption DEF Apply
    <3>1. first \in Event /\ second \in Event
      BY <1>1, <3>5, 0 \in Nat, 1 \in Nat, RequestTypes
    <3>2. /\ q \in Seq(LogCommands)
          /\ Carried(q, t) = Carried(logQueue, t) \union (IF t = s THEN {first} ELSE {})
          /\ Compactions(q, t) = Compactions(logQueue, t)
      BY <1>1, <3>1, SendQueue
    <3> HIDE DEF q
    <3>3. /\ Carried(logQueue', t) = Carried(q, t) \union (IF t = s THEN {second} ELSE {})
          /\ Compactions(logQueue', t) = Compactions(q, t)
      BY <2>3, <3>1, <3>2, SendQueue
    <3>4. /\ first \in {Observed(s, i) : i \in 0..(2 - 1)}
          /\ second \in {Observed(s, i) : i \in 0..(2 - 1)}
      OBVIOUS
    <3> HIDE DEF first, second
    <3> QED
      BY <1>3, <1>5, <2>3, <3>2, <3>3, <3>4 DEF HandleRequest
  <2> QED
    BY <1>5, <2>2, <2>3 DEF HandleRequest
<1>6. CASE HandleRequestUnpersisted(s)
  <2> PICK applied \in 1..2 : \E sent \in 0..(applied - 1) : Apply(s, applied, sent)
    BY <1>6 DEF HandleRequestUnpersisted
  <2>1. PICK sent \in 0..(applied - 1) : Apply(s, applied, sent)
    OBVIOUS
  <2>2. applied \in 0..2 /\ sent \in 0..applied
    OBVIOUS
  <2> QED
    BY <1>3, <1>4, <1>6, <2>1, <2>2 DEF HandleRequestUnpersisted
<1>7. CASE FailRequest(s)
  <2>1. EndServing
    BY <1>7 DEF FailRequest
  <2>2. CASE UNCHANGED <<loaded, next, live>>
    BY <1>1, <1>4, <2>1, <2>2, SessionKept
  <2>3. CASE Loadable(s) /\ \E applied \in 0..1 : Apply(s, applied, 0)
    <3>1. PICK applied \in 0..1 : Apply(s, applied, 0)
      BY <2>3
    <3>2. applied \in 0..2 /\ 0 \in 0..applied
      OBVIOUS
    <3> QED
      BY <1>3, <1>4, <2>1, <2>3, <3>1, <3>2
  <2> QED
    BY <1>7, <2>2, <2>3 DEF FailRequest
<1> QED
  BY <1>5, <1>6, <1>7 DEF Request

(* The state the checkpoint worker ends an update with is a part of the    *)
(* live one, and ahead of the snapshot it has loaded.                      *)
LEMMA UpdatedIsLive ==
  ASSUME FaultInv, NextUpdate,
         LET s == Head(checkpointQueue).session
         IN  s \in known \/ Restorable(log[s], snapshot[s])
  PROVE  LET s == Head(checkpointQueue).session
             e == Head(checkpointQueue).event
             state == Updated(KnownCheckpoint(s), e)
         IN  /\ s \in Session /\ s \in loaded /\ Readable(log[s])
             /\ logAlive => log[s].tail = "closed"
             /\ state \in CheckpointState
             /\ state.state \subseteq live[s]
             /\ \A d \in state.state : d.ix <= state.applied
             /\ snapshot[s].last <= state.applied
<1> DEFINE s == Head(checkpointQueue).session
           e == Head(checkpointQueue).event
           old == KnownCheckpoint(s)
           state == Updated(old, e)
<1>1. /\ s \in Session /\ e \in Event /\ TypeOK /\ checkpointAlive
      /\ checkpointQueue \in Seq(WorkerCommands) /\ checkpointQueue # <<>>
      /\ Head(checkpointQueue).op = "event"
  BY QueueTypes, CommandTypes DEF FaultInv, TypeOK, NextUpdate, EventCommands
<1>2. e \in Carried(checkpointQueue, s)
  BY <1>1, TakeFromQueue
<1>3. /\ FaultDiskInv(s) /\ FaultLiveInv(s) /\ FaultQueueInv(s) /\ FaultCheckpointInv(s)
      /\ log[s] \in LogFile /\ snapshot[s] \in Snapshot /\ snapshot[s].last \in Nat
      /\ live[s] \in SUBSET Event
  BY <1>1 DEF FaultInv, FaultSessionInv, TypeOK, Snapshot
<1>4. /\ s \in loaded /\ e \in live[s]
      /\ logAlive => log[s].tail = "closed"
  BY <1>2, <1>3 DEF FaultQueueInv
<1>5. Readable(log[s])
  BY <1>3 DEF FaultCheckpointInv, Restorable
<1>6. old \in CheckpointState /\ state \in CheckpointState
  BY <1>1, CheckpointTypes
<1>7. /\ old.state \subseteq live[s]
      /\ \A d \in old.state : d.ix <= old.applied
      /\ snapshot[s].last <= old.applied
  <2>1. CASE s \in known
    BY <1>1, <1>3, <2>1 DEF FaultCheckpointInv, KnownCheckpoint
  <2>2. CASE s \notin known
    <3>1. old = RestoredCheckpoint(s)
      BY <2>2 DEF KnownCheckpoint
    <3>2. /\ RestoredState(log[s], snapshot[s]) \subseteq snapshot[s].state \union log[s].lines
          /\ snapshot[s].last <= AppliedIndex(log[s], snapshot[s])
          /\ \A d \in snapshot[s].state \union log[s].lines :
               d.ix <= AppliedIndex(log[s], snapshot[s])
      BY <1>3, RestoredIsNewest DEF FaultDiskInv
    <3>3. RestoredState(log[s], snapshot[s]) \subseteq live[s]
      BY <1>3, <1>4, <1>5 DEF FaultLiveInv, Durable
    <3> HIDE DEF s, old
    <3> QED
      BY <3>1, <3>2, <3>3 DEF RestoredCheckpoint
  <2> QED
    BY <2>1, <2>2
<1> HIDE DEF s, e, old
<1>8. /\ state.state \subseteq live[s]
      /\ \A d \in state.state : d.ix <= state.applied
      /\ snapshot[s].last <= state.applied
  <2>1. CASE e.ix > old.applied
    <3>1. state.applied = e.ix /\ state.state = old.state \union {e}
      BY <1>6, <2>1 DEF Updated, CheckpointState
    <3>2. e.ix \in Nat /\ old.applied \in Nat
      BY <1>1, <1>6, IndexAssumption DEF Event, CheckpointState
    <3>3. \A d \in old.state : d.ix \in Nat
      BY <1>3, <1>7, IndexAssumption DEF Event
    <3> HIDE DEF state
    <3> QED
      BY <1>3, <1>4, <1>7, <2>1, <3>1, <3>2, <3>3
  <2>2. CASE ~(e.ix > old.applied)
    <3>1. state = old
      BY <2>2 DEF Updated
    <3> QED
      BY <1>7, <3>1
  <2> QED
    BY <2>1, <2>2
<1> QED
  BY <1>1, <1>4, <1>5, <1>6, <1>8 DEF s, e, old

(* A checkpoint written, of a state that is a part of the live one, leaves *)
(* on disk no event twice and none the daemon does not hold.               *)
LEMMA SnapshotOfLive ==
  ASSUME FaultInv, NEW s \in Session, s \in loaded, Readable(log[s]),
         NEW state \in CheckpointState,
         state.state \subseteq live[s],
         \A d \in state.state : d.ix <= state.applied,
         snapshot[s].last <= state.applied,
         log'[s] = log[s], snapshot'[s] = SnapshotOf(state)
  PROVE  /\ FaultDiskInv(s)'
         /\ Durable(s)' \subseteq live[s]
<1>1. /\ FaultLiveInv(s) /\ log[s] \in LogFile /\ snapshot[s] \in Snapshot
      /\ snapshot[s].last \in Nat /\ state.applied \in Nat
      /\ \A e \in log[s].lines : e.ix \in Nat
      /\ snapshot'[s].last = state.applied /\ snapshot'[s].state = state.state
  BY IndexAssumption DEF FaultInv, FaultSessionInv, TypeOK, CheckpointState, Snapshot,
     LogFile, Event, SnapshotOf
<1>2. /\ ~Conflicting(live[s] \union log[s].lines) /\ Durable(s) \subseteq live[s]
  BY <1>1 DEF FaultLiveInv
<1>3. ~Conflicting(snapshot'[s].state \union log'[s].lines)
  <2>1. snapshot'[s].state \union log'[s].lines \subseteq live[s] \union log[s].lines
    BY <1>1
  <2> QED
    BY <1>2, <2>1, ConflictsOfFewer
<1>4. Durable(s)' \subseteq live[s]
  <2>1. EventsAfter(log[s], state.applied) \subseteq EventsAfter(log[s], snapshot[s].last)
    BY <1>1 DEF EventsAfter
  <2> QED
    BY <1>1, <1>2, <2>1 DEF Durable, RestoredState
<1> QED
  BY <1>1, <1>3, <1>4 DEF FaultDiskInv

(* The checkpoint worker applies an update, and writes a checkpoint, tries *)
(* to in vain, or has none to write yet.                                   *)
LEMMA CheckpointUpdateFault ==
  ASSUME FaultInv, CheckpointUpdate, NEW t \in Session
  PROVE  FaultSessionInv(t)'
<1> DEFINE s == Head(checkpointQueue).session
           e == Head(checkpointQueue).event
           state == Updated(KnownCheckpoint(s), e)
           through == SaturatingSub(state.applied, RetentionTail)
<1>1. /\ s \in Session /\ s \in loaded /\ Readable(log[s])
      /\ logAlive => log[s].tail = "closed"
      /\ state \in CheckpointState
      /\ state.state \subseteq live[s]
      /\ \A d \in state.state : d.ix <= state.applied
      /\ snapshot[s].last <= state.applied
  BY UpdatedIsLive DEF CheckpointUpdate
<1>2. /\ TypeOK /\ FaultSessionInv(t)
      /\ FaultDiskInv(t) /\ FaultLiveInv(t) /\ FaultQueueInv(t) /\ FaultCheckpointInv(t)
      /\ checkpoint \in [Session -> CheckpointState] /\ snapshot \in [Session -> Snapshot]
      /\ checkpointQueue \in Seq(WorkerCommands) /\ checkpointQueue # <<>>
      /\ logQueue \in Seq(LogCommands)
      /\ through \in Nat
  BY <1>1, CheckpointTypes DEF CheckpointUpdate, NextUpdate, FaultInv, FaultSessionInv, TypeOK
<1>3. /\ known' = known \union {s}
      /\ checkpointQueue' = Tail(checkpointQueue)
      /\ UNCHANGED <<phase, loaded, next, live, logAlive, checkpointAlive, log>>
      /\ logQueue' = logQueue
         \/ logQueue' = Append(logQueue, CompactCommand(s, through))
      /\ \/ /\ checkpoint' = [checkpoint EXCEPT ![s] = state]
            /\ UNCHANGED snapshot
         \/ /\ snapshot' = [snapshot EXCEPT ![s] = SnapshotOf(state)]
            /\ checkpoint' = [checkpoint EXCEPT ![s] = Checkpointed(state)]
  BY DEF CheckpointUpdate, daemonVars
<1>4. /\ Carried(checkpointQueue', t) \subseteq Carried(checkpointQueue, t)
      /\ Carried(logQueue', t) = Carried(logQueue, t)
      /\ t # s => Compactions(logQueue', t) = Compactions(logQueue, t)
  <2>1. Carried(checkpointQueue', t) \subseteq Carried(checkpointQueue, t)
    BY <1>2, <1>3, TakeFromQueue
  <2>2. /\ Carried(logQueue', t) = Carried(logQueue, t)
        /\ t # s => Compactions(logQueue', t) = Compactions(logQueue, t)
    <3>1. CASE logQueue' = logQueue
      BY <3>1
    <3>2. CASE logQueue' = Append(logQueue, CompactCommand(s, through))
      <4>1. s \in Session /\ through \in Nat /\ logQueue \in Seq(LogCommands)
        BY <1>1, <1>2
      <4> HIDE DEF s, e, state, through
      <4>2. LET longer == Append(logQueue, CompactCommand(s, through))
            IN  /\ Carried(longer, t) = Carried(logQueue, t)
                /\ Compactions(longer, t)
                     = Compactions(logQueue, t) \union (IF t = s THEN {through} ELSE {})
        BY <4>1, CompactQueue
      <4> QED
        BY <3>2, <4>2
    <3> QED
      BY <1>3, <3>1, <3>2
  <2> QED
    BY <2>1, <2>2
<1> HIDE DEF s, e, state, through
<1>5. CASE t # s
  <2>1. /\ checkpoint'[t] = checkpoint[t] /\ snapshot'[t] = snapshot[t]
        /\ t \in known' <=> t \in known
    BY <1>2, <1>3, <1>5
  <2> QED
    BY <1>2, <1>3, <1>4, <1>5, <2>1, SessionKept
<1>6. CASE t = s
  <2>1. /\ checkpoint'[t] = state \/ checkpoint'[t] = Checkpointed(state)
        /\ snapshot'[t] = snapshot[t] \/ snapshot'[t] = SnapshotOf(state)
    BY <1>1, <1>2, <1>3, <1>6
  <2>6. checkpoint'[t].applied = state.applied /\ checkpoint'[t].state = state.state
    BY <1>1, <2>1 DEF Checkpointed, CheckpointState
  <2>2. /\ FaultDiskInv(t)'
        /\ Durable(t)' \subseteq live[t]
    <3>1. CASE snapshot'[t] = snapshot[t]
      BY <1>1, <1>2, <1>3, <1>6, <3>1 DEF FaultDiskInv, FaultLiveInv, Durable
    <3>2. CASE snapshot'[t] = SnapshotOf(state)
      BY <1>1, <1>3, <1>6, <3>2, SnapshotOfLive
    <3> QED
      BY <2>1, <3>1, <3>2
  <2>3. FaultLiveInv(t)'
    BY <1>2, <1>3, <2>2 DEF FaultLiveInv
  <2>4. FaultQueueInv(t)'
    BY <1>1, <1>2, <1>3, <1>4, <1>6 DEF FaultQueueInv
  <2>5. FaultCheckpointInv(t)'
    <3>1. snapshot'[t].last <= state.applied
      BY <1>1, <1>6, <2>1 DEF SnapshotOf, CheckpointState
    <3> QED
      BY <1>1, <1>3, <1>6, <2>6, <3>1 DEF FaultCheckpointInv
  <2> QED
    BY <2>2, <2>3, <2>4, <2>5 DEF FaultSessionInv
<1> QED
  BY <1>5, <1>6

(* An update dropped, or the last checkpoints written, some or all.        *)
LEMMA CheckpointEndsFault ==
  ASSUME FaultInv, CheckpointUpdateDropped \/ CheckpointShutdown, NEW t \in Session
  PROVE  FaultSessionInv(t)'
<1>1. /\ TypeOK /\ FaultSessionInv(t)
      /\ FaultDiskInv(t) /\ FaultLiveInv(t) /\ FaultQueueInv(t) /\ FaultCheckpointInv(t)
      /\ checkpoint[t] \in CheckpointState
      /\ checkpointQueue \in Seq(WorkerCommands) /\ checkpointQueue # <<>>
  BY DEF FaultInv, FaultSessionInv, TypeOK, CheckpointUpdateDropped, CheckpointShutdown,
         NextUpdate
<1>2. CASE CheckpointUpdateDropped
  <2>1. /\ checkpointQueue' = Tail(checkpointQueue)
        /\ UNCHANGED <<phase, loaded, next, live, logAlive, logQueue, checkpointAlive,
                       known, checkpoint, log, snapshot>>
    BY <1>2 DEF CheckpointUpdateDropped, daemonVars, logVars, diskVars
  <2>2. Carried(checkpointQueue', t) \subseteq Carried(checkpointQueue, t)
    BY <1>1, <2>1, TakeFromQueue
  <2> QED
    BY <1>1, <2>1, <2>2, SessionKept
<1>3. CASE CheckpointShutdown
  <2>1. /\ checkpointAlive /\ checkpointAlive' = FALSE /\ checkpointQueue' = <<>>
        /\ UNCHANGED <<phase, loaded, next, live, logAlive, logQueue, known,
                       checkpoint, log>>
        /\ \/ snapshot'[t] = snapshot[t]
           \/ t \in known /\ snapshot'[t] = SnapshotOf(checkpoint[t])
    BY <1>3 DEF CheckpointShutdown, daemonVars, logVars
  <2>2. Carried(checkpointQueue', t) = {}
    BY <2>1, NothingQueued
  <2>3. CASE snapshot'[t] = snapshot[t]
    BY <1>1, <2>1, <2>2, <2>3, SessionKept
  <2>4. CASE t \in known /\ snapshot'[t] = SnapshotOf(checkpoint[t])
    <3>1. /\ t \in loaded /\ Readable(log[t])
          /\ checkpoint[t].state \subseteq live[t]
          /\ \A d \in checkpoint[t].state : d.ix <= checkpoint[t].applied
          /\ snapshot[t].last <= checkpoint[t].applied
      BY <1>1, <2>1, <2>4 DEF FaultCheckpointInv
    <3>2. FaultDiskInv(t)' /\ Durable(t)' \subseteq live[t]
      BY <1>1, <2>1, <2>4, <3>1, SnapshotOfLive
    <3>3. FaultLiveInv(t)'
      BY <1>1, <2>1, <3>2 DEF FaultLiveInv
    <3>4. FaultQueueInv(t)' /\ FaultCheckpointInv(t)'
      BY <1>1, <2>1, <2>2 DEF FaultQueueInv, FaultCheckpointInv
    <3> QED
      BY <3>2, <3>3, <3>4 DEF FaultSessionInv
  <2> QED
    BY <2>1, <2>3, <2>4
<1> QED
  BY <1>2, <1>3

(* Dropping the runtime writes no event, and compacts readable logs only.  *)
LEMMA DropFault ==
  ASSUME FaultInv, Drop, NEW t \in Session
  PROVE  FaultSessionInv(t)'
<1>1. /\ TypeOK /\ FaultSessionInv(t) /\ log[t] \in LogFile
      /\ t \in known => Readable(log[t])
      /\ (t \in known \/ Carried(checkpointQueue, t) # {}) /\ logAlive
           => log[t].tail = "closed"
      /\ checkpointQueue \in Seq(WorkerCommands)
  BY DEF FaultInv, FaultSessionInv, FaultQueueInv, FaultCheckpointInv, TypeOK
<1>2. /\ phase' # "serving"
      /\ UNCHANGED <<loaded, next, live, logAlive, logQueue, checkpointAlive, known,
                     checkpoint, snapshot>>
  BY DEF Drop, DropJoinLog, DropJoinMaterializer, DropJoinCheckpoint, logVars,
         checkpointVars, diskVars
<1>3. /\ log'[t].lines \subseteq log[t].lines
      /\ Readable(log'[t]) <=> Readable(log[t])
      /\ log[t].tail = "closed" => log'[t].tail = "closed"
  <2>1. CASE DropJoinCheckpoint
    <3>1. \/ log'[t] = log[t]
          \/ /\ Readable(log[t])
             /\ log'[t] = CompactUpTo(log[t], SaturatingSub(snapshot[t].last, RetentionTail))
      BY <2>1 DEF DropJoinCheckpoint
    <3> QED
      BY <1>1, <3>1, LinesTakenAway
  <2>2. CASE log' = log
    BY <2>2
  <2> QED
    BY <2>1, <2>2 DEF Drop, DropJoinLog, DropJoinMaterializer, diskVars
<1>4. Carried(checkpointQueue', t) = Carried(checkpointQueue, t)
  <2>1. CASE checkpointQueue' = checkpointQueue
    BY <2>1
  <2>2. CASE checkpointQueue' = Append(checkpointQueue, Shutdown)
    BY <1>1, <2>2, CommandTypes, AddToQueue DEF Shutdown
  <2> QED
    BY <2>1, <2>2 DEF Drop, DropJoinLog, DropJoinMaterializer, DropJoinCheckpoint,
                     checkpointVars
<1> QED
  BY <1>1, <1>2, <1>3, <1>4, LinesKept

(* Nothing has been written, loaded or queued yet. *)
LEMMA InitFault == Init => FaultInv
<1> SUFFICES ASSUME Init PROVE FaultInv
  OBVIOUS
<1>1. TypeOK
  BY InitTypeOK
<1>2. ASSUME NEW s \in Session
      PROVE  FaultSessionInv(s)
  <2>1. /\ log[s] = EmptyLog /\ snapshot[s] = NoSnapshot /\ loaded = {} /\ known = {}
        /\ Carried(logQueue, s) = {} /\ Compactions(logQueue, s) = {}
        /\ Carried(checkpointQueue, s) = {}
    BY NothingQueued DEF Init
  <2>2. snapshot[s].state = {} /\ log[s].lines = {}
    BY <2>1 DEF EmptyLog, NoSnapshot
  <2>3. FaultDiskInv(s)
    BY <2>2 DEF FaultDiskInv, Conflicting
  <2> QED
    BY <2>1, <2>3 DEF FaultSessionInv, FaultLiveInv, FaultQueueInv, FaultCheckpointInv
<1> QED
  BY <1>1, <1>2 DEF FaultInv

(* Every step keeps it, failed or not.                                     *)
LEMMA NextFault == FaultInv /\ [Next]_vars => FaultInv'
<1> SUFFICES ASSUME FaultInv, [Next]_vars
             PROVE  FaultInv'
  OBVIOUS
<1>1. TypeOK'
  BY NextTypeOK DEF FaultInv
<1>2. ASSUME NEW t \in Session
      PROVE  FaultSessionInv(t)'
  <2>1. CASE UNCHANGED vars \/ Materializer
    <3>1. UNCHANGED <<phase, loaded, next, live, logAlive, logQueue, checkpointAlive,
                      checkpointQueue, known, checkpoint, log, snapshot>>
      BY <2>1 DEF vars, daemonVars, logVars, checkpointVars, diskVars, Materializer,
                  Materialize, MaterializerShutdown
    <3>2. TypeOK /\ FaultSessionInv(t)
      BY DEF FaultInv
    <3> QED
      BY <3>1, <3>2, SessionKept
  <2>2. CASE Start \/ Kill \/ LosePower
    BY <2>2, LifeFault
  <2>3. CASE \E s \in Session : Request(s)
    BY <2>3, RequestFault
  <2>4. CASE LogWorker
    BY <2>4, LogAppendFault, LogAppendFailsFault, LogCompactFault DEF LogWorker
  <2>5. CASE CheckpointWorker
    BY <2>5, CheckpointUpdateFault, CheckpointEndsFault DEF CheckpointWorker
  <2>6. CASE Drop
    BY <2>6, DropFault
  <2> QED
    BY <2>1, <2>2, <2>3, <2>4, <2>5, <2>6 DEF Next
<1> QED
  BY <1>1, <1>2 DEF FaultInv

(* Whatever fails, the database included: what the disk, the daemon's      *)
(* memory and the queues hold of a session are parts of one numbering.     *)
THEOREM FaultCorrect == Spec => []FaultInv
BY InitFault, NextFault, PTL DEF Spec

(* Whatever fails, the log worker is never asked to compact a log it could *)
(* not read: one corrupt session cannot stop the worker that all sessions  *)
(* share.                                                                  *)
THEOREM OnlyReadableLogsCompactedHolds == Spec => []OnlyReadableLogsCompacted
<1>1. FaultInv => OnlyReadableLogsCompacted
  BY DEF FaultInv, FaultSessionInv, FaultQueueInv, FaultCheckpointInv,
         OnlyReadableLogsCompacted
<1> QED
  BY <1>1, FaultCorrect, PTL

(* Whatever fails, no reader of a log ever finds two events with one       *)
(* event_index in it and the snapshot together, nor an event the daemon    *)
(* serving the session does not hold: a restarted daemon numbers its       *)
(* events after every one that survived.                                   *)
THEOREM RestoreFollowsLiveHolds == Spec => []RestoreFollowsLive
<1>1. FaultInv => RestoreFollowsLive
  <2> SUFFICES ASSUME FaultInv, NEW s \in Session, Readable(log[s])
               PROVE  /\ ~Conflicting(Durable(s) \union log[s].lines)
                      /\ s \in loaded => Durable(s) \subseteq live[s]
    BY DEF RestoreFollowsLive
  <2>1. FaultDiskInv(s) /\ FaultLiveInv(s)
    BY DEF FaultInv, FaultSessionInv
  <2>2. ~Conflicting(snapshot[s].state \union log[s].lines)
    BY <2>1 DEF FaultDiskInv
  <2>3. Durable(s) \union log[s].lines \subseteq snapshot[s].state \union log[s].lines
    BY DEF Durable, RestoredState, EventsAfter
  <2> QED
    BY <2>1, <2>2, <2>3, ConflictsOfFewer DEF FaultLiveInv
<1> QED
  BY <1>1, FaultCorrect, PTL
=============================================================================
