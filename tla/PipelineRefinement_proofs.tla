---------------------- MODULE PipelineRefinement_proofs ----------------------
(***************************************************************************)
(* The pipeline implements the durable history of its sessions, and what   *)
(* rests on it: a database that does not fail, no append left half done    *)
(* and no lost power.  Log writes may fail, and daemons be killed.  Where  *)
(* log writes do not fail either, dropping the runtime loses nothing.      *)
(***************************************************************************)
EXTENDS PipelineInvariance_proofs

(* The log ends with a newline, can be read, and holds the last            *)
(* RetentionTail events before the snapshot.                               *)
CleanFile(file, snap) ==
  /\ Readable(file) /\ file.tail = "closed"
  /\ \A e \in RestoredState(file, snap) :
       e.ix + RetentionTail > snap.last => e \in file.lines

(* A compaction through n leaves that tail.                                *)
Spares(n, snap) == n = 0 \/ n + RetentionTail <= snap.last

CleanSession(s) ==
  /\ CleanFile(log[s], snapshot[s])
  /\ s \in loaded => Durable(s) \subseteq Sent(s)
  /\ Carried(materializerQueue, s) \subseteq Durable(s)
  /\ rows[s] \subseteq Durable(s)
  /\ \A n \in Compactions(logQueue, s) : Spares(n, snapshot[s])

CleanInv == \A s \in Session : CleanSession(s)

Clean == ~DatabaseFails /\ ~TornWrites /\ ~PowerLoss

-----------------------------------------------------------------------------
(* Files.                                                                  *)

(* Syncing changes nothing a reader sees.                                  *)
LEMMA SyncClean ==
  ASSUME NEW file \in LogFile, NEW snap \in Snapshot, CleanFile(file, snap)
  PROVE  /\ CleanFile(Synced(file), snap)
         /\ RestoredState(Synced(file), snap) = RestoredState(file, snap)
BY DEF CleanFile, Synced, RestoredState, EventsAfter, Readable, LogFile

(* An append to a clean file adds its event, whether it is synced or not.  *)
LEMMA AppendClean ==
  ASSUME NEW file \in LogFile, NEW snap \in Snapshot, NEW e \in Event, e.ix > snap.last,
         CleanFile(file, snap)
  PROVE  LET written == WriteRecord(file, e, "done")
         IN  /\ written \in LogFile
             /\ CleanFile(written, snap)
             /\ RestoredState(written, snap) = RestoredState(file, snap) \union {e}
<1> DEFINE written == WriteRecord(file, e, "done")
<1>1. /\ written.lines = file.lines \union {e} /\ written.tail = "closed"
      /\ written.junk = file.junk
  BY DEF CleanFile, WriteRecord, LogFile
<1>2. written \in LogFile
  BY FileTypes
<1> HIDE DEF written
<1>3. RestoredState(written, snap) = RestoredState(file, snap) \union {e}
  BY <1>1 DEF RestoredState, EventsAfter
<1>4. CleanFile(written, snap)
  BY <1>1, <1>3 DEF CleanFile, Readable
<1> QED
  BY <1>2, <1>3, <1>4 DEF written

(* A compaction the snapshot covers, and that spares the tail, changes     *)
(* nothing a restart finds.                                                *)
LEMMA CompactClean ==
  ASSUME NEW file \in LogFile, NEW snap \in Snapshot, NEW through \in Nat,
         through <= snap.last, Spares(through, snap),
         Recoverable(file, snap), CleanFile(file, snap)
  PROVE  /\ CompactUpTo(file, through) \in LogFile
         /\ CleanFile(CompactUpTo(file, through), snap)
         /\ RestoredState(CompactUpTo(file, through), snap) = RestoredState(file, snap)
<1>1. /\ RestoredState(CompactUpTo(file, through), snap) = RestoredState(file, snap)
      /\ Readable(CompactUpTo(file, through))
      /\ CompactUpTo(file, through).tail = "closed"
  BY CompactionKeeps DEF CleanFile
<1>2. CompactUpTo(file, through) \in LogFile
  BY FileTypes
<1>3. ASSUME NEW e \in RestoredState(file, snap), e.ix + RetentionTail > snap.last
      PROVE  e \in CompactUpTo(file, through).lines
  <2>1. e \in file.lines /\ e.ix \in Nat /\ snap.last \in Nat
    BY <1>3, FileTypes DEF CleanFile, Event, Snapshot
  <2>2. CASE through = 0
    BY <2>1, <2>2 DEF CompactUpTo
  <2>3. CASE through # 0
    <3>1. e.ix > through
      BY <1>3, <2>1, <2>3, IntervalAssumption DEF Spares
    <3> QED
      BY <2>1, <2>3, <3>1 DEF CompactUpTo, EventsAfter
  <2> QED
    BY <2>2, <2>3
<1> QED
  BY <1>1, <1>2, <1>3 DEF CleanFile

(* A newer snapshot of what is durable changes nothing a restart finds.    *)
LEMMA SnapshotClean ==
  ASSUME NEW file \in LogFile, NEW snap \in Snapshot,
         NEW state \in SUBSET Event, NEW last \in Nat,
         Recoverable(file, snap), CleanFile(file, snap),
         WholeUpTo(state, last), state \subseteq RestoredState(file, snap),
         snap.last <= last
  PROVE  LET newer == [last |-> last, state |-> state]
         IN  /\ CleanFile(file, newer)
             /\ RestoredState(file, newer) = RestoredState(file, snap)
             /\ \A n \in Nat : Spares(n, snap) => Spares(n, newer)
<1> DEFINE newer == [last |-> last, state |-> state]
<1>1. /\ RestoredState(file, newer) = RestoredState(file, snap)
      /\ newer.last = last /\ snap.last \in Nat
      /\ RestoredState(file, snap) \in SUBSET Event
  BY SnapshotKeeps, FileTypes DEF CleanFile, Snapshot
<1> HIDE DEF newer
<1>2. \A e \in RestoredState(file, snap) :
        e.ix + RetentionTail > last => e.ix + RetentionTail > snap.last
  BY <1>1, IntervalAssumption DEF Event
<1>3. CleanFile(file, newer)
  BY <1>1, <1>2 DEF CleanFile
<1>4. \A n \in Nat : Spares(n, snap) => Spares(n, newer)
  BY <1>1, IntervalAssumption DEF Spares
<1> QED
  BY <1>1, <1>3, <1>4 DEF newer

-----------------------------------------------------------------------------
(* Steps.                                                                  *)

(* What the invariants say of a session.                                   *)
LEMMA CleanTypes ==
  ASSUME PipelineInv, CleanInv, NEW t \in Session
  PROVE  /\ log \in [Session -> LogFile]
         /\ log[t] \in LogFile /\ snapshot[t] \in Snapshot
         /\ Recoverable(log[t], snapshot[t]) /\ CleanFile(log[t], snapshot[t])
         /\ Durable(t) = RestoredState(log[t], snapshot[t])
         /\ Durable(t) \in SUBSET Event
         /\ CleanSession(t)
         /\ \A n \in Compactions(logQueue, t) : n \in Nat /\ n <= snapshot[t].last
<1>1. \A n \in Compactions(logQueue, t) : n \in Nat
  <2>1. \A i \in DOMAIN logQueue : logQueue[i] \in LogCommands
    BY DEF PipelineInv, TypeOK
  <2> QED
    BY <2>1, CommandTypes DEF Compactions, CompactCommands
<1> QED
  BY <1>1, SessionTypes
  DEF PipelineInv, TypeOK, CleanInv, CleanSession, SessionInv, DiskInv, LogQueueInv, Durable

(* A session stays clean through a step that leaves what a restart would   *)
(* find as it is and asks for no compaction.                               *)
LEMMA QuietKept ==
  ASSUME PipelineInv, CleanInv, NEW t \in Session,
         CleanFile(log'[t], snapshot[t]),
         RestoredState(log'[t], snapshot[t]) = RestoredState(log[t], snapshot[t]),
         snapshot'[t] = snapshot[t],
         t \in loaded' => t \in loaded,
         next'[t] = next[t], live'[t] = live[t],
         Carried(materializerQueue', t) \subseteq Carried(materializerQueue, t),
         rows'[t] \subseteq Durable(t),
         Compactions(logQueue', t) \subseteq Compactions(logQueue, t)
  PROVE  CleanSession(t)' /\ Durable(t)' = Durable(t)
<1>1. CleanSession(t)
  BY DEF CleanInv
<1>2. Durable(t)' = Durable(t)
  BY DEF Durable
<1>3. Sent(t)' = Sent(t)
  BY DEF Sent
<1> QED
  BY <1>1, <1>2, <1>3 DEF CleanSession

(* sync_all leaves files clean and changes nothing a restart finds.        *)
LEMMA SyncAllClean ==
  ASSUME NEW files \in [Session -> LogFile], NEW t \in Session, snapshot[t] \in Snapshot,
         SyncAll(files), CleanFile(files[t], snapshot[t])
  PROVE  /\ CleanFile(log'[t], snapshot[t])
         /\ RestoredState(log'[t], snapshot[t]) = RestoredState(files[t], snapshot[t])
<1>1. log'[t] \in {files[t], Synced(files[t])}
  BY DEF SyncAll
<1>2. files[t] \in LogFile
  OBVIOUS
<1> QED
  BY <1>1, <1>2, SyncClean

(* A kill or a start loses what is in memory only.                         *)
LEMMA LifeClean ==
  ASSUME PipelineInv, CleanInv, Clean, Start \/ Kill \/ LosePower, NEW t \in Session
  PROVE  CleanSession(t)' /\ Durable(t)' = Durable(t) /\ loaded' = {}
<1>1. /\ UNCHANGED <<log, snapshot, rows>>
      /\ loaded' = {} /\ materializerQueue' = <<>> /\ logQueue' = <<>>
  BY DEF Clean, Start, Kill, LosePower, Reset, diskVars
<1>2. /\ Carried(materializerQueue', t) = {} /\ Compactions(logQueue', t) = {}
  BY <1>1, NothingQueued
<1>3. Durable(t)' = Durable(t)
  BY <1>1 DEF Durable
<1> QED
  BY <1>1, <1>2, <1>3 DEF CleanInv, CleanSession

(* The next event of the log, appended: it is durable now.                 *)
LEMMA AppendedClean ==
  ASSUME PipelineInv, CleanInv, NextLogCommand("event"), NEW t \in Session
  PROVE  LET s == Head(logQueue).session
             e == Head(logQueue).event
             written == [log EXCEPT ![s] = WriteRecord(@, e, "done")]
         IN  /\ written \in [Session -> LogFile]
             /\ CleanFile(written[t], snapshot[t])
             /\ RestoredState(written[t], snapshot[t]) =
                  Durable(t) \union (IF t = s THEN {e} ELSE {})
<1> DEFINE s == Head(logQueue).session
           e == Head(logQueue).event
           written == [log EXCEPT ![s] = WriteRecord(@, e, "done")]
<1>1. s \in Session /\ e \in Event
  BY TakeEvent
<1>2. /\ log \in [Session -> LogFile] /\ log[s] \in LogFile /\ snapshot[s] \in Snapshot
      /\ CleanFile(log[s], snapshot[s])
      /\ CleanFile(log[t], snapshot[t])
      /\ Durable(t) = RestoredState(log[t], snapshot[t])
      /\ Durable(s) = RestoredState(log[s], snapshot[s])
  BY <1>1, CleanTypes
<1>3. e.ix > snapshot[s].last
  <2>1. Readable(log[s])
    BY <1>2 DEF CleanFile
  <2>2. PICK n \in 0..MaxIndex : WholeUpTo(Durable(s), n) /\ e.ix = n + 1
    BY <2>1, FirstQueued
  <2>3. snapshot[s].last <= n /\ snapshot[s].last \in Nat
    <3>1. WholeUpTo(snapshot[s].state, snapshot[s].last)
      BY <1>1 DEF PipelineInv, SessionInv, DiskInv, Recoverable
    <3> QED
      BY <1>2, <2>2, <3>1, n \in Nat, RestoredLength DEF Snapshot
  <2> QED
    BY <2>2, <2>3
<1> HIDE DEF s, e
<1>4. LET w == WriteRecord(log[s], e, "done")
      IN  /\ w \in LogFile
          /\ CleanFile(w, snapshot[s])
          /\ RestoredState(w, snapshot[s]) = Durable(s) \union {e}
  BY <1>1, <1>2, <1>3, AppendClean
<1>5. /\ written \in [Session -> LogFile]
      /\ CleanFile(written[t], snapshot[t])
      /\ RestoredState(written[t], snapshot[t]) =
           Durable(t) \union (IF t = s THEN {e} ELSE {})
  <2>1. CASE t = s
    BY <1>1, <1>2, <1>4, <2>1
  <2>2. CASE t # s
    <3>1. written[t] = log[t]
      BY <1>2, <2>2
    <3>2. written \in [Session -> LogFile]
      BY <1>1, <1>2, <1>4
    <3> QED
      BY <1>2, <2>2, <3>1, <3>2
  <2> QED
    BY <2>1, <2>2
<1> QED
  BY <1>5 DEF s, e

(* An append makes the next event durable, or, if it fails, perhaps.       *)
Persists(s, e) ==
  /\ s \in loaded /\ e \in Sent(s) /\ e \notin Durable(s)
  /\ \A f \in Sent(s) \ Durable(s) : e.ix <= f.ix
  /\ \A t \in Session : Durable(t)' = Durable(t) \union (IF t = s THEN {e} ELSE {})
  /\ UNCHANGED <<loaded, live, next>>

(* The head of the log worker's queue is the oldest event that is not      *)
(* durable.                                                                *)
LEMMA HeadIsOldest ==
  ASSUME PipelineInv, CleanInv, NextLogCommand("event")
  PROVE  LET s == Head(logQueue).session
             e == Head(logQueue).event
         IN  /\ s \in Session /\ s \in loaded /\ e \in Sent(s) /\ e \notin Durable(s)
             /\ \A f \in Sent(s) \ Durable(s) : e.ix <= f.ix
<1> DEFINE s == Head(logQueue).session
           e == Head(logQueue).event
<1>1. /\ s \in Session /\ e \in Event /\ s \in loaded /\ e \in Sent(s) /\ logAlive
      /\ Carried(logQueue, s) = Carried(Tail(logQueue), s) \union {e}
      /\ \A f \in Carried(Tail(logQueue), s) : e.ix < f.ix
  BY TakeEvent
<1> HIDE DEF s, e
<1>2. Readable(log[s]) /\ LogQueueInv(s) /\ Sent(s) \in SUBSET Event
      /\ Durable(s) \in SUBSET Event
  BY <1>1, SessionTypes DEF CleanInv, CleanSession, CleanFile, PipelineInv, SessionInv, Sent
<1>3. /\ \A d \in Durable(s), f \in Carried(logQueue, s) : d.ix < f.ix
      /\ Sent(s) \ Durable(s) \subseteq Carried(logQueue, s)
  BY <1>1, <1>2 DEF LogQueueInv
<1>4. e \notin Durable(s)
  <2>1. e \in Durable(s) => e.ix < e.ix
    BY <1>1, <1>3
  <2> QED
    BY <1>1, <2>1 DEF Event
<1>5. ASSUME NEW f \in Sent(s) \ Durable(s)
      PROVE  e.ix <= f.ix
  BY <1>1, <1>2, <1>3 DEF Event
<1> QED
  BY <1>1, <1>4, <1>5 DEF s, e

(* What an append that is carried out leaves.                              *)
LEMMA PersistsClean ==
  ASSUME PipelineInv, CleanInv, NextLogCommand("event"), NEW t \in Session,
         \A u \in Session :
           /\ CleanFile(log'[u], snapshot[u])
           /\ RestoredState(log'[u], snapshot[u]) =
                Durable(u) \union (IF u = Head(logQueue).session THEN {Head(logQueue).event}
                                                                 ELSE {}),
         UNCHANGED <<loaded, next, live, snapshot, rows>>,
         Carried(materializerQueue', t) \subseteq
           Carried(materializerQueue, t)
             \union (IF t = Head(logQueue).session THEN {Head(logQueue).event} ELSE {}),
         Compactions(logQueue', t) \subseteq Compactions(logQueue, t)
  PROVE  CleanSession(t)' /\ Persists(Head(logQueue).session, Head(logQueue).event)
<1> DEFINE s == Head(logQueue).session
           e == Head(logQueue).event
<1>1. /\ s \in Session /\ s \in loaded /\ e \in Sent(s) /\ e \notin Durable(s)
      /\ \A f \in Sent(s) \ Durable(s) : e.ix <= f.ix
  BY HeadIsOldest
<1> HIDE DEF s, e
<1>2. ASSUME NEW u \in Session
      PROVE  Durable(u)' = Durable(u) \union (IF u = s THEN {e} ELSE {})
  BY DEF Durable, s, e
<1>3. Persists(s, e)
  BY <1>1, <1>2 DEF Persists
<1>4. CleanSession(t) /\ Sent(t)' = Sent(t) /\ CleanFile(log'[t], snapshot'[t])
  BY DEF CleanInv, Sent
<1>5. /\ t \in loaded' => Durable(t)' \subseteq Sent(t)'
      /\ Carried(materializerQueue', t) \subseteq Durable(t)'
      /\ rows'[t] \subseteq Durable(t)'
  BY <1>1, <1>2, <1>4 DEF CleanSession, s, e
<1>6. CleanSession(t)'
  BY <1>4, <1>5 DEF CleanSession
<1> QED
  BY <1>3, <1>6 DEF s, e

LEMMA LogAppendClean ==
  ASSUME PipelineInv, CleanInv, LogAppend, NEW t \in Session
  PROVE  CleanSession(t)' /\ Persists(Head(logQueue).session, Head(logQueue).event)
<1> DEFINE s == Head(logQueue).session
           e == Head(logQueue).event
           written == [log EXCEPT ![s] = WriteRecord(@, e, "done")]
<1>1. /\ NextLogCommand("event") /\ s \in Session /\ e \in Event
      /\ logQueue \in Seq(LogCommands) /\ logQueue # <<>> /\ logQueue' = Tail(logQueue)
      /\ Head(logQueue) \in WorkerCommands /\ Head(logQueue).op = "event"
      /\ Compactions(logQueue', t) \subseteq Compactions(logQueue, t)
      /\ UNCHANGED <<loaded, next, live, snapshot, rows>>
  BY TakeEvent DEF LogAppend, daemonVars
<1>2. ASSUME NEW u \in Session
      PROVE  /\ CleanFile(log'[u], snapshot[u])
             /\ RestoredState(log'[u], snapshot[u]) =
                  Durable(u) \union (IF u = s THEN {e} ELSE {})
  <2>1. /\ written \in [Session -> LogFile]
        /\ CleanFile(written[u], snapshot[u])
        /\ RestoredState(written[u], snapshot[u]) =
             Durable(u) \union (IF u = s THEN {e} ELSE {})
    BY <1>1, AppendedClean
  <2>2. log'[u] \in {written[u], Synced(written[u])}
    <3>1. log \in [Session -> LogFile]
      BY CleanTypes
    <3>2. \E sync \in BOOLEAN :
            log' = [log EXCEPT ![s] = IF sync THEN Synced(WriteRecord(log[s], e, "done"))
                                              ELSE WriteRecord(log[s], e, "done")]
      BY DEF LogAppend
    <3> QED
      BY <1>1, <3>1, <3>2
  <2>3. written[u] \in LogFile /\ snapshot[u] \in Snapshot
    BY <2>1, CleanTypes
  <2> HIDE DEF written
  <2> QED
    BY <2>1, <2>2, <2>3, SyncClean
<1>3. Carried(materializerQueue', t) \subseteq
        Carried(materializerQueue, t) \union (IF t = s THEN {e} ELSE {})
  <2>1. materializerQueue' \in {materializerQueue, Append(materializerQueue, Head(logQueue))}
        /\ materializerQueue \in Seq(WorkerCommands)
    BY DEF LogAppend, PipelineInv, TypeOK
  <2>2. Head(logQueue) \in WorkerCommands /\ Head(logQueue).op = "event"
    BY <1>1
  <2> DEFINE c == Head(logQueue)
             longer == Append(materializerQueue, c)
  <2> HIDE DEF s, e
  <2>3. c \in WorkerCommands /\ c.op = "event" /\ materializerQueue \in Seq(WorkerCommands)
    BY <2>1, <2>2
  <2>4. /\ c.session = t => Carried(longer, t) = Carried(materializerQueue, t) \union {c.event}
        /\ c.session # t => Carried(longer, t) = Carried(materializerQueue, t)
    <3> HIDE DEF c
    <3> QED
      BY <2>3, AddToQueue
  <2> QED
    BY <2>1, <2>4 DEF s, e
<1> HIDE DEF written
<1> QED
  BY <1>1, <1>2, <1>3, PersistsClean

LEMMA LogAppendFailsClean ==
  ASSUME PipelineInv, CleanInv, Clean, LogAppendFails, NEW t \in Session
  PROVE  /\ CleanSession(t)'
         /\ \/ \A u \in Session : Durable(u)' = Durable(u)
            \/ \E s \in Session : \E e \in Event : Persists(s, e)
         /\ UNCHANGED <<loaded, next, live>>
<1> DEFINE s == Head(logQueue).session
           e == Head(logQueue).event
           written == [log EXCEPT ![s] = WriteRecord(@, e, "done")]
<1>1. /\ NextLogCommand("event") /\ s \in Session /\ e \in Event
      /\ logQueue' = <<>>
      /\ UNCHANGED <<loaded, next, live, snapshot, rows, materializerQueue>>
      /\ SyncAll(log) \/ SyncAll(written)
  BY TakeEvent DEF LogAppendFails, LogWorkerExits, daemonVars, materializerVars, Clean
<1>2. Compactions(logQueue', t) = {}
  BY <1>1, NothingQueued
<1>3. CASE SyncAll(log)
  <2>1. ASSUME NEW u \in Session
        PROVE  /\ CleanFile(log'[u], snapshot[u])
               /\ RestoredState(log'[u], snapshot[u]) = RestoredState(log[u], snapshot[u])
    BY <1>3, CleanTypes, SyncAllClean
  <2>2. CleanSession(t)
    BY DEF CleanInv
  <2>3. CleanSession(t)' /\ Durable(t)' = Durable(t)
    BY <1>1, <1>2, <2>1, <2>2, QuietKept DEF CleanSession
  <2> QED
    BY <1>1, <2>1, <2>3 DEF Durable
<1>4. CASE SyncAll(written)
  <2>1. ASSUME NEW u \in Session
        PROVE  /\ CleanFile(log'[u], snapshot[u])
               /\ RestoredState(log'[u], snapshot[u]) =
                    Durable(u) \union (IF u = s THEN {e} ELSE {})
    <3>1. /\ written \in [Session -> LogFile]
          /\ CleanFile(written[u], snapshot[u])
          /\ RestoredState(written[u], snapshot[u]) =
               Durable(u) \union (IF u = s THEN {e} ELSE {})
      BY <1>1, AppendedClean
    <3> HIDE DEF written
    <3> QED
      BY <1>4, <3>1, CleanTypes, SyncAllClean
  <2> HIDE DEF written
  <2> QED
    BY <1>1, <1>2, <2>1, PersistsClean
<1> QED
  BY <1>1, <1>3, <1>4

(* The other steps of the log worker change nothing a restart finds.       *)
LEMMA LogQuietClean ==
  ASSUME PipelineInv, CleanInv, LogCompact \/ LogCompactFails \/ LogShutdown,
         NEW t \in Session
  PROVE  /\ CleanSession(t)' /\ Durable(t)' = Durable(t)
         /\ UNCHANGED <<loaded, next, live>>
<1> DEFINE s == Head(logQueue).session
           through == Head(logQueue).through
           compacted == [log EXCEPT ![s] = CompactUpTo(@, through)]
<1>1. /\ UNCHANGED <<loaded, next, live, snapshot, rows, materializerQueue>>
      /\ logQueue # <<>> /\ logQueue \in Seq(LogCommands)
      /\ logQueue' \in {Tail(logQueue), <<>>}
  BY DEF LogCompact, LogCompactFails, LogShutdown, NextLogCommand, LogWorkerExits,
         daemonVars, materializerVars, PipelineInv, TypeOK
<1>2. Compactions(logQueue', t) \subseteq Compactions(logQueue, t)
  BY <1>1, NothingQueued, TakeFromQueue
<1>3. /\ CleanFile(log[t], snapshot[t]) /\ log \in [Session -> LogFile]
      /\ rows[t] \subseteq Durable(t) /\ snapshot[t] \in Snapshot
  BY CleanTypes DEF CleanSession
<1>4. ASSUME Head(logQueue).op = "compact"
      PROVE  /\ compacted \in [Session -> LogFile]
             /\ CleanFile(compacted[t], snapshot[t])
             /\ RestoredState(compacted[t], snapshot[t]) = RestoredState(log[t], snapshot[t])
  <2>1. s \in Session /\ through \in Nat
    BY <1>1, <1>4, QueueTypes, CommandTypes DEF CompactCommands
  <2>2. through \in Compactions(logQueue, s)
    BY <1>1, <1>4, TakeFromQueue
  <2> HIDE DEF s, through
  <2>3. /\ log[s] \in LogFile /\ snapshot[s] \in Snapshot
        /\ Recoverable(log[s], snapshot[s]) /\ CleanFile(log[s], snapshot[s])
        /\ through <= snapshot[s].last /\ Spares(through, snapshot[s])
    BY <2>1, <2>2, CleanTypes DEF CleanSession
  <2>4. /\ CompactUpTo(log[s], through) \in LogFile
        /\ CleanFile(CompactUpTo(log[s], through), snapshot[s])
        /\ RestoredState(CompactUpTo(log[s], through), snapshot[s])
             = RestoredState(log[s], snapshot[s])
    BY <2>1, <2>3, CompactClean
  <2>5. compacted[t] = IF t = s THEN CompactUpTo(log[s], through) ELSE log[t]
    BY <1>3, <2>1
  <2> QED
    BY <1>3, <2>1, <2>4, <2>5
<1>5. \/ SyncAll(log)
      \/ log' = log
      \/ Head(logQueue).op = "compact" /\ (log' = compacted \/ SyncAll(compacted))
  BY DEF LogCompact, LogCompactFails, LogShutdown, NextLogCommand
<1> HIDE DEF compacted
<1>6. /\ CleanFile(log'[t], snapshot[t])
      /\ RestoredState(log'[t], snapshot[t]) = RestoredState(log[t], snapshot[t])
  BY <1>3, <1>4, <1>5, SyncAllClean
<1> QED
  BY <1>1, <1>2, <1>3, <1>6, QuietKept

(* So do those of the materializer, which writes down what is durable.     *)
LEMMA MaterializerClean ==
  ASSUME PipelineInv, CleanInv, Materializer, NEW t \in Session
  PROVE  /\ CleanSession(t)' /\ Durable(t)' = Durable(t)
         /\ UNCHANGED <<loaded, next, live>>
<1> DEFINE s == Head(materializerQueue).session
           e == Head(materializerQueue).event
<1>1. /\ UNCHANGED <<loaded, next, live, log, snapshot, logQueue>>
      /\ materializerQueue # <<>> /\ materializerQueue \in Seq(WorkerCommands)
      /\ materializerQueue' \in {Tail(materializerQueue), <<>>}
      /\ CleanSession(t) /\ CleanFile(log[t], snapshot[t])
      /\ rows \in [Session -> SUBSET Event]
  BY DEF Materializer, Materialize, MaterializerShutdown, daemonVars, logVars, diskVars,
         PipelineInv, TypeOK, CleanInv, CleanSession
<1>2. Carried(materializerQueue', t) \subseteq Carried(materializerQueue, t)
  BY <1>1, NothingQueued, TakeFromQueue
<1>3. rows'[t] \subseteq Durable(t)
  <2>1. CASE rows' = rows
    BY <1>1, <2>1 DEF CleanSession
  <2>2. CASE /\ Head(materializerQueue).op = "event"
             /\ rows' = [rows EXCEPT ![s] = @ \union {e}]
    <3>1. t = s => e \in Carried(materializerQueue, t)
      BY <1>1, <2>2, TakeFromQueue
    <3> QED
      BY <1>1, <2>2, <3>1 DEF CleanSession
  <2> QED
    BY <2>1, <2>2 DEF Materializer, Materialize, MaterializerShutdown, diskVars
<1> QED
  BY <1>1, <1>2, <1>3, QuietKept

(* A checkpoint covers more, and the compaction it asks for spares the     *)
(* tail before it.                                                         *)
LEMMA CheckpointUpdateClean ==
  ASSUME PipelineInv, CleanInv, Clean, CheckpointUpdate, NEW t \in Session
  PROVE  /\ CleanSession(t)' /\ Durable(t)' = Durable(t)
         /\ UNCHANGED <<loaded, next, live>>
<1> DEFINE s == Head(checkpointQueue).session
           e == Head(checkpointQueue).event
           state == Updated(KnownCheckpoint(s), e)
           through == SaturatingSub(state.applied, RetentionTail)
<1>1. /\ s \in Session /\ state \in CheckpointState
      /\ WholeUpTo(state.state, state.applied)
      /\ state.state \subseteq Durable(s)
      /\ state.last = snapshot[s].last /\ state.last <= state.applied
  BY UpdatedIsPrefix DEF CheckpointUpdate
<1>2. /\ UNCHANGED <<loaded, next, live, log, rows, materializerQueue>>
      /\ \/ UNCHANGED <<snapshot, logQueue>>
         \/ /\ snapshot' = [snapshot EXCEPT ![s] = SnapshotOf(state)]
            /\ logQueue' \in {logQueue, Append(logQueue, CompactCommand(s, through))}
  BY DEF CheckpointUpdate, Clean, daemonVars, materializerVars
<1>3. /\ CleanSession(t) /\ CleanFile(log[t], snapshot[t]) /\ snapshot[t] \in Snapshot
      /\ log[t] \in LogFile /\ Recoverable(log[t], snapshot[t])
      /\ Durable(t) = RestoredState(log[t], snapshot[t])
      /\ \A n \in Compactions(logQueue, t) : n \in Nat /\ n <= snapshot[t].last
      /\ logQueue \in Seq(LogCommands) /\ snapshot \in [Session -> Snapshot]
      /\ rows[t] \subseteq Durable(t)
  BY CleanTypes DEF PipelineInv, TypeOK, CleanSession
<1>4. /\ through \in Nat
      /\ through = 0 \/ through + RetentionTail = state.applied
  BY <1>1, IntervalAssumption DEF SaturatingSub, CheckpointState
<1> HIDE DEF s, state, through
<1>5. Compactions(logQueue', t) \subseteq
        Compactions(logQueue, t) \union (IF t = s THEN {through} ELSE {})
  <2>1. Compactions(Append(logQueue, CompactCommand(s, through)), t) =
          Compactions(logQueue, t) \union (IF t = s THEN {through} ELSE {})
    BY <1>1, <1>3, <1>4, CompactQueue
  <2> QED
    BY <1>2, <2>1
<1>6. CASE UNCHANGED <<snapshot, logQueue>>
  BY <1>2, <1>3, <1>6, QuietKept
<1>7. CASE snapshot' = [snapshot EXCEPT ![s] = SnapshotOf(state)] /\ t # s
  <2>1. snapshot'[t] = snapshot[t]
    BY <1>7
  <2> QED
    BY <1>2, <1>3, <1>5, <1>7, <2>1, QuietKept
<1>8. CASE snapshot' = [snapshot EXCEPT ![s] = SnapshotOf(state)] /\ t = s
  <2>1. /\ snapshot'[t] = [last |-> state.applied, state |-> state.state]
        /\ state.applied \in Nat /\ state.state \in SUBSET Event
        /\ snapshot'[t].last = state.applied
        /\ WholeUpTo(state.state, state.applied)
        /\ state.state \subseteq RestoredState(log[t], snapshot[t])
        /\ snapshot[t].last <= state.applied
    BY <1>1, <1>3, <1>8 DEF SnapshotOf, CheckpointState
  <2>2. /\ CleanFile(log[t], snapshot'[t])
        /\ RestoredState(log[t], snapshot'[t]) = RestoredState(log[t], snapshot[t])
        /\ \A n \in Nat : Spares(n, snapshot[t]) => Spares(n, snapshot'[t])
    <3> DEFINE newer == [last |-> state.applied, state |-> state.state]
    <3>1. /\ CleanFile(log[t], newer)
          /\ RestoredState(log[t], newer) = RestoredState(log[t], snapshot[t])
          /\ \A n \in Nat : Spares(n, snapshot[t]) => Spares(n, newer)
      BY <1>3, <2>1, SnapshotClean
    <3> HIDE DEF newer
    <3> QED
      BY <2>1, <3>1 DEF newer
  <2>3. Spares(through, snapshot'[t])
    BY <1>4, <2>1 DEF Spares
  <2>4. \A n \in Compactions(logQueue', t) : Spares(n, snapshot'[t])
    BY <1>3, <1>5, <1>8, <2>2, <2>3 DEF CleanSession
  <2>5. Durable(t)' = Durable(t) /\ Sent(t)' = Sent(t)
    BY <1>2, <2>2 DEF Durable, Sent
  <2> QED
    BY <1>2, <1>3, <2>2, <2>4, <2>5 DEF CleanSession
<1> QED
  BY <1>2, <1>6, <1>7, <1>8

LEMMA CheckpointShutdownClean ==
  ASSUME PipelineInv, CleanInv, Clean, CheckpointShutdown, NEW t \in Session
  PROVE  /\ CleanSession(t)' /\ Durable(t)' = Durable(t)
         /\ UNCHANGED <<loaded, next, live>>
<1> DEFINE behind == {s \in known : checkpoint[s].applied > checkpoint[s].last}
<1>1. /\ checkpointAlive
      /\ snapshot' = [s \in Session |-> IF s \in behind
                                          THEN SnapshotOf(checkpoint[s])
                                          ELSE snapshot[s]]
      /\ UNCHANGED <<loaded, next, live, log, rows, logQueue, materializerQueue>>
  BY DEF CheckpointShutdown, daemonVars, logVars, materializerVars, Clean
<1>2. /\ CleanSession(t) /\ CleanFile(log[t], snapshot[t]) /\ snapshot[t] \in Snapshot
      /\ log[t] \in LogFile /\ Recoverable(log[t], snapshot[t])
      /\ Durable(t) = RestoredState(log[t], snapshot[t])
      /\ \A n \in Compactions(logQueue, t) : n \in Nat
      /\ checkpoint[t] \in CheckpointState /\ CheckpointInv(t)
      /\ rows[t] \subseteq Durable(t)
  BY CleanTypes DEF PipelineInv, TypeOK, CleanSession, SessionInv
<1>3. CASE t \notin behind
  <2>1. snapshot'[t] = snapshot[t]
    BY <1>1, <1>3
  <2> QED
    BY <1>1, <1>2, <2>1, QuietKept
<1>4. CASE t \in behind
  <2>1. /\ snapshot'[t] = [last |-> checkpoint[t].applied, state |-> checkpoint[t].state]
        /\ checkpoint[t].applied \in Nat /\ checkpoint[t].state \in SUBSET Event
        /\ WholeUpTo(checkpoint[t].state, checkpoint[t].applied)
        /\ checkpoint[t].state \subseteq Durable(t)
        /\ snapshot[t].last <= checkpoint[t].applied
    BY <1>1, <1>2, <1>4 DEF SnapshotOf, CheckpointState, CheckpointInv
  <2> HIDE DEF behind
  <2>2. /\ CleanFile(log[t], snapshot'[t])
        /\ RestoredState(log[t], snapshot'[t]) = RestoredState(log[t], snapshot[t])
        /\ \A n \in Nat : Spares(n, snapshot[t]) => Spares(n, snapshot'[t])
    BY <1>2, <2>1, SnapshotClean
  <2>3. Durable(t)' = Durable(t) /\ Sent(t)' = Sent(t)
    BY <1>1, <2>2 DEF Durable, Sent
  <2> QED
    BY <1>1, <1>2, <2>2, <2>3 DEF CleanSession
<1> QED
  BY <1>3, <1>4

LEMMA CheckpointWorkerClean ==
  ASSUME PipelineInv, CleanInv, Clean, CheckpointWorker, NEW t \in Session
  PROVE  /\ CleanSession(t)' /\ Durable(t)' = Durable(t)
         /\ UNCHANGED <<loaded, next, live>>
<1>1. CASE CheckpointUpdateDropped
  <2>1. /\ UNCHANGED <<loaded, next, live, log, snapshot, rows, logQueue, materializerQueue>>
        /\ CleanSession(t) /\ CleanFile(log[t], snapshot[t])
    BY <1>1
    DEF CheckpointUpdateDropped, daemonVars, logVars, materializerVars, diskVars, CleanInv,
        CleanSession
  <2> QED
    BY <2>1, QuietKept DEF CleanSession
<1> QED
  BY <1>1, CheckpointUpdateClean, CheckpointShutdownClean DEF CheckpointWorker

(* Dropping the runtime compacts what the snapshots cover.                 *)
LEMMA DropClean ==
  ASSUME PipelineInv, CleanInv, Drop, NEW t \in Session
  PROVE  /\ CleanSession(t)' /\ Durable(t)' = Durable(t)
         /\ UNCHANGED <<loaded, next, live>>
<1>1. /\ CleanSession(t) /\ CleanFile(log[t], snapshot[t]) /\ snapshot[t] \in Snapshot
      /\ log[t] \in LogFile /\ Recoverable(log[t], snapshot[t])
      /\ rows[t] \subseteq Durable(t) /\ materializerQueue \in Seq(WorkerCommands)
  BY CleanTypes DEF PipelineInv, TypeOK, CleanSession
<1>2. /\ UNCHANGED <<loaded, next, live, snapshot, rows, logQueue>>
      /\ materializerQueue' \in {materializerQueue, Append(materializerQueue, Shutdown)}
  BY DEF Drop, DropJoinLog, DropJoinMaterializer, DropJoinCheckpoint, logVars,
         materializerVars, diskVars
<1>3. Carried(materializerQueue', t) = Carried(materializerQueue, t)
  <2>1. Shutdown \in WorkerCommands /\ Shutdown.op # "event"
    BY CommandTypes DEF Shutdown
  <2> HIDE DEF Shutdown
  <2>2. Carried(Append(materializerQueue, Shutdown), t) = Carried(materializerQueue, t)
    BY <1>1, <2>1, AddToQueue
  <2> QED
    BY <1>2, <2>2
<1> DEFINE through == SaturatingSub(snapshot[t].last, RetentionTail)
<1>4. log'[t] \in {log[t], CompactUpTo(log[t], through)}
  BY DEF Drop, DropJoinLog, DropJoinMaterializer, DropJoinCheckpoint, diskVars
<1>5. through \in Nat /\ through <= snapshot[t].last /\ Spares(through, snapshot[t])
  BY <1>1, IntervalAssumption DEF SaturatingSub, Snapshot, Spares
<1> HIDE DEF through
<1>6. /\ CleanFile(log'[t], snapshot[t])
      /\ RestoredState(log'[t], snapshot[t]) = RestoredState(log[t], snapshot[t])
  BY <1>1, <1>4, <1>5, CompactClean
<1> QED
  BY <1>1, <1>2, <1>3, <1>6, QuietKept

-----------------------------------------------------------------------------
(* Requests.                                                               *)

(* A request asks for no compaction.                                       *)
LEMMA RequestCompactions ==
  ASSUME PipelineInv, NEW s \in Session, Request(s), NEW t \in Session
  PROVE  Compactions(logQueue', t) = Compactions(logQueue, t)
<1>1. TypeOK /\ logQueue \in Seq(LogCommands) /\ IndexAssumption
  BY IndexAssumption DEF PipelineInv, TypeOK, IndexAssumption
<1>2. CASE EndServing
  BY <1>1, <1>2, EndServingQueue
<1>3. CASE HandleRequest(s)
  <2> DEFINE first == Observed(s, 0)
             second == Observed(s, 1)
             q == Append(logQueue, EventCommand(s, first))
  <2>1. /\ NextIndex(s) \in Nat \ {0}
        /\ \A i \in Nat : NextIndex(s) + i \in 1..MaxIndex => Observed(s, i) \in Event
    BY <1>1, RequestTypes
  <2>2. first \in Event
    BY <1>3, <2>1, IndexAssumption DEF HandleRequest, Apply
  <2>3. /\ q \in Seq(LogCommands)
        /\ Compactions(q, t) = Compactions(logQueue, t)
    BY <1>1, <2>2, SendQueue
  <2>4. \/ logQueue' = q
        \/ second \in Event /\ logQueue' = Append(q, EventCommand(s, second))
    BY <1>3, <2>1, IndexAssumption DEF HandleRequest, Apply
  <2> HIDE DEF q, second
  <2>5. second \in Event => Compactions(Append(q, EventCommand(s, second)), t) = Compactions(q, t)
    BY <2>3, SendQueue
  <2> QED
    BY <2>3, <2>4, <2>5
<1> QED
  BY <1>2, <1>3 DEF Request, HandleRequestUnpersisted, FailRequest

(* The history of a session: what a restart would find, and after it the   *)
(* events that were sent.                                                  *)
Held(s) == Durable(s) \union (IF s \in loaded THEN Sent(s) ELSE {})

(* The history of s grows at its end.                                      *)
Accepts(s) ==
  /\ s \in loaded' /\ \A t \in Session \ {s} : t \in loaded' <=> t \in loaded
  /\ \A t \in Session : Durable(t)' = Durable(t)
  /\ \A t \in Session \ {s} : Sent(t)' = Sent(t)
  /\ Held(s) \subseteq Sent(s)'
  /\ \A e \in Sent(s)' \ Held(s), f \in Held(s) : f.ix < e.ix
  /\ \E n \in 0..MaxIndex : WholeUpTo(Sent(s)', n)

LEMMA ApplyAccepts ==
  ASSUME PipelineInv, CleanInv, NEW s \in Session, phase = "serving", Loadable(s),
         NEW applied \in 0..2, NEW sent \in 0..applied, Apply(s, applied, sent),
         UNCHANGED diskVars
  PROVE  Accepts(s)
<1> DEFINE L == LiveState(s)
           new == {Observed(s, i) : i \in 0..(sent - 1)}
<1>1. PICK n \in 0..MaxIndex :
        /\ WholeUpTo(L, n)
        /\ NextIndex(s) = n + 1
        /\ n + applied <= MaxIndex
        /\ WholeUpTo(live'[s], n + applied)
        /\ next'[s] = n + 1 + sent
        /\ s \in loaded => L = Sent(s)
        /\ s \notin loaded => L = Durable(s)
        /\ Sent(s)' = L \union new
  BY ApplyExtends
<1>2. /\ TypeOK /\ L \in SUBSET Event /\ Durable(s) \in SUBSET Event
      /\ s \in loaded => Durable(s) \subseteq Sent(s)
      /\ live \in [Session -> SUBSET Event] /\ next \in [Session -> Nat]
      /\ NextIndex(s) \in Nat
  BY RequestTypes, SessionTypes DEF PipelineInv, TypeOK, CleanInv, CleanSession
<1>3. live'[s] \in SUBSET Event
  <2>1. live' \in [Session -> SUBSET Event]
    BY <1>2, ApplyTypes
  <2> QED
    BY <2>1
<1> HIDE DEF L
<1>4. Held(s) = L
  BY <1>1, <1>2 DEF Held
<1>5. \A e \in new : e.ix > n
  BY <1>1 DEF Observed
<1>6. \A f \in L : f.ix \in 1..n
  BY <1>1, <1>2, n \in Nat, WholeHas
<1>7. WholeUpTo(Sent(s)', n + sent)
  <2>1. /\ \A i \in 1..(n + applied) : \E e \in live'[s] : e.ix = i
        /\ \A e \in live'[s] : e.ix \in 1..(n + applied)
        /\ \A e, f \in live'[s] : e.ix = f.ix => e = f
    BY <1>1, <1>3, n + applied \in Nat, WholeHas
  <2> DEFINE S == {e \in live'[s] : e.ix < n + 1 + sent}
  <2>2. Sent(s)' = S
    BY <1>1 DEF Sent
  <2>3. /\ S \in SUBSET Event
        /\ \A i \in 1..(n + sent) : \E e \in S : e.ix = i
        /\ \A e \in S : e.ix \in 1..(n + sent)
        /\ \A e, f \in S : e.ix = f.ix => e = f
    BY <1>1, <1>3, <2>1
  <2> HIDE DEF S
  <2>4. WholeUpTo(S, n + sent)
    BY <2>3, n + sent \in Nat, WholeIf
  <2> QED
    BY <2>2, <2>4
<1>8. /\ s \in loaded' /\ \A t \in Session \ {s} : t \in loaded' <=> t \in loaded
      /\ \A t \in Session \ {s} : live'[t] = live[t] /\ next'[t] = next[t]
  BY <1>2 DEF Apply
<1>9. /\ \A t \in Session : Durable(t)' = Durable(t)
      /\ \A t \in Session \ {s} : Sent(t)' = Sent(t)
  BY <1>8 DEF Durable, Sent, diskVars
<1>10. \A e \in Sent(s)' \ L, f \in L : f.ix < e.ix
  <2>1. \A e \in Sent(s)' \ L : e \in new
    BY <1>1
  <2>2. \A e \in new : e.ix \in Nat
    BY <1>1 DEF Observed
  <2> HIDE DEF new
  <2> QED
    BY <1>5, <1>6, <2>1, <2>2
<1>11. n + sent \in 0..MaxIndex
  <2>1. n \in Nat /\ sent \in Nat /\ applied \in Nat /\ sent <= applied
    OBVIOUS
  <2> QED
    BY <1>1, <2>1, IndexAssumption
<1> HIDE DEF new
<1> QED
  BY <1>1, <1>4, <1>7, <1>8, <1>9, <1>10, <1>11 DEF Accepts

LEMMA RequestClean ==
  ASSUME PipelineInv, CleanInv, NEW s \in Session, Request(s), NEW t \in Session
  PROVE  /\ CleanSession(t)'
         /\ \/ UNCHANGED <<loaded, next, live, log, snapshot>>
            \/ Accepts(s)
<1>1. phase = "serving" /\ UNCHANGED <<log, snapshot, rows, materializerQueue>>
  BY DEF Request, HandleRequest, HandleRequestUnpersisted, FailRequest, diskVars,
         materializerVars
<1>2. Compactions(logQueue', t) = Compactions(logQueue, t)
  BY RequestCompactions
<1>3. CleanSession(t) /\ CleanFile(log[t], snapshot[t]) /\ Durable(t)' = Durable(t)
  BY <1>1 DEF CleanInv, CleanSession, Durable
<1>4. CASE UNCHANGED <<loaded, next, live>>
  BY <1>1, <1>2, <1>3, <1>4, QuietKept DEF CleanSession
<1>5. CASE Loadable(s) /\ \E applied \in 0..2 : \E sent \in 0..applied : Apply(s, applied, sent)
  <2>1. Accepts(s)
    BY <1>1, <1>5, ApplyAccepts DEF diskVars
  <2>2. t \in loaded' => Durable(t)' \subseteq Sent(t)'
    <3>1. CASE t = s
      BY <1>3, <2>1, <3>1 DEF Accepts, Held
    <3>2. CASE t # s
      BY <1>3, <2>1, <3>2 DEF Accepts, CleanSession
    <3> QED
      BY <3>1, <3>2
  <2> QED
    BY <1>1, <1>2, <1>3, <2>1, <2>2 DEF CleanSession
<1>6. \/ UNCHANGED <<loaded, next, live>>
      \/ Loadable(s) /\ \E applied \in 0..2 : \E sent \in 0..applied : Apply(s, applied, sent)
  <2>1. CASE HandleRequest(s)
    <3>1. Loadable(s) /\ (Apply(s, 1, 1) \/ Apply(s, 2, 2))
      BY <2>1 DEF HandleRequest
    <3> QED
      BY <3>1, 1 \in 0..2, 1 \in 0..1, 2 \in 0..2
  <2>2. CASE HandleRequestUnpersisted(s)
    <3>1. PICK applied \in 1..2 : \E sent \in 0..(applied - 1) : Apply(s, applied, sent)
      BY <2>2 DEF HandleRequestUnpersisted
    <3>2. PICK sent \in 0..(applied - 1) : Apply(s, applied, sent)
      BY <3>1
    <3>3. applied \in 0..2 /\ sent \in 0..applied
      OBVIOUS
    <3> QED
      BY <2>2, <3>2, <3>3 DEF HandleRequestUnpersisted
  <2>3. CASE FailRequest(s)
    <3>1. \A applied \in 0..1 : applied \in 0..2 /\ 0 \in 0..applied
      OBVIOUS
    <3> QED
      BY <2>3, <3>1 DEF FailRequest
  <2> QED
    BY <2>1, <2>2, <2>3 DEF Request
<1> QED
  BY <1>4, <1>5, <1>6

-----------------------------------------------------------------------------
(* The invariant, and what a step does to the history.                     *)

LEMMA InitClean == Init => CleanInv
<1> SUFFICES ASSUME Init, NEW s \in Session
             PROVE  CleanSession(s)
  BY DEF CleanInv
<1>1. /\ log[s] = EmptyLog /\ snapshot[s] = NoSnapshot /\ rows[s] = {}
      /\ loaded = {} /\ logQueue = <<>> /\ materializerQueue = <<>>
  BY DEF Init
<1>2. Carried(materializerQueue, s) = {} /\ Compactions(logQueue, s) = {}
  BY <1>1, NothingQueued
<1>3. RestoredState(EmptyLog, NoSnapshot) = {}
  BY DEF RestoredState, EmptyLog, NoSnapshot, EventsAfter
<1>4. CleanFile(EmptyLog, NoSnapshot)
  BY <1>3 DEF CleanFile, EmptyLog, Readable
<1> QED
  BY <1>1, <1>2, <1>4 DEF CleanSession

(* Nothing changes, the daemon ends, or one session accepts or persists.   *)
Unnoticed ==
  /\ \A t \in Session : Durable(t)' = Durable(t) /\ Sent(t)' = Sent(t)
  /\ loaded' = loaded
Loses ==
  /\ \A t \in Session : Durable(t)' = Durable(t)
  /\ loaded' = {}

LEMMA CleanStep ==
  ASSUME PipelineInv, CleanInv, Clean, [Next]_vars
  PROVE  /\ CleanInv'
         /\ \/ Unnoticed
            \/ Loses
            \/ \E s \in Session : Accepts(s) \/ \E e \in Event : Persists(s, e)
<1>1. CASE Start \/ Kill \/ LosePower
  <2>1. ASSUME NEW t \in Session
        PROVE  CleanSession(t)' /\ Durable(t)' = Durable(t) /\ loaded' = {}
    BY <1>1, LifeClean
  <2>2. loaded' = {}
    BY <1>1 DEF Start, Kill, LosePower, Reset
  <2> QED
    BY <2>1, <2>2 DEF CleanInv, Loses
<1>2. CASE \E s \in Session : Request(s)
  <2>1. PICK s \in Session : Request(s)
    BY <1>2
  <2>2. ASSUME NEW t \in Session
        PROVE  /\ CleanSession(t)'
               /\ UNCHANGED <<loaded, next, live, log, snapshot>> \/ Accepts(s)
    BY <2>1, RequestClean
  <2>3. UNCHANGED <<loaded, next, live, log, snapshot>> \/ Accepts(s)
    BY <2>2
  <2>4. UNCHANGED <<loaded, next, live, log, snapshot>> => Unnoticed
    BY DEF Unnoticed, Durable, Sent
  <2> QED
    BY <2>2, <2>3, <2>4 DEF CleanInv
<1>3. CASE LogAppend
  <2>1. ASSUME NEW t \in Session
        PROVE  CleanSession(t)' /\ Persists(Head(logQueue).session, Head(logQueue).event)
    BY <1>3, LogAppendClean
  <2>2. Head(logQueue).session \in Session /\ Head(logQueue).event \in Event
    BY <1>3, TakeEvent DEF LogAppend
  <2> QED
    BY <2>1, <2>2 DEF CleanInv
<1>4. CASE LogAppendFails
  <2>1. ASSUME NEW t \in Session
        PROVE  /\ CleanSession(t)'
               /\ \/ \A u \in Session : Durable(u)' = Durable(u)
                  \/ \E s \in Session : \E e \in Event : Persists(s, e)
               /\ UNCHANGED <<loaded, next, live>>
    BY <1>4, LogAppendFailsClean
  <2>2. Head(logQueue).session \in Session
    BY <1>4, TakeEvent DEF LogAppendFails
  <2> QED
    BY <2>1, <2>2 DEF CleanInv, Unnoticed, Sent
<1>5. CASE \/ LogCompact \/ LogCompactFails \/ LogShutdown
           \/ Materializer \/ CheckpointWorker \/ Drop
  <2>1. ASSUME NEW t \in Session
        PROVE  /\ CleanSession(t)' /\ Durable(t)' = Durable(t)
               /\ UNCHANGED <<loaded, next, live>>
    BY <1>5, LogQuietClean, MaterializerClean, CheckpointWorkerClean, DropClean
  <2>2. UNCHANGED <<loaded, next, live>>
    BY <1>5
    DEF LogCompact, LogCompactFails, LogShutdown, Materializer, Materialize,
        MaterializerShutdown, CheckpointWorker, CheckpointUpdate, CheckpointUpdateDropped,
        CheckpointShutdown, Drop, DropJoinLog, DropJoinMaterializer, DropJoinCheckpoint,
        daemonVars
  <2> QED
    BY <2>1, <2>2 DEF CleanInv, Unnoticed, Sent
<1>6. CASE UNCHANGED vars
  <2>1. UNCHANGED <<loaded, next, live, log, snapshot, rows, logQueue, materializerQueue>>
    BY <1>6 DEF vars, daemonVars, logVars, materializerVars, diskVars
  <2>2. ASSUME NEW t \in Session
        PROVE  Durable(t)' = Durable(t) /\ Sent(t)' = Sent(t)
    BY <2>1 DEF Durable, Sent
  <2>3. ASSUME NEW t \in Session
        PROVE  CleanSession(t)'
    BY <2>1, <2>2 DEF CleanInv, CleanSession
  <2> QED
    BY <2>1, <2>2, <2>3 DEF CleanInv, Unnoticed
<1> QED
  BY <1>1, <1>2, <1>3, <1>4, <1>5, <1>6 DEF Next, LogWorker

(* Both invariants hold together.                                          *)
THEOREM CleanCorrect ==
  ASSUME Clean
  PROVE  Spec => [](PipelineInv /\ CleanInv)
<1>1. Init => PipelineInv /\ CleanInv
  BY InitInv, InitClean
<1>2. PipelineInv /\ CleanInv /\ [Next]_vars => (PipelineInv /\ CleanInv)'
  BY NextInv, CleanStep DEF Clean
<1> QED
  BY <1>1, <1>2, PTL DEF Spec

(* The last RetentionTail events before the snapshot stay in the log: who  *)
(* has read an older snapshot still finds the events after it (lib.rs:422, *)
(* store.rs:800).                                                          *)
THEOREM TailRetainedHolds ==
  ASSUME Clean
  PROVE  Spec => []TailRetained
<1>1. PipelineInv /\ CleanInv => TailRetained
  BY DEF CleanInv, CleanSession, CleanFile, TailRetained, Durable
<1> QED
  BY <1>1, CleanCorrect, PTL

(* No row is shown of an event that a restart would not find: the          *)
(* materializer is sent what has been appended (lib.rs:446-475).           *)
THEOREM RowsAreDurableHolds ==
  ASSUME Clean
  PROVE  Spec => []RowsAreDurable
<1>1. PipelineInv /\ CleanInv => RowsAreDurable
  BY DEF CleanInv, CleanSession, RowsAreDurable
<1> QED
  BY <1>1, CleanCorrect, PTL

-----------------------------------------------------------------------------
(* The refinement.                                                         *)

(* The abstract history speaks of whole histories as the pipeline does.    *)
LEMMA SameWhole ==
  \A E, n : Abstract!WholeUpTo(E, n) <=> WholeUpTo(E, n)
BY DEF Abstract!WholeUpTo, WholeUpTo, Abstract!Indices, Indices, Abstract!Conflicting,
       Conflicting

(* Every event that is sent and not durable, as the abstract history has it. *)
Waiting(s) == IF s \in loaded THEN Sent(s) \ Durable(s) ELSE {}

LEMMA StepRefines ==
  ASSUME PipelineInv, CleanInv, CleanInv', Clean, [Next]_vars
  PROVE  [Abstract!Next]_(Abstract!historyVars)
<1> DEFINE D == [s \in Session |-> Durable(s)]
           W == [s \in Session |-> Waiting(s)]
           DN == [s \in Session |-> Durable(s)']
           WN == [s \in Session |-> Waiting(s)']
<1>1. \A s \in Session : s \in loaded => Durable(s) \subseteq Sent(s)
  BY DEF CleanInv, CleanSession
<1>2. CASE Unnoticed
  <2>1. DN = D /\ WN = W
    BY <1>2 DEF Unnoticed, Waiting
  <2> QED
    BY <2>1 DEF Abstract!historyVars, Waiting
<1>3. CASE Loses
  <2>1. DN = D /\ WN = [s \in Session |-> {}]
    BY <1>3 DEF Loses, Waiting
  <2>2. Abstract!Lose
    BY <2>1 DEF Abstract!Lose, Waiting
  <2> QED
    BY <2>2 DEF Abstract!Next
<1>4. ASSUME NEW s \in Session, Accepts(s)
      PROVE  Abstract!Accept(s)
  <2>1. DN = D
    BY <1>4 DEF Accepts
  <2>2. WN = [W EXCEPT ![s] = WN[s]]
    <3>1. \A t \in Session \ {s} : Waiting(t)' = Waiting(t)
      BY <1>4 DEF Accepts, Waiting
    <3> QED
      BY <3>1
  <2>3. /\ Held(s) = D[s] \union W[s]
        /\ WN[s] = Sent(s)' \ Durable(s)
    BY <1>1, <1>4 DEF Held, Waiting, Accepts
  <2>4. W[s] \subseteq WN[s]
    BY <1>4, <2>3 DEF Accepts, Waiting
  <2>5. \A e \in WN[s] \ W[s], f \in D[s] \union W[s] : f.ix < e.ix
    BY <1>4, <2>3 DEF Accepts
  <2>6. \E n \in 0..MaxIndex : Abstract!WholeUpTo(D[s] \union WN[s], n)
    <3>1. D[s] \union WN[s] = Sent(s)'
      BY <1>4, <2>3 DEF Accepts
    <3> QED
      BY <1>4, <3>1, SameWhole DEF Accepts
  <2> QED
    BY <2>1, <2>2, <2>4, <2>5, <2>6
    DEF Abstract!Accept, Abstract!History, Abstract!Whole, Waiting
<1>5. ASSUME NEW s \in Session, NEW e \in Event, Persists(s, e)
      PROVE  Abstract!Persist(s)
  <2>1. /\ e \in W[s] /\ \A f \in W[s] : e.ix <= f.ix
    BY <1>5 DEF Persists, Waiting
  <2>2. DN = [D EXCEPT ![s] = @ \union {e}]
    BY <1>5 DEF Persists
  <2>3. WN = [W EXCEPT ![s] = @ \ {e}]
    <3>1. \A t \in Session : Sent(t)' = Sent(t)
      BY <1>5 DEF Persists, Sent
    <3>2. ASSUME NEW t \in Session
          PROVE  Waiting(t)' = IF t = s THEN Waiting(t) \ {e} ELSE Waiting(t)
      BY <1>5, <3>1 DEF Persists, Waiting
    <3> QED
      BY <3>2
  <2> QED
    BY <2>1, <2>2, <2>3 DEF Abstract!Persist, Waiting
<1> QED
  BY <1>2, <1>3, <1>4, <1>5, CleanStep DEF Abstract!Next

(* The queues, the workers, the checkpoints and the compactions of the     *)
(* pipeline implement a history whose events become durable in order, and  *)
(* of which a restart loses those that are not yet durable and only those. *)
THEOREM ImplementsHistoryHolds ==
  ASSUME Clean
  PROVE  Spec => ImplementsHistory
<1>1. Init => Abstract!Init
  <2> SUFFICES ASSUME Init PROVE Abstract!Init
    OBVIOUS
  <2>1. ASSUME NEW s \in Session
        PROVE  Durable(s) = {} /\ s \notin loaded
    BY DEF Init, Durable, RestoredState, EventsAfter, EmptyLog, NoSnapshot
  <2> QED
    BY <2>1 DEF Abstract!Init
<1>2. PipelineInv /\ CleanInv /\ CleanInv' /\ [Next]_vars
        => [Abstract!Next]_(Abstract!historyVars)
  BY StepRefines
<1> QED
  BY <1>1, <1>2, CleanCorrect, PTL DEF Spec, ImplementsHistory, Abstract!Spec

-----------------------------------------------------------------------------
(* Dropping the runtime, when log writes do not fail either.               *)

(* Each worker runs until the phase in which it is joined.                 *)
ThreadInv == JoinInv /\ (phase = "serving" => logAlive)

(* What this daemon has made durable of a session.                         *)
Own(s) == {e \in Durable(s) : e.run = run}

(* What was sent before the log worker exited is durable; what this daemon *)
(* has made durable has a row or is on its way to one, and the same of the *)
(* checkpoint, which in the end has everything.                            *)
DrainSession(s) ==
  /\ \A e \in Durable(s) : e.run <= run
  /\ s \in loaded => \A e \in live[s] : e.run <= run
  /\ s \notin loaded /\ phase # "down" => Own(s) = {}
  /\ s \in loaded /\ ~logAlive => Sent(s) \subseteq Durable(s)
  /\ s \in loaded => Own(s) \subseteq rows[s] \union Carried(materializerQueue, s)
  /\ s \in loaded /\ s \notin known => Own(s) \subseteq Carried(checkpointQueue, s)
  /\ s \in known /\ checkpointAlive =>
       \A e \in Durable(s) :
         e.ix > checkpoint[s].applied => e \in Carried(checkpointQueue, s)
  /\ s \in known /\ ~checkpointAlive => snapshot[s].state = Durable(s)

DrainInv == ThreadInv /\ \A s \in Session : DrainSession(s)

(* Log writes do not fail either: only kills are left.                     *)
Smooth == Clean /\ ~LogFails

(* The two as commands are added to and taken from a queue.                *)
LEMMA OpenQueues ==
  ASSUME NEW C, NEW q \in Seq(C)
  PROVE  /\ ClosedOff(<<>>) /\ Open(<<>>)
         /\ \A c \in C :
              /\ ClosedOff(q) /\ (Open(q) \/ c.op # "event") => ClosedOff(Append(q, c))
              /\ Open(Append(q, c)) <=> Open(q) /\ c.op # "shutdown"
         /\ q # <<>> =>
              /\ ClosedOff(q) => ClosedOff(Tail(q))
              /\ Open(q) <=> Open(Tail(q)) /\ Head(q).op # "shutdown"
<1>1. ClosedOff(<<>>) /\ Open(<<>>)
  BY DEF ClosedOff, Open
<1>2. ASSUME NEW c \in C
      PROVE  /\ ClosedOff(q) /\ (Open(q) \/ c.op # "event") => ClosedOff(Append(q, c))
             /\ Open(Append(q, c)) <=> Open(q) /\ c.op # "shutdown"
  <2> DEFINE longer == Append(q, c)
             n == Len(q)
  <2>1. /\ n \in Nat /\ DOMAIN q = 1..n /\ DOMAIN longer = 1..(n + 1)
        /\ longer[n + 1] = c /\ \A i \in 1..n : longer[i] = q[i]
    OBVIOUS
  <2> HIDE DEF longer, n
  <2>2. ASSUME Open(q), c.op # "shutdown", NEW i \in 1..(n + 1)
        PROVE  longer[i].op # "shutdown"
    <3>1. CASE i = n + 1
      BY <2>1, <2>2, <3>1
    <3>2. CASE i \in 1..n
      BY <2>1, <2>2, <3>2 DEF Open
    <3> QED
      BY <2>1, <3>1, <3>2
  <2>3. ASSUME ClosedOff(q), Open(q) \/ c.op # "event",
               NEW i \in 1..(n + 1), NEW j \in 1..(n + 1), i < j, longer[i].op = "shutdown"
        PROVE  longer[j].op # "event"
    <3>1. i \in 1..n /\ longer[i] = q[i]
      BY <2>1, <2>3
    <3>2. CASE j \in 1..n
      BY <2>1, <2>3, <3>1, <3>2 DEF ClosedOff
    <3>3. CASE j = n + 1
      BY <2>1, <2>3, <3>1, <3>3 DEF Open
    <3> QED
      BY <2>1, <3>2, <3>3
  <2>4. Open(longer) <=> Open(q) /\ c.op # "shutdown"
    <3>1. Open(longer) => Open(q) /\ c.op # "shutdown"
      BY <2>1 DEF Open
    <3> QED
      BY <2>1, <2>2, <3>1 DEF Open
  <2>5. ClosedOff(q) /\ (Open(q) \/ c.op # "event") => ClosedOff(longer)
    BY <2>1, <2>3 DEF ClosedOff
  <2> QED
    BY <2>4, <2>5 DEF longer
<1>3. ASSUME q # <<>>
      PROVE  /\ ClosedOff(q) => ClosedOff(Tail(q))
             /\ Open(q) <=> Open(Tail(q)) /\ Head(q).op # "shutdown"
  <2> DEFINE rest == Tail(q)
             n == Len(rest)
  <2>1. /\ n \in Nat /\ DOMAIN rest = 1..n /\ DOMAIN q = 1..(n + 1)
        /\ q[1] = Head(q) /\ \A i \in 1..n : rest[i] = q[i + 1]
    BY <1>3
  <2> HIDE DEF rest, n
  <2>2. \A i \in 1..n : i + 1 \in DOMAIN q /\ rest[i] = q[i + 1]
    BY <2>1
  <2>3. Open(q) <=> Open(rest) /\ Head(q).op # "shutdown"
    <3>1. Open(q) => Open(rest) /\ Head(q).op # "shutdown"
      BY <2>1, <2>2 DEF Open
    <3>2. ASSUME Open(rest), Head(q).op # "shutdown", NEW j \in 1..(n + 1)
          PROVE  q[j].op # "shutdown"
      <4>1. CASE j = 1
        BY <2>1, <3>2, <4>1
      <4>2. CASE j # 1
        <5>1. j - 1 \in 1..n /\ q[(j - 1) + 1] = q[j]
          BY <2>1, <4>2
        <5> QED
          BY <2>1, <3>2, <5>1 DEF Open
      <4> QED
        BY <4>1, <4>2
    <3> QED
      BY <2>1, <3>1, <3>2 DEF Open
  <2>4. ASSUME ClosedOff(q), NEW i \in 1..n, NEW j \in 1..n, i < j,
               rest[i].op = "shutdown"
        PROVE  rest[j].op # "event"
    <3>1. i + 1 < j + 1 /\ i + 1 \in DOMAIN q /\ j + 1 \in DOMAIN q
      BY <2>2, <2>4
    <3> QED
      BY <2>2, <2>4, <3>1 DEF ClosedOff
  <2>5. ClosedOff(q) => ClosedOff(rest)
    BY <2>1, <2>4 DEF ClosedOff
  <2> QED
    BY <2>3, <2>5 DEF rest
<1> QED
  BY <1>1, <1>2, <1>3

(* When the command that stops its worker is the first of a queue, the     *)
(* queue carries no event.                                                 *)
LEMMA StopIsLast ==
  ASSUME NEW C, NEW q \in Seq(C), q # <<>>, ClosedOff(q), Head(q).op = "shutdown", NEW s
  PROVE  Carried(q, s) = {}
<1>1. /\ 1 \in DOMAIN q /\ q[1] = Head(q)
      /\ \A j \in DOMAIN q : j = 1 \/ 1 < j
  OBVIOUS
<1>2. \A j \in DOMAIN q : q[j].op # "event"
  BY <1>1 DEF ClosedOff
<1> QED
  BY <1>2 DEF Carried, Carries

(* The commands of the channels, with their kinds.                         *)
LEMMA Commands ==
  ASSUME TypeOK
  PROVE  /\ logQueue \in Seq(LogCommands)
         /\ materializerQueue \in Seq(WorkerCommands)
         /\ checkpointQueue \in Seq(WorkerCommands)
         /\ Shutdown \in WorkerCommands /\ Shutdown \in LogCommands
         /\ Shutdown.op = "shutdown"
         /\ \A s \in Session, e \in Event :
              EventCommand(s, e) \in LogCommands /\ EventCommand(s, e).op = "event"
         /\ \A s \in Session, n \in Nat :
              CompactCommand(s, n) \in LogCommands /\ CompactCommand(s, n).op = "compact"
BY CommandTypes DEF TypeOK, Shutdown, EventCommand, CompactCommand

(* A log that is read as well as written is always there to be compacted,  *)
(* and to be restored from.                                                *)
LEMMA NoLogFailure ==
  ASSUME PipelineInv, CleanInv, Smooth
  PROVE  ~LogAppendFails /\ ~LogCompactFails /\ ~CheckpointUpdateDropped /\ ~LosePower
<1>1. ~LogAppendFails /\ ~LosePower
  BY DEF Smooth, Clean, LogAppendFails, LosePower
<1>2. \A s \in Session : Readable(log[s]) /\ Restorable(log[s], snapshot[s])
  <2> SUFFICES ASSUME NEW s \in Session
               PROVE  Readable(log[s]) /\ Restorable(log[s], snapshot[s])
    OBVIOUS
  <2>1. Readable(log[s])
    BY DEF CleanInv, CleanSession, CleanFile
  <2>2. PICK n \in 0..MaxIndex : WholeUpTo(RestoredState(log[s], snapshot[s]), n)
    BY <2>1 DEF PipelineInv, SessionInv, DiskInv, Recoverable
  <2>3. EventsAfter(log[s], snapshot[s].last) \subseteq RestoredState(log[s], snapshot[s])
    BY DEF RestoredState
  <2>4. ~Conflicting(RestoredState(log[s], snapshot[s]))
    BY <2>2 DEF WholeUpTo
  <2>5. ~Conflicting(EventsAfter(log[s], snapshot[s].last))
    BY <2>3, <2>4 DEF Conflicting
  <2> QED
    BY <2>1, <2>5 DEF Restorable
<1>3. ~LogCompactFails
  <2> SUFFICES ASSUME LogCompactFails PROVE FALSE
    OBVIOUS
  <2>1. /\ logQueue \in Seq(LogCommands) /\ logQueue # <<>> /\ Head(logQueue).op = "compact"
        /\ ~Readable(log[Head(logQueue).session])
    BY DEF LogCompactFails, NextLogCommand, Smooth, PipelineInv, TypeOK
  <2>2. Head(logQueue).session \in Session
    BY <2>1, QueueTypes, CommandTypes DEF CompactCommands
  <2> QED
    BY <1>2, <2>1, <2>2
<1>4. ~CheckpointUpdateDropped
  <2> SUFFICES ASSUME CheckpointUpdateDropped PROVE FALSE
    OBVIOUS
  <2>1. /\ checkpointQueue \in Seq(WorkerCommands) /\ checkpointQueue # <<>>
        /\ Head(checkpointQueue).op = "event"
        /\ ~Restorable(log[Head(checkpointQueue).session],
                       snapshot[Head(checkpointQueue).session])
    BY DEF CheckpointUpdateDropped, NextUpdate, PipelineInv, TypeOK
  <2>2. Head(checkpointQueue).session \in Session
    BY <2>1, QueueTypes, CommandTypes DEF EventCommands
  <2> QED
    BY <1>2, <2>1, <2>2
<1> QED
  BY <1>1, <1>3, <1>4

(* Every step, a failure too, keeps the workers in their phases.           *)
LEMMA NextJoins ==
  ASSUME TypeOK, JoinInv, [Next]_vars
  PROVE  JoinInv'
<1>1. /\ logQueue \in Seq(LogCommands)
      /\ materializerQueue \in Seq(WorkerCommands)
      /\ checkpointQueue \in Seq(WorkerCommands)
      /\ Shutdown \in WorkerCommands /\ Shutdown \in LogCommands
      /\ Shutdown.op = "shutdown"
      /\ phase \in Phase /\ ClosedOff(<<>>) /\ Open(<<>>)
  BY Commands, OpenQueues DEF TypeOK
<1>2. /\ ClosedOff(logQueue) => ClosedOff(Append(logQueue, Shutdown))
      /\ ClosedOff(materializerQueue) => ClosedOff(Append(materializerQueue, Shutdown))
      /\ ClosedOff(checkpointQueue) => ClosedOff(Append(checkpointQueue, Shutdown))
      /\ ~Open(Append(logQueue, Shutdown))
      /\ ~Open(Append(materializerQueue, Shutdown))
      /\ ~Open(Append(checkpointQueue, Shutdown))
  BY <1>1, OpenQueues
<1>3. /\ logQueue # <<>> =>
           /\ ClosedOff(Tail(logQueue))
           /\ Open(logQueue) <=> Open(Tail(logQueue)) /\ Head(logQueue).op # "shutdown"
      /\ materializerQueue # <<>> =>
           /\ ClosedOff(Tail(materializerQueue))
           /\ Open(materializerQueue)
                <=> Open(Tail(materializerQueue)) /\ Head(materializerQueue).op # "shutdown"
      /\ checkpointQueue # <<>> =>
           /\ ClosedOff(Tail(checkpointQueue))
           /\ Open(checkpointQueue)
                <=> Open(Tail(checkpointQueue)) /\ Head(checkpointQueue).op # "shutdown"
  BY <1>1, OpenQueues DEF JoinInv
<1> HIDE DEF Shutdown
<1>4. CASE UNCHANGED vars
  BY <1>4 DEF JoinInv, vars, daemonVars, logVars, materializerVars, checkpointVars
<1>5. CASE Start
  BY <1>1, <1>5 DEF Start, Reset, JoinInv
<1>6. CASE Kill \/ LosePower
  BY <1>1, <1>6 DEF Kill, LosePower, Reset, JoinInv
<1>7. ASSUME NEW s \in Session, Request(s)
      PROVE  JoinInv'
  <2>1. /\ phase = "serving" /\ Open(logQueue)
        /\ UNCHANGED <<logAlive, materializerVars, checkpointVars>>
    BY <1>7 DEF JoinInv, Request, HandleRequest, HandleRequestUnpersisted, FailRequest
  <2>2. CASE EndServing
    BY <1>2, <2>1, <2>2 DEF EndServing, JoinInv, materializerVars, checkpointVars
  <2>3. CASE HandleRequest(s)
    <3> DEFINE first == EventCommand(s, Observed(s, 0))
               second == EventCommand(s, Observed(s, 1))
               q == Append(logQueue, first)
    <3>1. \A i \in Nat : NextIndex(s) + i \in 1..MaxIndex => Observed(s, i) \in Event
      BY RequestTypes
    <3>2. NextIndex(s) \in Nat \ {0} /\ MaxIndex \in Nat
      BY RequestTypes, IndexAssumption
    <3>3. first \in LogCommands /\ first.op = "event"
      <4>1. Observed(s, 0) \in Event
        BY <2>3, <3>1, <3>2 DEF HandleRequest, Apply
      <4> QED
        BY <4>1, Commands
    <3>4. \/ logQueue' = q
          \/ logQueue' = Append(q, second) /\ second \in LogCommands /\ second.op = "event"
      <4>1. CASE logQueue' = q
        BY <4>1
      <4>2. CASE Apply(s, 2, 2) /\ logQueue' = Append(q, second)
        <5>1. Observed(s, 1) \in Event
          BY <3>1, <3>2, <4>2 DEF Apply
        <5>2. second \in LogCommands /\ second.op = "event"
          BY <5>1, Commands
        <5> QED
          BY <4>2, <5>2
      <4> QED
        BY <2>3, <4>1, <4>2 DEF HandleRequest
    <3> HIDE DEF first, second
    <3>5. q \in Seq(LogCommands) /\ Open(q) /\ ClosedOff(q)
      BY <1>1, <2>1, <3>3, OpenQueues, QueueTypes DEF JoinInv
    <3> HIDE DEF q
    <3>6. Open(logQueue') /\ ClosedOff(logQueue')
      BY <3>4, <3>5, OpenQueues
    <3> QED
      BY <2>1, <2>3, <3>6 DEF HandleRequest, JoinInv, materializerVars, checkpointVars
  <2> QED
    BY <1>7, <2>2, <2>3 DEF Request, HandleRequestUnpersisted, FailRequest
<1>8. CASE LogAppend
  <2>1. /\ logAlive /\ logQueue # <<>> /\ Head(logQueue) \in WorkerCommands
        /\ Head(logQueue).op = "event"
    BY <1>1, <1>8, QueueTypes, CommandTypes DEF LogAppend, NextLogCommand
  <2>2. /\ phase \in {"serving", "joinLog"}
        /\ materializerAlive /\ Open(materializerQueue)
        /\ checkpointAlive /\ Open(checkpointQueue)
    BY <2>1 DEF JoinInv
  <2> DEFINE mq == Append(materializerQueue, Head(logQueue))
             cq == Append(checkpointQueue, Head(logQueue))
  <2>3. Open(mq) /\ ClosedOff(mq) /\ Open(cq) /\ ClosedOff(cq)
    <3> DEFINE c == Head(logQueue)
    <3>1. c \in WorkerCommands /\ c.op # "shutdown"
      BY <2>1
    <3> HIDE DEF c
    <3> QED
      BY <1>1, <2>2, <3>1, OpenQueues DEF JoinInv, c
  <2>4. /\ materializerQueue' = mq /\ checkpointQueue' = cq /\ logQueue' = Tail(logQueue)
        /\ UNCHANGED <<phase, logAlive, materializerAlive, checkpointAlive>>
    BY <1>8, <2>2 DEF LogAppend, daemonVars
  <2> HIDE DEF mq, cq
  <2> QED
    BY <1>3, <2>1, <2>2, <2>3, <2>4 DEF JoinInv
<1>9. CASE LogCompact
  <2>1. /\ logQueue # <<>> /\ logQueue' = Tail(logQueue) /\ Head(logQueue).op = "compact"
        /\ UNCHANGED <<phase, logAlive, materializerVars, checkpointVars>>
    BY <1>9 DEF LogCompact, NextLogCommand, daemonVars
  <2> QED
    BY <1>3, <2>1 DEF JoinInv, materializerVars, checkpointVars
<1>10. CASE LogAppendFails \/ LogCompactFails \/ LogShutdown
  <2>1. /\ logAlive' = FALSE /\ logQueue' = <<>>
        /\ UNCHANGED <<phase, materializerVars, checkpointVars>>
    BY <1>10 DEF LogAppendFails, LogCompactFails, LogShutdown, LogWorkerExits, daemonVars
  <2> QED
    BY <1>1, <2>1 DEF JoinInv, materializerVars, checkpointVars
<1>11. CASE Materializer
  <2>1. /\ materializerQueue # <<>> /\ materializerAlive
        /\ UNCHANGED <<phase, logVars, checkpointVars>>
    BY <1>11 DEF Materializer, Materialize, MaterializerShutdown, daemonVars
  <2>2. CASE Materialize
    BY <1>3, <2>1, <2>2 DEF Materialize, JoinInv, logVars, checkpointVars
  <2>3. CASE MaterializerShutdown
    BY <1>1, <1>3, <2>1, <2>3 DEF MaterializerShutdown, JoinInv, logVars, checkpointVars
  <2> QED
    BY <1>11, <2>2, <2>3 DEF Materializer
<1>12. CASE CheckpointUpdate
  <2> DEFINE state == Updated(KnownCheckpoint(Head(checkpointQueue).session),
                              Head(checkpointQueue).event)
             compact == CompactCommand(Head(checkpointQueue).session,
                                       SaturatingSub(state.applied, RetentionTail))
  <2>1. /\ checkpointQueue # <<>> /\ checkpointAlive /\ checkpointQueue' = Tail(checkpointQueue)
        /\ Head(checkpointQueue).op = "event"
        /\ logQueue' \in {logQueue, Append(logQueue, compact)}
        /\ UNCHANGED <<phase, logAlive, materializerVars, checkpointAlive>>
    BY <1>12 DEF CheckpointUpdate, NextUpdate, daemonVars
  <2>2. compact \in LogCommands /\ compact.op = "compact"
    <3>1. Head(checkpointQueue).session \in Session /\ Head(checkpointQueue).event \in Event
      BY <1>1, <2>1, QueueTypes, CommandTypes DEF EventCommands
    <3>2. state \in CheckpointState
      BY <3>1, CheckpointTypes
    <3>3. SaturatingSub(state.applied, RetentionTail) \in Nat
      BY <3>1, <3>2, CheckpointTypes
    <3> HIDE DEF state
    <3> QED
      BY <3>1, <3>3, Commands
  <2> HIDE DEF compact
  <2>3. ClosedOff(logQueue') /\ (Open(logQueue') <=> Open(logQueue))
    <3> DEFINE longer == Append(logQueue, compact)
    <3>1. /\ ClosedOff(logQueue) => ClosedOff(longer)
          /\ Open(longer) <=> Open(logQueue)
      BY <1>1, <2>2, OpenQueues
    <3> HIDE DEF longer
    <3> QED
      BY <2>1, <3>1 DEF JoinInv, longer
  <2> QED
    BY <1>3, <2>1, <2>3 DEF JoinInv, materializerVars
<1>13. CASE CheckpointUpdateDropped
  <2>1. /\ checkpointQueue # <<>> /\ checkpointAlive /\ checkpointQueue' = Tail(checkpointQueue)
        /\ Head(checkpointQueue).op = "event"
        /\ UNCHANGED <<phase, logVars, materializerVars, checkpointAlive>>
    BY <1>13 DEF CheckpointUpdateDropped, NextUpdate, daemonVars
  <2> QED
    BY <1>3, <2>1 DEF JoinInv, logVars, materializerVars
<1>14. CASE CheckpointShutdown
  <2>1. /\ checkpointQueue # <<>> /\ checkpointAlive /\ Head(checkpointQueue).op = "shutdown"
        /\ checkpointAlive' = FALSE /\ checkpointQueue' = <<>>
        /\ UNCHANGED <<phase, logVars, materializerVars>>
    BY <1>1, <1>14 DEF CheckpointShutdown, daemonVars
  <2> QED
    BY <1>1, <1>3, <2>1 DEF JoinInv, logVars, materializerVars
<1>15. CASE DropJoinLog
  <2>1. /\ phase = "joinLog" /\ phase' = "joinMaterializer" /\ ~logAlive
        /\ materializerQueue' = Append(materializerQueue, Shutdown)
        /\ UNCHANGED <<logVars, materializerAlive, checkpointVars>>
    BY <1>15 DEF DropJoinLog
  <2> QED
    BY <1>2, <2>1 DEF JoinInv, logVars, checkpointVars
<1>16. CASE DropJoinMaterializer
  <2>1. /\ phase = "joinMaterializer" /\ phase' = "joinCheckpoint" /\ ~materializerAlive
        /\ checkpointQueue' = Append(checkpointQueue, Shutdown)
        /\ UNCHANGED <<logVars, materializerVars, checkpointAlive>>
    BY <1>16 DEF DropJoinMaterializer
  <2> QED
    BY <1>2, <2>1 DEF JoinInv, logVars, materializerVars
<1>17. CASE DropJoinCheckpoint
  <2>1. /\ phase = "joinCheckpoint" /\ phase' = "down" /\ ~checkpointAlive
        /\ UNCHANGED <<logVars, materializerVars, checkpointVars>>
    BY <1>17 DEF DropJoinCheckpoint
  <2> QED
    BY <1>1, <2>1 DEF JoinInv, logVars, materializerVars, checkpointVars
<1> QED
  BY <1>4, <1>5, <1>6, <1>7, <1>8, <1>9, <1>10, <1>11, <1>12, <1>13, <1>14, <1>15, <1>16,
     <1>17
  DEF Next, LogWorker, CheckpointWorker, Drop

(* The phases of the workers, whatever fails.                              *)
THEOREM JoinsCorrect == Spec => []JoinInv
<1>1. Init => JoinInv
  BY DEF Init, JoinInv, ClosedOff, Open
<1>2. TypeOK /\ JoinInv /\ [Next]_vars => JoinInv'
  BY NextJoins
<1> QED
  BY <1>1, <1>2, TypeCorrect, PTL DEF Spec

(* The drop never waits for a worker that has not been told to stop, and   *)
(* no event is behind what it was told, whatever has failed before (Drop   *)
(* for CliRuntime, lib.rs 838-871).                                        *)
THEOREM JoinsCanEndHolds == Spec => []JoinsCanEnd
<1>1. ASSUME NEW queue, ClosedOff(queue), ~Open(queue)
      PROVE  Stopping(queue)
  <2>1. PICK i \in DOMAIN queue : queue[i].op = "shutdown"
    BY <1>1 DEF Open
  <2> QED
    BY <1>1, <2>1 DEF ClosedOff, Stopping
<1>2. JoinInv => JoinsCanEnd
  BY <1>1 DEF JoinInv, JoinsCanEnd
<1> QED
  BY <1>2, JoinsCorrect, PTL

(* Where log writes do not fail, the log worker runs as long as requests   *)
(* are served.                                                             *)
LEMMA NextThreads ==
  ASSUME PipelineInv, CleanInv, Smooth, ThreadInv, [Next]_vars
  PROVE  ThreadInv'
<1>1. TypeOK /\ JoinInv /\ JoinInv'
  BY NextJoins DEF PipelineInv, ThreadInv
<1>2. ASSUME phase' = "serving" PROVE logAlive'
  <2>1. CASE Start
    BY <2>1 DEF Start, Reset
  <2>2. CASE LogShutdown
    <3>1. phase = "serving" /\ logQueue # <<>> /\ Head(logQueue).op = "shutdown"
      BY <1>2, <2>2 DEF LogShutdown, NextLogCommand, daemonVars
    <3>2. logQueue \in Seq(LogCommands) /\ Open(logQueue)
      BY <1>1, <3>1 DEF JoinInv, TypeOK
    <3> QED
      BY <3>1, <3>2, OpenQueues
  <2>3. CASE UNCHANGED <<phase, logAlive>>
    BY <1>2, <2>3 DEF ThreadInv
  <2>4. CASE phase' # "serving"
    BY <1>2, <2>4
  <2>5. \/ Start \/ LogShutdown \/ UNCHANGED <<phase, logAlive>> \/ phase' # "serving"
    BY NoLogFailure
    DEF Next, Request, HandleRequest, HandleRequestUnpersisted, FailRequest, EndServing,
        LogWorker, LogAppend, LogCompact, Materializer, Materialize, MaterializerShutdown,
        CheckpointWorker, CheckpointUpdate, CheckpointShutdown, Drop, DropJoinLog,
        DropJoinMaterializer, DropJoinCheckpoint, Kill, vars, daemonVars, logVars
  <2> QED
    BY <2>1, <2>2, <2>3, <2>4, <2>5
<1> QED
  BY <1>1, <1>2 DEF ThreadInv

(* A session drains on as long as a step changes neither what is durable   *)
(* of it nor what the checkpoint worker has to do for it.                  *)
LEMMA DrainKept ==
  ASSUME NEW t \in Session, DrainSession(t),
         Durable(t)' = Durable(t), run' = run,
         t \in loaded' <=> t \in loaded, live'[t] = live[t], next'[t] = next[t],
         phase = "down" => phase' = "down",
         t \in loaded /\ ~logAlive' => Sent(t) \subseteq Durable(t),
         t \in loaded => Own(t) \subseteq rows'[t] \union Carried(materializerQueue', t),
         t \in known' <=> t \in known, checkpointAlive' = checkpointAlive,
         checkpoint'[t] = checkpoint[t], snapshot'[t] = snapshot[t],
         Carried(checkpointQueue', t) = Carried(checkpointQueue, t)
  PROVE  DrainSession(t)'
<1>1. Own(t)' = Own(t) /\ Sent(t)' = Sent(t)
  BY DEF Own, Sent
<1> QED
  BY <1>1 DEF DrainSession

(* A kill leaves nothing to drain, and what a daemon finds at its start is *)
(* not its own.                                                            *)
LEMMA LifeDrain ==
  ASSUME PipelineInv, CleanInv, Smooth, NEW t \in Session, DrainSession(t), Start \/ Kill
  PROVE  DrainSession(t)'
<1>1. /\ loaded' = {} /\ known' = {} /\ Durable(t)' = Durable(t)
      /\ \A e \in Durable(t) : e.run <= run
      /\ Durable(t) \in SUBSET Event /\ run \in Nat
  BY LifeClean, CleanTypes DEF Start, Kill, Reset, DrainSession, Smooth, PipelineInv, TypeOK
<1>2. \A e \in Durable(t) : e.run \in Nat
  BY <1>1 DEF Event
<1>3. /\ \A e \in Durable(t) : e.run <= run'
      /\ phase' # "down" => \A e \in Durable(t) : e.run # run'
  <2>1. CASE Start
    BY <1>1, <1>2, <2>1 DEF Start
  <2>2. CASE Kill
    BY <1>1, <1>2, <2>2 DEF Kill
  <2> QED
    BY <2>1, <2>2
<1> QED
  BY <1>1, <1>3 DEF DrainSession, Own

(* A request adds events of its own run, which are not durable yet.        *)
LEMMA RequestDrain ==
  ASSUME PipelineInv, CleanInv, ThreadInv, NEW t \in Session, DrainSession(t),
         NEW s \in Session, Request(s)
  PROVE  DrainSession(t)'
<1>1. /\ phase = "serving" /\ logAlive /\ checkpointAlive
      /\ UNCHANGED <<run, logAlive, materializerVars, checkpointVars, diskVars>>
      /\ live \in [Session -> SUBSET Event] /\ next \in [Session -> Nat] /\ run \in Nat
  BY DEF ThreadInv, JoinInv, Request, HandleRequest, HandleRequestUnpersisted, FailRequest,
         PipelineInv, TypeOK
<1>2. /\ Durable(t)' = Durable(t) /\ rows' = rows
      /\ UNCHANGED <<materializerQueue, checkpointQueue, checkpointAlive, known, checkpoint,
                     snapshot>>
  BY <1>1 DEF Durable, materializerVars, checkpointVars, diskVars
<1>3. CASE (t \in loaded' <=> t \in loaded) /\ live'[t] = live[t] /\ next'[t] = next[t]
  <2>1. t \in loaded => Own(t) \subseteq rows'[t] \union Carried(materializerQueue', t)
    BY <1>2 DEF DrainSession
  <2> QED
    BY <1>1, <1>2, <1>3, <2>1, DrainKept
<1>4. ASSUME NEW applied \in 0..2, NEW sent \in 0..applied, Apply(s, applied, sent), t = s
      PROVE  DrainSession(t)'
  <2>1. /\ t \in loaded'
        /\ live'[t] = LiveState(t) \union {Observed(t, i) : i \in 0..(applied - 1)}
    BY <1>1, <1>4 DEF Apply
  <2>2. \A e \in LiveState(t) : e.run <= run
    BY DEF LiveState, DrainSession, Durable
  <2>3. \A e \in live'[t] : e.run <= run
    BY <1>1, <2>1, <2>2 DEF Observed
  <2>4. Own(t)' = Own(t)
    BY <1>1, <1>2 DEF Own
  <2>5. /\ t \notin loaded => Own(t) = {}
        /\ t \notin loaded => t \notin known
    BY <1>1 DEF DrainSession, PipelineInv, SessionInv, CheckpointInv
  <2> QED
    BY <1>1, <1>2, <2>1, <2>3, <2>4, <2>5 DEF DrainSession
<1>5. \/ UNCHANGED <<loaded, next, live>>
      \/ \E applied \in 0..2 : \E sent \in 0..applied : Apply(s, applied, sent)
  <2>1. CASE HandleRequest(s)
    <3>1. Apply(s, 1, 1) \/ Apply(s, 2, 2)
      BY <2>1 DEF HandleRequest
    <3> QED
      BY <3>1, 1 \in 0..2, 1 \in 0..1, 2 \in 0..2
  <2>2. CASE FailRequest(s)
    <3>1. \A applied \in 0..1 : applied \in 0..2 /\ 0 \in 0..applied
      OBVIOUS
    <3> QED
      BY <2>2, <3>1 DEF FailRequest
  <2> QED
    BY <1>1, <2>1, <2>2 DEF Request, HandleRequestUnpersisted
<1>6. CASE UNCHANGED <<loaded, next, live>>
  BY <1>3, <1>6
<1>7. ASSUME NEW applied \in 0..2, NEW sent \in 0..applied, Apply(s, applied, sent), t # s
      PROVE  DrainSession(t)'
  <2>1. (t \in loaded' <=> t \in loaded) /\ live'[t] = live[t] /\ next'[t] = next[t]
    BY <1>1, <1>7 DEF Apply
  <2> QED
    BY <1>3, <2>1
<1> QED
  BY <1>4, <1>5, <1>6, <1>7

(* What is appended is sent on to both other workers.                      *)
LEMMA LogAppendDrain ==
  ASSUME PipelineInv, CleanInv, PipelineInv', CleanInv', ThreadInv,
         NEW t \in Session, DrainSession(t), LogAppend
  PROVE  DrainSession(t)'
<1> DEFINE s == Head(logQueue).session
           e == Head(logQueue).event
           c == Head(logQueue)
<1>1. /\ s \in Session /\ e \in Event /\ s \in loaded /\ e \in Sent(s)
      /\ c \in WorkerCommands /\ c.op = "event" /\ logAlive
  BY TakeEvent DEF LogAppend
<1>2. /\ materializerAlive /\ checkpointAlive /\ phase # "down"
      /\ materializerQueue \in Seq(WorkerCommands)
      /\ checkpointQueue \in Seq(WorkerCommands)
  BY <1>1 DEF ThreadInv, JoinInv, PipelineInv, TypeOK
<1>3. /\ UNCHANGED <<phase, run, loaded, next, live, logAlive, materializerAlive,
                     checkpointAlive, known, checkpoint, snapshot, rows>>
      /\ materializerQueue' = Append(materializerQueue, c)
      /\ checkpointQueue' = Append(checkpointQueue, c)
  BY <1>2 DEF LogAppend, daemonVars
<1>4. Durable(t)' = Durable(t) \union (IF t = s THEN {e} ELSE {})
  BY LogAppendClean DEF Persists
<1>5. /\ Carried(materializerQueue', t) =
           Carried(materializerQueue, t) \union (IF t = s THEN {e} ELSE {})
      /\ Carried(checkpointQueue', t) =
           Carried(checkpointQueue, t) \union (IF t = s THEN {e} ELSE {})
  <2>1. /\ c.session = t <=> t = s
        /\ c.event = e
    BY DEF c
  <2> HIDE DEF s, e, c
  <2>2. ASSUME NEW q \in Seq(WorkerCommands)
        PROVE  Carried(Append(q, c), t) = Carried(q, t) \union (IF t = s THEN {e} ELSE {})
    BY <1>1, <2>1, AddToQueue
  <2> QED
    BY <1>2, <1>3, <2>2
<1> HIDE DEF s, e, c
<1>6. e \in live[s] /\ (t = s => e.run <= run)
  BY <1>1 DEF Sent, DrainSession
<1>7. /\ \A d \in Durable(t)' : d.run <= run
      /\ Own(t)' \subseteq Own(t) \union (IF t = s THEN {e} ELSE {})
      /\ t \notin loaded => t # s
  BY <1>1, <1>3, <1>4, <1>6 DEF DrainSession, Own
<1>8. t \in known' /\ checkpointAlive' =>
        \A d \in Durable(t)' : d.ix > checkpoint'[t].applied => d \in Carried(checkpointQueue', t)
  BY <1>1, <1>3 DEF PipelineInv, SessionInv, CheckpointQueueInv, CleanInv, CleanSession, CleanFile
<1> QED
  BY <1>1, <1>2, <1>3, <1>4, <1>5, <1>7, <1>8 DEF DrainSession

(* The log worker stops when it has appended all it was sent.              *)
LEMMA LogQuietDrain ==
  ASSUME PipelineInv, CleanInv, ThreadInv, NEW t \in Session, DrainSession(t),
         LogCompact \/ LogShutdown
  PROVE  DrainSession(t)'
<1>1. /\ UNCHANGED <<phase, run, loaded, next, live, rows, snapshot>>
      /\ UNCHANGED <<materializerQueue, checkpointAlive, checkpointQueue, known, checkpoint>>
      /\ Durable(t)' = Durable(t)
  BY LogQuietClean
  DEF LogCompact, LogShutdown, daemonVars, materializerVars, checkpointVars
<1>2. ASSUME t \in loaded, ~logAlive'
      PROVE  Sent(t) \subseteq Durable(t)
  <2>1. CASE LogCompact
    BY <1>2, <2>1 DEF LogCompact, DrainSession
  <2>2. CASE LogShutdown
    <3>1. /\ logAlive /\ logQueue # <<>> /\ Head(logQueue).op = "shutdown"
          /\ logQueue \in Seq(LogCommands) /\ ClosedOff(logQueue)
      BY <2>2 DEF LogShutdown, NextLogCommand, ThreadInv, JoinInv, PipelineInv, TypeOK
    <3>2. Carried(logQueue, t) = {}
      BY <3>1, StopIsLast
    <3>3. Sent(t) \ Durable(t) \subseteq Carried(logQueue, t)
      BY <1>2, <3>1 DEF PipelineInv, SessionInv, LogQueueInv, CleanInv, CleanSession, CleanFile
    <3> QED
      BY <3>2, <3>3
  <2> QED
    BY <2>1, <2>2
<1>3. t \in loaded => Own(t) \subseteq rows'[t] \union Carried(materializerQueue', t)
  BY <1>1 DEF DrainSession
<1> QED
  BY <1>1, <1>2, <1>3, DrainKept

(* The materializer leaves a row for each event it takes: one with the     *)
(* same index would be of the same event.                                  *)
LEMMA MaterializerDrain ==
  ASSUME PipelineInv, CleanInv, Smooth, ThreadInv, NEW t \in Session, DrainSession(t),
         Materializer
  PROVE  DrainSession(t)'
<1>1. /\ UNCHANGED <<phase, run, loaded, next, live, logAlive, snapshot>>
      /\ UNCHANGED <<checkpointAlive, checkpointQueue, known, checkpoint>>
      /\ Durable(t)' = Durable(t)
      /\ materializerQueue \in Seq(WorkerCommands) /\ materializerQueue # <<>>
      /\ rows \in [Session -> SUBSET Event]
  BY MaterializerClean
  DEF Materializer, Materialize, MaterializerShutdown, daemonVars, logVars, checkpointVars,
      diskVars, PipelineInv, TypeOK
<1>2. rows[t] \union Carried(materializerQueue, t) \subseteq
        rows'[t] \union Carried(materializerQueue', t)
  <2>1. CASE MaterializerShutdown
    <3>1. Head(materializerQueue).op = "shutdown" /\ rows' = rows
      BY <2>1, Commands DEF MaterializerShutdown, diskVars, PipelineInv
    <3>2. Carried(materializerQueue, t) = {}
      BY <1>1, <3>1, StopIsLast DEF ThreadInv, JoinInv
    <3> QED
      BY <3>1, <3>2
  <2>2. CASE Materialize
    <3> DEFINE c == Head(materializerQueue)
    <3>1. /\ c \in EventCommands /\ c.op = "event"
          /\ c.session \in Session /\ c.event \in Event
          /\ materializerQueue' = Tail(materializerQueue)
          /\ \/ rows' = [rows EXCEPT ![c.session] = @ \union {c.event}]
             \/ c.event.ix \in Indices(rows[c.session]) /\ rows' = rows
      BY <1>1, <2>2, QueueTypes, CommandTypes DEF Materialize, EventCommands, Smooth, Clean
    <3>2. /\ c.session = t =>
               Carried(materializerQueue, t) = Carried(materializerQueue', t) \union {c.event}
          /\ c.session # t => Carried(materializerQueue', t) = Carried(materializerQueue, t)
      BY <1>1, <3>1, TakeFromQueue
    <3> HIDE DEF c
    <3>3. ASSUME c.session = t, rows' = rows
          PROVE  c.event \in rows[t]
      <4>1. PICK e \in rows[t] : e.ix = c.event.ix
        BY <1>1, <3>1, <3>3, ~(c.event.ix \notin Indices(rows[t])) DEF Indices
      <4>2. e \in Durable(t) /\ c.event \in Durable(t)
        BY <3>2, <3>3, <4>1 DEF CleanInv, CleanSession
      <4>3. PICK n \in 0..MaxIndex : WholeUpTo(Durable(t), n)
        BY CleanTypes DEF Recoverable, CleanFile
      <4> QED
        BY <4>1, <4>2, <4>3 DEF WholeUpTo, Conflicting
    <3>4. rows[t] \subseteq rows'[t]
      BY <1>1, <3>1
    <3>5. c.session = t => c.event \in rows'[t]
      BY <1>1, <3>1, <3>3
    <3> QED
      BY <3>2, <3>4, <3>5
  <2> QED
    BY <2>1, <2>2 DEF Materializer
<1>3. t \in loaded => Own(t) \subseteq rows'[t] \union Carried(materializerQueue', t)
  BY <1>2 DEF DrainSession
<1> QED
  BY <1>1, <1>3, DrainKept DEF DrainSession

(* The checkpoint worker has applied every durable event that is not in    *)
(* its queue.                                                              *)
LEMMA CheckpointUpdateDrain ==
  ASSUME PipelineInv, CleanInv, Smooth, NEW t \in Session, DrainSession(t), CheckpointUpdate
  PROVE  DrainSession(t)'
<1> DEFINE s == Head(checkpointQueue).session
           e == Head(checkpointQueue).event
           old == KnownCheckpoint(s)
           state == Updated(old, e)
<1>1. /\ s \in Session /\ s \in loaded /\ e \in Event /\ state \in CheckpointState
      /\ e.ix <= state.applied
  BY UpdatedIsPrefix DEF CheckpointUpdate
<1>2. old \in CheckpointState /\ old.applied <= state.applied
  <2>1. old \in CheckpointState
    BY <1>1, CheckpointTypes DEF PipelineInv
  <2> HIDE DEF old, e
  <2> QED
    BY <1>1, <2>1 DEF Updated, CheckpointState, Event
<1>3. /\ UNCHANGED <<phase, run, loaded, next, live, logAlive, rows, materializerQueue>>
      /\ checkpointAlive /\ checkpointAlive' /\ known' = known \union {s}
      /\ checkpointQueue \in Seq(WorkerCommands) /\ checkpointQueue # <<>>
      /\ Head(checkpointQueue).op = "event"
      /\ checkpointQueue' = Tail(checkpointQueue)
      /\ \/ checkpoint' = [checkpoint EXCEPT ![s] = state] /\ UNCHANGED snapshot
         \/ /\ checkpoint' = [checkpoint EXCEPT ![s] = Checkpointed(state)]
            /\ snapshot' = [snapshot EXCEPT ![s] = SnapshotOf(state)]
      /\ checkpoint \in [Session -> CheckpointState] /\ snapshot \in [Session -> Snapshot]
  BY DEF CheckpointUpdate, NextUpdate, daemonVars, materializerVars, PipelineInv, TypeOK,
         Smooth, Clean
<1>4. Durable(t)' = Durable(t)
  BY CheckpointUpdateClean DEF Smooth
<1>5. /\ t = s => Carried(checkpointQueue, t) = Carried(checkpointQueue', t) \union {e}
      /\ t # s => Carried(checkpointQueue', t) = Carried(checkpointQueue, t)
  BY <1>3, TakeFromQueue
<1>6. t = s => checkpoint'[t].applied = state.applied
  BY <1>1, <1>3 DEF Checkpointed, CheckpointState
<1>7. ASSUME t = s, NEW d \in Durable(t), d.ix > old.applied
      PROVE  d \in Carried(checkpointQueue, t)
  <2>1. CASE s \in known
    BY <1>3, <1>7, <2>1 DEF DrainSession, KnownCheckpoint
  <2>2. CASE s \notin known
    <3>1. /\ log[t] \in LogFile /\ snapshot[t] \in Snapshot
          /\ WholeUpTo(snapshot[t].state, snapshot[t].last)
          /\ Durable(t) = RestoredState(log[t], snapshot[t])
          /\ \E n \in 0..MaxIndex : WholeUpTo(RestoredState(log[t], snapshot[t]), n)
          /\ Durable(t) \in SUBSET Event
      BY CleanTypes DEF Recoverable, CleanFile
    <3>2. PICK n \in 0..MaxIndex : WholeUpTo(Durable(t), n)
      BY <3>1
    <3>3. AppliedIndex(log[t], snapshot[t]) = n
      BY <3>1, <3>2, n \in Nat, RestoredLength
    <3>4. old.applied = n
      BY <1>7, <2>2, <3>3 DEF KnownCheckpoint, RestoredCheckpoint
    <3>5. d.ix \in 1..n
      BY <3>1, <3>2, n \in Nat, WholeHas
    <3> QED
      BY <1>7, <3>4, <3>5
  <2> QED
    BY <2>1, <2>2
<1> HIDE DEF s, e, old, state
<1>8. CASE t = s
  <2>1. ASSUME NEW d \in Durable(t), d.ix > state.applied
        PROVE  d \in Carried(checkpointQueue', t)
    <3>1. /\ d.ix \in Nat /\ e.ix \in Nat /\ state.applied \in Nat /\ old.applied \in Nat
      BY <1>1, <1>2, CleanTypes DEF Event, CheckpointState
    <3>2. d.ix > old.applied /\ d # e
      BY <1>1, <1>2, <2>1, <3>1
    <3> QED
      BY <1>5, <1>7, <1>8, <3>2
  <2>2. t \in known' /\ Own(t)' = Own(t) /\ Sent(t)' = Sent(t)
    BY <1>3, <1>4, <1>8 DEF Own, Sent
  <2> QED
    BY <1>3, <1>4, <1>6, <1>8, <2>1, <2>2 DEF DrainSession
<1>9. CASE t # s
  <2>1. /\ (t \in known' <=> t \in known) /\ checkpoint'[t] = checkpoint[t]
        /\ snapshot'[t] = snapshot[t]
    BY <1>1, <1>3, <1>9
  <2>2. t \in loaded => Own(t) \subseteq rows'[t] \union Carried(materializerQueue', t)
    BY <1>3 DEF DrainSession
  <2>3. t \in loaded /\ ~logAlive' => Sent(t) \subseteq Durable(t)
    BY <1>3 DEF DrainSession
  <2> QED
    BY <1>3, <1>4, <1>5, <1>9, <2>1, <2>2, <2>3, DrainKept
<1> QED
  BY <1>8, <1>9

(* The checkpoints at the end hold everything that is durable.             *)
LEMMA CheckpointShutdownDrain ==
  ASSUME PipelineInv, CleanInv, Smooth, ThreadInv, NEW t \in Session, DrainSession(t),
         CheckpointShutdown
  PROVE  DrainSession(t)'
<1>1. /\ UNCHANGED <<phase, run, loaded, next, live, logAlive, rows, materializerQueue>>
      /\ UNCHANGED <<known, checkpoint>>
      /\ checkpointAlive /\ ~checkpointAlive'
      /\ checkpointQueue \in Seq(WorkerCommands) /\ checkpointQueue # <<>>
      /\ Head(checkpointQueue).op = "shutdown"
  BY Commands
  DEF CheckpointShutdown, daemonVars, logVars, materializerVars, PipelineInv
<1>2. Carried(checkpointQueue, t) = {}
  BY <1>1, StopIsLast DEF ThreadInv, JoinInv
<1>3. Durable(t)' = Durable(t)
  BY CheckpointShutdownClean DEF Smooth
<1>4. ASSUME t \in known
      PROVE  snapshot'[t].state = Durable(t)
  <2> DEFINE state == checkpoint[t]
  <2>1. /\ state \in CheckpointState /\ snapshot[t] \in Snapshot
        /\ state.applied \in Nat /\ state.last \in Nat /\ state.state \in SUBSET Event
        /\ Durable(t) \in SUBSET Event
        /\ WholeUpTo(state.state, state.applied)
        /\ state.state \subseteq Durable(t)
        /\ state.last = snapshot[t].last /\ state.last <= state.applied
        /\ WholeUpTo(snapshot[t].state, snapshot[t].last)
        /\ snapshot[t].state \subseteq Durable(t) /\ snapshot[t].state \in SUBSET Event
    BY <1>1, <1>4, CleanTypes, SessionTypes
    DEF PipelineInv, SessionInv, CheckpointInv, CheckpointState, Recoverable, RestoredState,
        Snapshot
  <2>2. PICK n \in 0..MaxIndex : WholeUpTo(Durable(t), n)
    BY CleanTypes DEF Recoverable, CleanFile
  <2>3. /\ \A d \in Durable(t) : d.ix \in 1..n
        /\ \A d, f \in Durable(t) : d.ix = f.ix => d = f
    BY <2>1, <2>2, n \in Nat, WholeHas
  <2>4. \A d \in Durable(t) : d.ix \in 1..state.applied
    <3>1. \A d \in Durable(t) : ~(d.ix > state.applied)
      BY <1>1, <1>2, <1>4 DEF DrainSession
    <3> QED
      BY <2>1, <2>3, <3>1
  <2>5. ASSUME NEW S \in SUBSET Event, WholeUpTo(S, state.applied), S \subseteq Durable(t)
        PROVE  S = Durable(t)
    <3>1. \A i \in 1..state.applied : \E f \in S : f.ix = i
      BY <2>1, <2>5, WholeHas
    <3>2. ASSUME NEW d \in Durable(t)
          PROVE  d \in S
      <4>1. PICK f \in S : f.ix = d.ix
        BY <2>4, <3>1
      <4> QED
        BY <2>3, <2>5, <4>1
    <3> QED
      BY <2>5, <3>2
  <2>6. snapshot'[t] = IF state.applied > state.last THEN SnapshotOf(state) ELSE snapshot[t]
    BY <1>4 DEF CheckpointShutdown, Smooth, Clean
  <2> HIDE DEF state
  <2>7. CASE state.applied > state.last
    BY <2>1, <2>5, <2>6, <2>7 DEF SnapshotOf
  <2>8. CASE ~(state.applied > state.last)
    <3>1. snapshot[t].last = state.applied
      BY <2>1, <2>8
    <3> QED
      BY <2>1, <2>5, <2>6, <2>8, <3>1
  <2> QED
    BY <2>7, <2>8
<1>5. Own(t)' = Own(t) /\ Sent(t)' = Sent(t)
  BY <1>1, <1>3 DEF Own, Sent
<1> QED
  BY <1>1, <1>2, <1>3, <1>4, <1>5 DEF DrainSession

(* Joining the workers and compacting the logs touches nothing of this.    *)
LEMMA DropDrain ==
  ASSUME PipelineInv, CleanInv, NEW t \in Session, DrainSession(t), Drop
  PROVE  DrainSession(t)'
<1>1. /\ UNCHANGED <<run, loaded, next, live, logAlive, rows, snapshot>>
      /\ UNCHANGED <<checkpointAlive, known, checkpoint>>
      /\ phase # "down"
      /\ materializerQueue' \in {materializerQueue, Append(materializerQueue, Shutdown)}
      /\ checkpointQueue' \in {checkpointQueue, Append(checkpointQueue, Shutdown)}
      /\ materializerQueue \in Seq(WorkerCommands) /\ checkpointQueue \in Seq(WorkerCommands)
      /\ Shutdown \in WorkerCommands /\ Shutdown.op # "event"
  BY Commands
  DEF Drop, DropJoinLog, DropJoinMaterializer, DropJoinCheckpoint, logVars,
      materializerVars, checkpointVars, diskVars, PipelineInv
<1>2. Durable(t)' = Durable(t)
  BY DropClean
<1> HIDE DEF Shutdown
<1>3. /\ Carried(materializerQueue', t) = Carried(materializerQueue, t)
      /\ Carried(checkpointQueue', t) = Carried(checkpointQueue, t)
  <2>1. ASSUME NEW q \in Seq(WorkerCommands)
        PROVE  Carried(Append(q, Shutdown), t) = Carried(q, t)
    BY <1>1, AddToQueue
  <2> QED
    BY <1>1, <2>1
<1>4. /\ t \in loaded => Own(t) \subseteq rows'[t] \union Carried(materializerQueue', t)
      /\ t \in loaded /\ ~logAlive' => Sent(t) \subseteq Durable(t)
  BY <1>1, <1>3 DEF DrainSession
<1> QED
  BY <1>1, <1>2, <1>3, <1>4, DrainKept

(* It holds when there is no daemon yet, and every step keeps it.          *)
LEMMA InitDrain == Init => DrainInv
<1> SUFFICES ASSUME Init PROVE DrainInv
  OBVIOUS
<1>1. ClosedOff(<<>>) /\ Open(<<>>)
  BY DEF ClosedOff, Open
<1>2. ThreadInv
  BY <1>1 DEF Init, ThreadInv, JoinInv, ClosedOff, Open
<1>3. \A s \in Session : Durable(s) = {}
  BY DEF Init, Durable, RestoredState, EventsAfter, EmptyLog, NoSnapshot
<1>4. \A s \in Session : DrainSession(s)
  BY <1>3 DEF Init, DrainSession, Own
<1> QED
  BY <1>2, <1>4 DEF DrainInv

LEMMA NextDrain ==
  ASSUME PipelineInv, CleanInv, PipelineInv', CleanInv', DrainInv, Smooth, [Next]_vars
  PROVE  DrainInv'
<1>1. ThreadInv /\ ThreadInv'
  BY NextThreads DEF DrainInv
<1>2. ASSUME NEW t \in Session
      PROVE  DrainSession(t)'
  <2>1. DrainSession(t)
    BY DEF DrainInv
  <2>2. CASE UNCHANGED vars
    <3>1. /\ UNCHANGED <<phase, run, loaded, next, live, logAlive, rows, snapshot, log>>
          /\ UNCHANGED <<checkpointAlive, checkpointQueue, known, checkpoint,
                         materializerQueue>>
      BY <2>2 DEF vars, daemonVars, logVars, materializerVars, checkpointVars, diskVars
    <3>2. Durable(t)' = Durable(t)
      BY <3>1 DEF Durable
    <3>3. /\ t \in loaded => Own(t) \subseteq rows'[t] \union Carried(materializerQueue', t)
          /\ t \in loaded /\ ~logAlive' => Sent(t) \subseteq Durable(t)
      BY <2>1, <3>1 DEF DrainSession
    <3> QED
      BY <2>1, <3>1, <3>2, <3>3, DrainKept
  <2>3. CASE Start \/ Kill
    BY <2>1, <2>3, LifeDrain
  <2>4. ASSUME NEW s \in Session, Request(s)
        PROVE  DrainSession(t)'
    BY <1>1, <2>1, <2>4, RequestDrain
  <2>5. CASE LogAppend
    BY <1>1, <2>1, <2>5, LogAppendDrain
  <2>6. CASE LogCompact \/ LogShutdown
    BY <1>1, <2>1, <2>6, LogQuietDrain
  <2>7. CASE Materializer
    BY <1>1, <2>1, <2>7, MaterializerDrain
  <2>8. CASE CheckpointUpdate
    BY <2>1, <2>8, CheckpointUpdateDrain
  <2>9. CASE CheckpointShutdown
    BY <1>1, <2>1, <2>9, CheckpointShutdownDrain
  <2>10. CASE Drop
    BY <2>1, <2>10, DropDrain
  <2> QED
    BY <2>2, <2>3, <2>4, <2>5, <2>6, <2>7, <2>8, <2>9, <2>10, NoLogFailure
    DEF Next, LogWorker, CheckpointWorker
<1> QED
  BY <1>1, <1>2 DEF DrainInv

(* A runtime that was dropped, and not killed, has made every event it     *)
(* sent durable and visible in the events table, and has left a snapshot   *)
(* of each session that had any: the log worker, the materializer and the  *)
(* checkpoint worker are stopped and joined in this order                  *)
(* (lib.rs:838-899).                                                       *)
THEOREM DropDrainsHolds ==
  ASSUME Smooth
  PROVE  Spec => []DropDrains
<1>1. Init => PipelineInv /\ CleanInv /\ DrainInv
  BY InitInv, InitClean, InitDrain
<1>2. PipelineInv /\ CleanInv /\ DrainInv /\ [Next]_vars
        => (PipelineInv /\ CleanInv /\ DrainInv)'
  <2> SUFFICES ASSUME PipelineInv, CleanInv, DrainInv, [Next]_vars
               PROVE  PipelineInv' /\ CleanInv' /\ DrainInv'
    OBVIOUS
  <2>1. PipelineInv' /\ CleanInv'
    BY NextInv, CleanStep DEF Smooth, Clean
  <2> QED
    BY <2>1, NextDrain
<1>3. PipelineInv /\ CleanInv /\ DrainInv => DropDrains
  <2> SUFFICES ASSUME PipelineInv, CleanInv, DrainInv, phase = "down", NEW s \in loaded
               PROVE  LET accepted == {e \in Sent(s) : e.run = run}
                      IN  /\ Durable(s) = Sent(s)
                          /\ accepted \subseteq rows[s]
                          /\ accepted # {} => snapshot[s].state = Sent(s)
    BY DEF DropDrains
  <2>1. s \in Session /\ DrainSession(s) /\ ~logAlive
        /\ materializerQueue = <<>> /\ checkpointQueue = <<>> /\ ~checkpointAlive
    BY DEF DrainInv, ThreadInv, JoinInv, PipelineInv, TypeOK
  <2>2. Durable(s) = Sent(s)
    BY <2>1 DEF DrainSession, CleanInv, CleanSession
  <2>3. Carried(materializerQueue, s) = {} /\ Carried(checkpointQueue, s) = {}
    BY <2>1, NothingQueued
  <2>4. Own(s) \subseteq rows[s] /\ (s \notin known => Own(s) = {})
        /\ (s \in known => snapshot[s].state = Durable(s))
    BY <2>1, <2>3 DEF DrainSession
  <2>5. {e \in Sent(s) : e.run = run} = Own(s)
    BY <2>2 DEF Own
  <2> QED
    BY <2>2, <2>4, <2>5
<1> QED
  BY <1>1, <1>2, <1>3, PTL DEF Spec
=============================================================================
