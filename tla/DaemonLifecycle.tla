--------------------------- MODULE DaemonLifecycle ---------------------------
(***************************************************************************)
(* The hook processes of one workspace and the daemon they share.  Every   *)
(* shell action runs a hook, which makes sure that a daemon serves the     *)
(* workspace's socket, has the action checked there, and ends.  The hooks  *)
(* coordinate through files: the lifecycle lock, the metadata of the       *)
(* daemon, and the socket; the daemons exclude each other by a lock of     *)
(* their own, the writer lease.                                            *)
(*                                                                         *)
(* Time is left out: a deadline may pass whenever the code looks at it,    *)
(* which it does not while it waits for the answer to a request.  Hooks of *)
(* several builds share a workspace's files only where the socket root is  *)
(* configured; by default each build has a directory of its own.           *)
(* The pid file is written and removed with the metadata and only read for *)
(* the active session records; the progress file only moves a deadline.    *)
(***************************************************************************)
EXTENDS Naturals, FiniteSets

CONSTANTS
  Hook,        \* slots of hook processes: each runs hooks of one build in turn
  Daemon,      \* identities of daemon processes, reused once nobody knows them
  Build,       \* runtime builds: the fields that metadata must match
  ConfigFile,  \* paths of configuration files
  ConfigPath,  \* the configuration file of each build
  Setting,     \* values of failure_action and need_approval_mode
  Default,     \* the setting of a hook that knows none
  Broken,      \* a configuration file that cannot be parsed
  None,
  MaxFaults    \* bound: edits, installations, kills, crashes, stalls and lost markers

ASSUME ProcessAssumption == None \notin Hook \union Daemon
ASSUME ConfigAssumption == ConfigPath \in [Build -> ConfigFile]
ASSUME SettingAssumption == Default \in Setting /\ Broken \notin Setting
ASSUME MaxFaultsAssumption == MaxFaults \in Nat

VARIABLES
  config,    \* the configuration files
  metadata,  \* daemon.json
  socket,    \* the daemon that bound the socket file, or None
  lock,      \* the hook that holds daemon.lock, or None
  lease,     \* the daemon that holds daemon.run.lock, or None
  hook,      \* the running hooks
  daemon,    \* the daemons
  faults,    \* how many faults may still happen
  lapses     \* history: how metadata may have lost a daemon

vars == <<config, metadata, socket, lock, lease, hook, daemon, faults, lapses>>

Metadata == [daemon : Daemon, build : Build, status : {"starting", "ready"},
             setting : Setting,
             marked : BOOLEAN]     \* is the start marker of the process known?

ASSUME NoneIsNoMetadata == None \notin Metadata

(* A hook's step is the next thing it does; it holds the lock in those of  *)
(* Locked.                                                                 *)
Unlocked == {"new", "load", "reconcile", "read", "ping", "lock", "ask"}
Locked == {"reread", "reping", "identify", "wait", "grace", "ready", "mark", "terminate",
           "exit", "clear", "clean", "spawn", "record", "await", "abort", "forget", "unlink"}

(* The steps that begin with a request over the socket, a ping or, in ask, *)
(* that of the adapter.  There is no timeout on the answer.                *)
Asking == {"ping", "reping", "wait", "grace", "await", "ask"}

(* A stalled daemon accepts connections and answers none: an analysis that *)
(* does not come to an end, a client that keeps its connection open, a     *)
(* process that is stopped.  A draining one has left its loop; its lease   *)
(* and its socket are closed, its queues are not yet on the disk.          *)
Listening == {"serving", "stalled"}
Live == {"creating", "created", "leased", "binding", "draining"} \union Listening

HookType == [step : Unlocked \union Locked, build : Build, setting : Setting \union {Broken},
             found : Metadata \union {None},
             peer : Daemon \union {None}]    \* whose answer it waits for
DaemonType == [state : Live \union {"gone"}, parent : Hook \union {None},
               intact : BOOLEAN]    \* does its executable still stand at its path?

-----------------------------------------------------------------------------
(***************************************************************************)
(* What the code asks about processes.                                     *)
(***************************************************************************)
Matches(h, m) == m.build = hook[h].build

(* The daemon at the other end of the connection answers...                *)
Answered(h) == hook[h].peer # None /\ daemon[hook[h].peer].state = "serving"

(* ...or there is nobody to connect to, or the connection has been closed. *)
Unanswered(h) ==
  IF hook[h].peer # None THEN daemon[hook[h].peer].state \notin Listening
                         ELSE socket # None => daemon[socket].state \notin Listening

(* A ping that was answered by the daemon that the metadata names.         *)
Healthy(h) == Answered(h) /\ hook[h].peer = hook[h].found.daemon
Unhealthy(h) == Unanswered(h) \/ (Answered(h) /\ ~Healthy(h))

(* Pid and start marker are those of the daemon, and the file at the path  *)
(* of its runtime is the one it runs.                                      *)
ProcessMatches(m) ==
  m.marked /\ daemon[m.daemon].state \in Live /\ daemon[m.daemon].intact

(* A daemon that runs and is taken for one that does not.                  *)
Overlooking(m) ==
  IF daemon[m.daemon].state \in Live /\ ~ProcessMatches(m)
    THEN lapses \union {"unidentified"} ELSE lapses

(* A process that ended stays, for kill(pid, 0), until its parent ends.    *)
ProcessAlive(d) == daemon[d].state \in Live \/ daemon[d].parent # None

(* The identity is in no file and in no hook's memory.                     *)
Forgotten(d) ==
  /\ ~ProcessAlive(d)
  /\ socket # d
  /\ metadata # None => metadata.daemon # d
  /\ \A h \in Hook : /\ hook[h].found # None => hook[h].found.daemon # d
                     /\ hook[h].peer # d

FreshDaemon == CHOOSE d \in Daemon : Forgotten(d)

-----------------------------------------------------------------------------
Init ==
  /\ config = [f \in ConfigFile |-> Default]
  /\ metadata = None
  /\ socket = None
  /\ lock = None
  /\ lease = None
  /\ hook \in [Hook -> [step : {"new"}, build : Build, setting : {Default},
                        found : {None}, peer : {None}]]
  /\ daemon = [d \in Daemon |-> [state |-> "gone", parent |-> None, intact |-> TRUE]]
  /\ faults = MaxFaults
  /\ lapses = {}

Fault ==
  /\ faults > 0
  /\ faults' = faults - 1

(* A hook that goes on waits for no answer any more.                       *)
GoTo(h, step) == hook' = [hook EXCEPT ![h].step = step, ![h].peer = None]
Found(h, m, step) ==
  hook' = [hook EXCEPT ![h].found = m, ![h].step = step, ![h].peer = None]

(* A process ends: its children become those of init, which reaps them.    *)
Orphaned(h) == [d \in Daemon |->
                  IF daemon[d].parent = h THEN [daemon[d] EXCEPT !.parent = None]
                                          ELSE daemon[d]]

EndHook(h) ==
  /\ hook' = [hook EXCEPT ![h].step = "new", ![h].found = None, ![h].setting = Default,
                          ![h].peer = None]
  /\ daemon' = Orphaned(h)

ReleasedBy(h) == IF lock = h THEN None ELSE lock

-----------------------------------------------------------------------------
(***************************************************************************)
(* HookContext::new: the configuration, then the setting kept in metadata. *)
(***************************************************************************)
Begin(h) ==
  /\ hook[h].step = "new"
  /\ hook' = [hook EXCEPT ![h].step = "load",
                          ![h].setting = config[ConfigPath[hook[h].build]]]
  /\ UNCHANGED <<config, metadata, socket, lock, lease, daemon, faults, lapses>>

Load(h) ==
  /\ hook[h].step = "load"
  /\ Found(h, metadata, "reconcile")
  /\ UNCHANGED <<config, metadata, socket, lock, lease, daemon, faults, lapses>>

(* The metadata of a daemon with the same configuration file.              *)
Shared(h) == hook[h].found # None /\ ConfigPath[hook[h].found.build] = ConfigPath[hook[h].build]

(* Deliberately wrong: without metadata an unknown setting stays unknown. *)
Reconcile_KeepsUnknown(h) ==
  LET m == hook[h].found
      setting == hook[h].setting
  IN  /\ hook[h].step = "reconcile"
      /\ IF Shared(h) /\ setting \notin {m.setting, Broken}
           THEN /\ metadata' = [m EXCEPT !.setting = setting]
                /\ lapses' = IF metadata = m THEN lapses ELSE lapses \union {"overwritten"}
           ELSE UNCHANGED <<metadata, lapses>>
      /\ hook' = [hook EXCEPT ![h].step = "read", ![h].found = None,
                              ![h].setting = IF Shared(h) THEN m.setting ELSE setting]
      /\ UNCHANGED <<config, socket, lock, lease, daemon, faults>>

(* The metadata that was read is written back with the hook's setting; what *)
(* others wrote in between is lost.                                         *)
Reconcile(h) ==
  LET m == hook[h].found
      setting == hook[h].setting
  IN  /\ hook[h].step = "reconcile"
      /\ IF Shared(h) /\ setting \notin {m.setting, Broken}
           THEN /\ metadata' = [m EXCEPT !.setting = setting]
                /\ lapses' = IF metadata = m THEN lapses ELSE lapses \union {"overwritten"}
           ELSE UNCHANGED <<metadata, lapses>>
      /\ hook' = [hook EXCEPT
                    ![h].step = "read",
                    ![h].found = None,
                    ![h].setting = IF setting # Broken THEN setting
                                   ELSE IF Shared(h) THEN m.setting ELSE Default]
      /\ UNCHANGED <<config, socket, lock, lease, daemon, faults>>

-----------------------------------------------------------------------------
(***************************************************************************)
(* ensure_daemon without the lock, and then with it.                       *)
(***************************************************************************)
Connect(h) ==
  /\ hook[h].step \in Asking /\ hook[h].peer = None
  /\ socket # None /\ daemon[socket].state \in Listening
  /\ hook' = [hook EXCEPT ![h].peer = socket]
  /\ UNCHANGED <<config, metadata, socket, lock, lease, daemon, faults, lapses>>

Read(h) ==
  /\ hook[h].step = "read"
  /\ IF metadata # None /\ Matches(h, metadata)
       THEN Found(h, metadata, "ping")
       ELSE GoTo(h, "lock")
  /\ UNCHANGED <<config, metadata, socket, lock, lease, daemon, faults, lapses>>

Ping(h) ==
  /\ hook[h].step = "ping"
  /\ \/ Healthy(h) /\ Found(h, None, "ask")
     \/ Unhealthy(h) /\ Found(h, None, "lock")
  /\ UNCHANGED <<config, metadata, socket, lock, lease, daemon, faults, lapses>>

Lock(h) ==
  /\ hook[h].step = "lock"
  /\ lock = None
  /\ lock' = h
  /\ GoTo(h, "reread")
  /\ UNCHANGED <<config, metadata, socket, lease, daemon, faults, lapses>>

Reread(h) ==
  /\ hook[h].step = "reread"
  /\ Found(h, metadata, IF metadata = None THEN "clean"
                        ELSE IF Matches(h, metadata) THEN "reping" ELSE "identify")
  /\ UNCHANGED <<config, metadata, socket, lock, lease, daemon, faults, lapses>>

Reping(h) ==
  /\ hook[h].step = "reping"
  /\ \/ Healthy(h) /\ Found(h, None, "ask") /\ lock' = None
     \/ Unhealthy(h) /\ GoTo(h, "identify") /\ UNCHANGED lock
  /\ UNCHANGED <<config, metadata, socket, lease, daemon, faults, lapses>>

(* Deliberately wrong: the daemon of another build is left alone. *)
Identify_OnlyOwnBuild(h) ==
  LET m == hook[h].found
  IN  /\ hook[h].step = "identify"
      /\ \E step \in IF ~ProcessMatches(m) \/ ~Matches(h, m) THEN {"clear"}
                     ELSE IF m.status = "starting" THEN {"wait", "grace"}
                     ELSE {"grace"} :
           GoTo(h, step)
      /\ lapses' = Overlooking(m)
      /\ UNCHANGED <<config, metadata, socket, lock, lease, daemon, faults>>

(* A daemon that is starting within the extended timeout is waited for up  *)
(* to its deadlines, any other one for a moment.                           *)
Identify(h) ==
  LET m == hook[h].found
  IN  /\ hook[h].step = "identify"
      /\ \E step \in IF ~ProcessMatches(m) THEN {"clear"}
                     ELSE IF ~Matches(h, m) THEN {"terminate"}
                     ELSE IF m.status = "starting" THEN {"wait", "grace"}
                     ELSE {"grace"} :
           GoTo(h, step)
      /\ lapses' = Overlooking(m)
      /\ UNCHANGED <<config, metadata, socket, lock, lease, daemon, faults>>

(* wait_for_daemon_ready: the daemon answers a ping...                     *)
Poll(h) ==
  /\ hook[h].step \in {"wait", "grace", "await"}
  /\ Healthy(h)
  /\ GoTo(h, "ready")
  /\ UNCHANGED <<config, metadata, socket, lock, lease, daemon, faults, lapses>>

(* ...or there is time for another ping...                                 *)
Retry(h) ==
  /\ hook[h].step \in {"wait", "grace", "await"}
  /\ hook[h].peer # None /\ Unhealthy(h)
  /\ GoTo(h, hook[h].step)
  /\ UNCHANGED <<config, metadata, socket, lock, lease, daemon, faults, lapses>>

(* Deliberately wrong: a daemon the hook has started has no deadline. *)
Expire_Patient(h) ==
  /\ hook[h].step \in {"wait", "grace"}
  /\ IF hook[h].step = "grace" THEN hook[h].peer = None ELSE Unhealthy(h)
  /\ GoTo(h, IF hook[h].step = "wait" THEN "grace" ELSE "terminate")
  /\ UNCHANGED <<config, metadata, socket, lock, lease, daemon, faults, lapses>>

(* ...or the deadline has passed.  The short wait looks at the deadline    *)
(* before a ping, the others after one.                                    *)
Expire(h) ==
  /\ hook[h].step \in {"wait", "grace", "await"}
  /\ IF hook[h].step = "grace" THEN hook[h].peer = None ELSE Unhealthy(h)
  /\ GoTo(h, CASE hook[h].step = "wait" -> "grace"
               [] hook[h].step = "grace" -> "terminate"
               [] OTHER -> "abort")
  /\ UNCHANGED <<config, metadata, socket, lock, lease, daemon, faults, lapses>>

(* The metadata is read again and, if it names the daemon, written back as *)
(* ready.                                                                  *)
Ready(h) ==
  /\ hook[h].step = "ready"
  /\ IF metadata # None /\ metadata.daemon = hook[h].found.daemon
       THEN Found(h, metadata, "mark") /\ UNCHANGED lock
       ELSE Found(h, None, "ask") /\ lock' = None
  /\ UNCHANGED <<config, metadata, socket, lease, daemon, faults, lapses>>

Mark(h) ==
  /\ hook[h].step = "mark"
  /\ metadata' = [hook[h].found EXCEPT !.status = "ready"]
  /\ lock' = None
  /\ Found(h, None, "ask")
  /\ UNCHANGED <<config, socket, lease, daemon, faults, lapses>>

-----------------------------------------------------------------------------
(***************************************************************************)
(* Ending a daemon and starting another.                                   *)
(***************************************************************************)
(* SIGTERM is not handled by the daemon and ends it.                       *)
Ended(d) == [daemon EXCEPT ![d].state = "gone"]
LeaseWithout(d) == IF lease = d THEN None ELSE lease

Terminate(h) ==
  LET m == hook[h].found
  IN  /\ hook[h].step = "terminate"
      /\ IF ProcessMatches(m)
           THEN /\ daemon' = Ended(m.daemon)
                /\ lease' = LeaseWithout(m.daemon)
                /\ GoTo(h, "exit")
           ELSE GoTo(h, "clear") /\ UNCHANGED <<daemon, lease>>
      /\ lapses' = Overlooking(m)
      /\ UNCHANGED <<config, metadata, socket, lock, faults>>

(* The hook that started the daemon may still run and not have reaped it:  *)
(* then the waits end, and the hook with an error.                         *)
Exited(h) ==
  /\ hook[h].step = "exit"
  /\ IF ProcessAlive(hook[h].found.daemon)
       THEN EndHook(h) /\ lock' = None
       ELSE GoTo(h, "clear") /\ UNCHANGED <<daemon, lock>>
  /\ UNCHANGED <<config, metadata, socket, lease, faults, lapses>>

(* clear_daemon_metadata *)
Clear(h) ==
  /\ hook[h].step = "clear"
  /\ metadata' = None
  /\ Found(h, None, "clean")
  /\ UNCHANGED <<config, socket, lock, lease, daemon, faults, lapses>>

(* remove_stale_socket *)
Clean(h) ==
  /\ hook[h].step = "clean"
  /\ socket' = None
  /\ GoTo(h, "spawn")
  /\ UNCHANGED <<config, metadata, lock, lease, daemon, faults, lapses>>

(* Deliberately wrong: the lock is given up once the daemon is started. *)
Spawn_Unlocks(h) ==
  /\ hook[h].step = "spawn"
  /\ \E e \in Daemon : Forgotten(e)
  /\ daemon' = [daemon EXCEPT ![FreshDaemon] =
                   [state |-> "creating", parent |-> h, intact |-> TRUE]]
  /\ \E marked \in BOOLEAN :
       /\ IF marked THEN UNCHANGED faults ELSE Fault
       /\ Found(h, [daemon |-> FreshDaemon, build |-> hook[h].build, status |-> "starting",
                    setting |-> hook[h].setting, marked |-> marked], "record")
  /\ lock' = None
  /\ UNCHANGED <<config, metadata, socket, lease, lapses>>

(* start_daemon: the start marker of the new process may not be found.     *)
Spawn(h) ==
  /\ hook[h].step = "spawn"
  /\ \E e \in Daemon : Forgotten(e)
  /\ daemon' = [daemon EXCEPT ![FreshDaemon] =
                   [state |-> "creating", parent |-> h, intact |-> TRUE]]
  /\ \E marked \in BOOLEAN :
       /\ IF marked THEN UNCHANGED faults ELSE Fault
       /\ Found(h, [daemon |-> FreshDaemon, build |-> hook[h].build, status |-> "starting",
                    setting |-> hook[h].setting, marked |-> marked], "record")
  /\ UNCHANGED <<config, metadata, socket, lock, lease, lapses>>

Record(h) ==
  /\ hook[h].step = "record"
  /\ metadata' = hook[h].found
  /\ GoTo(h, "await")
  /\ UNCHANGED <<config, socket, lock, lease, daemon, faults, lapses>>

(* Deliberately wrong: the daemon that is late is left to itself. *)
Abort_LeavesDaemon(h) ==
  /\ hook[h].step = "abort"
  /\ GoTo(h, "forget")
  /\ UNCHANGED <<config, metadata, socket, lock, lease, daemon, faults, lapses>>

(* The started daemon is not ready in time: it is ended, whether that      *)
(* succeeds or not its metadata and socket are removed, and the hook fails. *)
Abort(h) ==
  LET m == hook[h].found
  IN  /\ hook[h].step = "abort"
      /\ IF ProcessMatches(m)
           THEN daemon' = Ended(m.daemon) /\ lease' = LeaseWithout(m.daemon)
           ELSE UNCHANGED <<daemon, lease>>
      /\ GoTo(h, "forget")
      /\ lapses' = Overlooking(m)
      /\ UNCHANGED <<config, metadata, socket, lock, faults>>

Forget(h) ==
  /\ hook[h].step = "forget"
  /\ metadata' = None
  /\ GoTo(h, "unlink")
  /\ UNCHANGED <<config, socket, lock, lease, daemon, faults, lapses>>

Unlink(h) ==
  /\ hook[h].step = "unlink"
  /\ socket' = None
  /\ lock' = None
  /\ EndHook(h)
  /\ UNCHANGED <<config, metadata, lease, faults, lapses>>

-----------------------------------------------------------------------------
(* run_adapter_process: the adapter has the action checked by the daemon   *)
(* that listens on the socket now, if any does, and the hook answers with  *)
(* the decision or as failure_action says.                                 *)
Ask(h) ==
  /\ hook[h].step = "ask"
  /\ Answered(h) \/ Unanswered(h)
  /\ EndHook(h)
  /\ UNCHANGED <<config, metadata, socket, lock, lease, faults, lapses>>

(* The harness kills a hook that takes too long, or a file operation or a  *)
(* log line of the hook fails: its locks are released, nothing is undone.  *)
Kill(h) ==
  /\ hook[h].step # "new"
  /\ Fault
  /\ lock' = ReleasedBy(h)
  /\ lapses' = IF hook[h].step = "record" THEN lapses \union {"unrecorded"} ELSE lapses
  /\ EndHook(h)
  /\ UNCHANGED <<config, metadata, socket, lease>>

-----------------------------------------------------------------------------
(***************************************************************************)
(* The daemon: serve-unix.                                                 *)
(***************************************************************************)
Become(d, state) == daemon' = [daemon EXCEPT ![d].state = state]

(* create_runtime, which opens the store, comes before the lease.          *)
Create(d) ==
  /\ daemon[d].state = "creating"
  /\ \E state \in {"created", "gone"} : Become(d, state)
  /\ UNCHANGED <<config, metadata, socket, lock, lease, hook, faults, lapses>>

AcquireLease(d) ==
  /\ daemon[d].state = "created"
  /\ IF lease = None
       THEN lease' = d /\ Become(d, "leased")
       ELSE Become(d, "gone") /\ UNCHANGED lease
  /\ UNCHANGED <<config, metadata, socket, lock, hook, faults, lapses>>

(* prepare_socket_path *)
PrepareSocket(d) ==
  /\ daemon[d].state = "leased"
  /\ socket' = None
  /\ Become(d, "binding")
  /\ UNCHANGED <<config, metadata, lock, lease, hook, faults, lapses>>

Bind(d) ==
  /\ daemon[d].state = "binding"
  /\ IF socket = None
       THEN socket' = d /\ Become(d, "serving") /\ UNCHANGED lease
       ELSE daemon' = Ended(d) /\ lease' = LeaseWithout(d) /\ UNCHANGED socket
  /\ UNCHANGED <<config, metadata, lock, hook, faults, lapses>>

(* A request that fails or a client that does not wait for the response    *)
(* ends the loop: the socket is closed, though its file stays, the lease   *)
(* is released, and only then the runtime is dropped...                    *)
Fail(d) ==
  /\ daemon[d].state = "serving"
  /\ Fault
  /\ Become(d, "draining")
  /\ lease' = LeaseWithout(d)
  /\ UNCHANGED <<config, metadata, socket, lock, hook, lapses>>

(* ...which takes the time its queues need.                                *)
Drain(d) ==
  /\ daemon[d].state = "draining"
  /\ Become(d, "gone")
  /\ UNCHANGED <<config, metadata, socket, lock, lease, hook, faults, lapses>>

Stall(d) ==
  /\ daemon[d].state = "serving"
  /\ Fault
  /\ Become(d, "stalled")
  /\ UNCHANGED <<config, metadata, socket, lock, lease, hook, lapses>>

(* The process is killed.                                                  *)
Crash(d) ==
  /\ daemon[d].state \in Live
  /\ Fault
  /\ daemon' = Ended(d)
  /\ lease' = LeaseWithout(d)
  /\ UNCHANGED <<config, metadata, socket, lock, hook, lapses>>

(* Another version is installed at the path of daemons, or theirs removed. *)
Install ==
  /\ Fault
  /\ \E S \in SUBSET {d \in Daemon : daemon[d].state \in Live /\ daemon[d].intact} \ {{}} :
       daemon' = [d \in Daemon |-> [daemon[d] EXCEPT !.intact = @ /\ d \notin S]]
  /\ UNCHANGED <<config, metadata, socket, lock, lease, hook, lapses>>

Edit ==
  /\ Fault
  /\ \E f \in ConfigFile : \E setting \in (Setting \union {Broken}) \ {config[f]} :
       config' = [config EXCEPT ![f] = setting]
  /\ UNCHANGED <<metadata, socket, lock, lease, hook, daemon, lapses>>

-----------------------------------------------------------------------------
Exclusive(h) ==
  \/ Reread(h) \/ Reping(h) \/ Identify(h) \/ Poll(h) \/ Retry(h) \/ Ready(h)
  \/ Mark(h) \/ Terminate(h) \/ Exited(h) \/ Clear(h) \/ Clean(h) \/ Spawn(h) \/ Record(h)
  \/ Abort(h) \/ Forget(h) \/ Unlink(h)

HookStep(h) ==
  \/ Load(h) \/ Reconcile(h) \/ Read(h) \/ Connect(h) \/ Ping(h) \/ Ask(h)
  \/ Exclusive(h)

DaemonStep(d) == Create(d) \/ AcquireLease(d) \/ PrepareSocket(d) \/ Bind(d) \/ Drain(d)

Next ==
  \/ \E h \in Hook : Begin(h) \/ HookStep(h) \/ Lock(h) \/ Expire(h) \/ Kill(h)
  \/ \E d \in Daemon : DaemonStep(d) \/ Fail(d) \/ Stall(d) \/ Crash(d)
  \/ Install \/ Edit

Spec == Init /\ [][Next]_vars

(* Processes run on, a daemon that has not stalled answers, deadlines pass *)
(* while pings fail, and flock(2) serves those who wait.                   *)
Fairness ==
  /\ \A h \in Hook : WF_vars(HookStep(h)) /\ SF_vars(Lock(h) \/ Expire(h))
  /\ \A d \in Daemon : WF_vars(DaemonStep(d))

FairSpec == Spec /\ Fairness
=============================================================================
