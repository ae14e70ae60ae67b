------------------------ MODULE DaemonLifecycle_proofs ------------------------
(***************************************************************************)
(* Proofs about the hooks of a workspace and their daemon, for any number  *)
(* of hooks, builds and settings, and any number of edits, installations,  *)
(* killed hooks and daemons that crash, stall or cannot be identified.     *)
(***************************************************************************)
EXTENDS DaemonLifecycleProperties, TLAPS

(* What the holder of the lock knows of the daemons: the one that runs is  *)
(* the one in metadata (and the one it has found there), or none runs.     *)
Facing == {"reread", "reping", "identify", "wait", "grace", "ready", "mark", "terminate",
           "await", "abort"}
Alone == {"exit", "clear", "clean", "spawn", "forget", "unlink"}

(* The steps for which a hook needs to have found metadata.                *)
Finding == (Facing \ {"reread"}) \union {"ping", "exit", "record"}

(* A hook holds the lock in the locked steps and has what its step needs.  *)
HookInv ==
  \A h \in Hook :
    /\ hook[h].step \in Locked <=> lock = h
    /\ hook[h].step \in Finding => hook[h].found \in Metadata
    /\ hook[h].step \notin {"load", "reconcile"} => hook[h].setting \in Setting

(* The lease is held by the daemon that has got it and has not given it up. *)
Holding == {"leased", "binding"} \union Listening
LeaseInv == \A d \in Daemon : lease = d <=> daemon[d].state \in Holding

(* A daemon is in metadata, or the holder of the lock has it in its hands. *)
AccountedFor(d) ==
  /\ lock = None => metadata # None /\ metadata.daemon = d
  /\ \A h \in Hook : lock = h =>
       /\ hook[h].step \notin Alone
       /\ hook[h].step \in Facing => metadata # None /\ metadata.daemon = d
       /\ hook[h].step \in (Facing \ {"reread"}) \union {"record"} => hook[h].found.daemon = d

OneInv == lapses = {} => \A d \in Daemon : daemon[d].state \in Live => AccountedFor(d)

LifecycleInv == TypeOK /\ HookInv /\ LeaseInv /\ OneInv /\ ServingIsReachable

-----------------------------------------------------------------------------
(* What the updates do.                                                    *)

(* One hook moves on, with what it has found and its setting.              *)
Moved(h, step, m, setting) ==
  /\ hook' \in [Hook -> HookType]
  /\ hook'[h].step = step /\ hook'[h].found = m /\ hook'[h].setting = setting
  /\ \A g \in Hook : g # h => hook'[g] = hook[g]

(* GoTo moves one hook, which keeps what it has found and its setting.     *)
LEMMA GoToMoves ==
  ASSUME TypeOK, NEW h \in Hook, NEW step \in Unlocked \union Locked, GoTo(h, step)
  PROVE  Moved(h, step, hook[h].found, hook[h].setting)
<1> DEFINE k == [hook[h] EXCEPT !.step = step, !.peer = None]
<1>1. hook[h] \in HookType /\ hook \in [Hook -> HookType]
  BY DEF TypeOK
<1>2. k \in HookType /\ k.step = step /\ k.found = hook[h].found /\ k.setting = hook[h].setting
  BY <1>1 DEF HookType
<1>3. hook' = [hook EXCEPT ![h] = k]
  BY DEF GoTo
<1> HIDE DEF k
<1> QED BY <1>1, <1>2, <1>3 DEF Moved

(* Found moves one hook, which remembers what it has found.                *)
LEMMA FoundMoves ==
  ASSUME TypeOK, NEW h \in Hook, NEW step \in Unlocked \union Locked,
         NEW m \in Metadata \union {None}, Found(h, m, step)
  PROVE  Moved(h, step, m, hook[h].setting)
<1> DEFINE k == [hook[h] EXCEPT !.found = m, !.step = step, !.peer = None]
<1>1. hook[h] \in HookType /\ hook \in [Hook -> HookType]
  BY DEF TypeOK
<1>2. k \in HookType /\ k.step = step /\ k.found = m /\ k.setting = hook[h].setting
  BY <1>1 DEF HookType
<1>3. hook' = [hook EXCEPT ![h] = k]
  BY DEF Found
<1> HIDE DEF k
<1> QED BY <1>1, <1>2, <1>3 DEF Moved

(* The daemons keep their states.                                          *)
SameStates ==
  /\ daemon' \in [Daemon -> DaemonType]
  /\ \A d \in Daemon : daemon'[d].state = daemon[d].state

(* EndHook frees the hook; the daemons it started keep their states.       *)
LEMMA EndHookMoves ==
  ASSUME TypeOK, NEW h \in Hook, EndHook(h)
  PROVE  Moved(h, "new", None, Default) /\ SameStates
<1> DEFINE k == [hook[h] EXCEPT !.step = "new", !.found = None, !.setting = Default,
                                !.peer = None]
<1>1. hook[h] \in HookType /\ hook \in [Hook -> HookType] /\ daemon \in [Daemon -> DaemonType]
  BY DEF TypeOK
<1>2. k \in HookType /\ k.step = "new" /\ k.found = None /\ k.setting = Default
  BY <1>1, SettingAssumption DEF HookType, Unlocked
<1>3. hook' = [hook EXCEPT ![h] = k] /\ daemon' = Orphaned(h)
  BY DEF EndHook
<1> HIDE DEF k
<1>4. Moved(h, "new", None, Default)
  BY <1>1, <1>2, <1>3 DEF Moved
<1>5. \A d \in Daemon : [daemon[d] EXCEPT !.parent = None] \in DaemonType
                       /\ [daemon[d] EXCEPT !.parent = None].state = daemon[d].state
  BY <1>1 DEF DaemonType
<1>6. SameStates
  BY <1>1, <1>3, <1>5 DEF SameStates, Orphaned
<1> QED BY <1>4, <1>6

(* A daemon changes its state.                                             *)
Became(d, state) ==
  /\ daemon' \in [Daemon -> DaemonType]
  /\ daemon'[d].state = state
  /\ \A e \in Daemon : e # d => daemon'[e] = daemon[e]

(* Become changes one daemon.                                              *)
LEMMA BecomeDoes ==
  ASSUME TypeOK, NEW d \in Daemon, NEW state \in Live \union {"gone"}, Become(d, state)
  PROVE  Became(d, state)
<1> DEFINE k == [daemon[d] EXCEPT !.state = state]
<1>1. daemon[d] \in DaemonType /\ daemon \in [Daemon -> DaemonType]
  BY DEF TypeOK
<1>2. k \in DaemonType /\ k.state = state
  BY <1>1 DEF DaemonType
<1>3. daemon' = [daemon EXCEPT ![d] = k]
  BY DEF Become
<1> HIDE DEF k
<1> QED BY <1>1, <1>2, <1>3 DEF Became

(* So does Ended.                                                          *)
LEMMA EndedDoes ==
  ASSUME TypeOK, NEW d \in Daemon, daemon' = Ended(d)
  PROVE  Became(d, "gone")
<1>1. Become(d, "gone")
  BY DEF Ended, Become
<1> QED BY <1>1, BecomeDoes

-----------------------------------------------------------------------------
(* The hook by itself.                                                     *)

(* One hook moves and the lock follows it.                                 *)
LEMMA MoveKeepsHooks ==
  ASSUME TypeOK, HookInv, NEW h \in Hook, NEW step, NEW m, NEW setting,
         Moved(h, step, m, setting),
         step \in Locked => lock' = h /\ lock \in {h, None},
         step \notin Locked => lock' = IF lock = h THEN None ELSE lock,
         step \in Finding => m \in Metadata,
         step \notin {"load", "reconcile"} => setting \in Setting
  PROVE  HookInv'
<1>1. ASSUME NEW g \in Hook, g # h PROVE hook'[g] = hook[g]
  BY <1>1 DEF Moved
<1>2. hook'[h].step = step /\ hook'[h].found = m /\ hook'[h].setting = setting
  BY DEF Moved
<1>3. \A g \in Hook : hook'[g].step \in Locked <=> lock' = g
  <2> SUFFICES ASSUME NEW g \in Hook PROVE hook'[g].step \in Locked <=> lock' = g
    OBVIOUS
  <2>1. CASE g = h
    BY <2>1, <1>2, ProcessAssumption
  <2>2. CASE g # h
    <3>1. hook[g].step \in Locked <=> lock = g
      BY DEF HookInv
    <3> QED BY <3>1, <2>2, <1>1, ProcessAssumption
  <2> QED BY <2>1, <2>2
<1> QED BY <1>1, <1>2, <1>3 DEF HookInv

(* In the lock there is one of the locked steps, outside there is none.    *)
LEMMA LockHolder ==
  ASSUME TypeOK, HookInv
  PROVE  lock = None \/ (lock \in Hook /\ hook[lock].step \in Locked)
BY DEF TypeOK, HookInv

-----------------------------------------------------------------------------
(* Steps that start and end no daemon.                                     *)

(* The types outside the hooks and the daemons.                            *)
OtherTypes ==
  /\ config \in [ConfigFile -> Setting \union {Broken}]
  /\ metadata \in Metadata \union {None}
  /\ socket \in Daemon \union {None}
  /\ lock \in Hook \union {None}
  /\ lease \in Daemon \union {None}
  /\ faults \in 0..MaxFaults
  /\ lapses \subseteq {"unrecorded", "overwritten", "unidentified"}

(* What a hook must know when it has or gives up the lock.                 *)
LEMMA HolderAccounts ==
  ASSUME NEW h \in Hook, NEW step, NEW m, NEW setting, Moved(h, step, m, setting),
         NEW d \in Daemon, lock' \in {h, None},
         lock' = None => metadata' # None /\ metadata'.daemon = d,
         lock' = h => /\ step \notin Alone
                      /\ step \in Facing => metadata' # None /\ metadata'.daemon = d
                      /\ step \in (Facing \ {"reread"}) \union {"record"} => m.daemon = d
  PROVE  AccountedFor(d)'
<1>1. hook'[h].step = step /\ hook'[h].found = m
  BY DEF Moved
<1> QED BY <1>1, ProcessAssumption DEF AccountedFor

(* The daemons stay as they are, and stay accounted for.                   *)
LEMMA QuietStep ==
  ASSUME LifecycleInv, hook' \in [Hook -> HookType], SameStates, OtherTypes', HookInv',
         UNCHANGED <<socket, lease>>,
         lapses' = {} => lapses = {},
         \A d \in Daemon :
           lapses' = {} /\ daemon[d].state \in Live /\ AccountedFor(d) => AccountedFor(d)'
  PROVE  LifecycleInv'
<1>0. TypeOK /\ LeaseInv /\ OneInv /\ ServingIsReachable
  BY DEF LifecycleInv
<1>1. daemon' \in [Daemon -> DaemonType] /\ \A d \in Daemon : daemon'[d].state = daemon[d].state
  BY DEF SameStates
<1>2. TypeOK'
  BY <1>1 DEF TypeOK, OtherTypes
<1>3. LeaseInv' /\ ServingIsReachable'
  BY <1>0, <1>1 DEF LeaseInv, ServingIsReachable
<1>4. OneInv'
  BY <1>0, <1>1 DEF OneInv
<1> QED BY <1>2, <1>3, <1>4 DEF LifecycleInv

(* A hook outside the lock goes on outside it.                             *)
LEMMA OutsideStep ==
  ASSUME LifecycleInv, NEW h \in Hook, NEW step \in Unlocked, NEW m, NEW setting,
         Moved(h, step, m, setting), hook[h].step \in Unlocked, SameStates, OtherTypes',
         UNCHANGED <<socket, lock, lease>>,
         lapses' = {} => /\ lapses = {}
                         /\ metadata # None =>
                              metadata' # None /\ metadata'.daemon = metadata.daemon,
         step \in Finding => m \in Metadata,
         step \notin {"load", "reconcile"} => setting \in Setting
  PROVE  LifecycleInv'
<1>0. TypeOK /\ HookInv
  BY DEF LifecycleInv
<1>1. Unlocked \intersect Locked = {}
  BY DEF Unlocked, Locked
<1>2. lock # h
  BY <1>0, <1>1 DEF HookInv
<1>3. HookInv'
  BY <1>0, <1>1, <1>2, MoveKeepsHooks
<1>4. ASSUME NEW d \in Daemon, lapses' = {}, AccountedFor(d) PROVE AccountedFor(d)'
  <2>1. \A g \in Hook : lock = g => hook'[g] = hook[g]
    BY <1>2 DEF Moved
  <2> QED BY <2>1, <1>4 DEF AccountedFor
<1>5. hook' \in [Hook -> HookType]
  BY DEF Moved
<1> QED BY <1>3, <1>4, <1>5, QuietStep

(* The steps outside the lock.                                             *)
LEMMA OutsideSteps ==
  ASSUME LifecycleInv, NEW h \in Hook,
         Begin(h) \/ Load(h) \/ Reconcile(h) \/ Read(h) \/ Ping(h) \/ Ask(h)
  PROVE  LifecycleInv'
<1>0. TypeOK /\ HookInv /\ OtherTypes /\ hook[h] \in HookType
  BY DEF LifecycleInv, TypeOK, OtherTypes
<1>1. {"new", "load", "reconcile", "read", "ping", "lock", "ask"} = Unlocked
      /\ {"new", "load", "reconcile", "read", "lock", "ask"} \intersect Finding = {}
  BY DEF Unlocked, Finding, Facing
<1>2. ASSUME UNCHANGED <<config, metadata, socket, lock, lease, faults, lapses>>
      PROVE  OtherTypes'
  BY <1>2, <1>0 DEF OtherTypes
<1>3. ASSUME UNCHANGED daemon PROVE SameStates
  BY <1>3, <1>0 DEF SameStates, TypeOK
<1>4. CASE Begin(h)
  <2> DEFINE setting == config[ConfigPath[hook[h].build]]
             k == [hook[h] EXCEPT !.step = "load", !.setting = setting]
  <2>1. Moved(h, "load", hook[h].found, setting)
    <3>1. setting \in Setting \union {Broken}
      BY <1>0, ConfigAssumption DEF HookType, OtherTypes
    <3>2. hook' = [hook EXCEPT ![h] = k]
      BY <1>4 DEF Begin
    <3> HIDE DEF setting
    <3>3. k \in HookType /\ k.step = "load" /\ k.found = hook[h].found /\ k.setting = setting
      BY <1>0, <1>1, <3>1 DEF HookType
    <3> HIDE DEF k
    <3> QED BY <3>2, <3>3, <1>0 DEF Moved, TypeOK
  <2> HIDE DEF setting, k
  <2>2. /\ hook[h].step \in Unlocked /\ SameStates /\ OtherTypes'
        /\ UNCHANGED <<metadata, socket, lock, lease, lapses>>
    BY <1>1, <1>2, <1>3, <1>4 DEF Begin
  <2> QED BY <2>1, <2>2, <1>1, OutsideStep
<1>5. CASE Load(h)
  <2>1. Moved(h, "reconcile", metadata, hook[h].setting)
    BY <1>0, <1>1, <1>5, FoundMoves DEF Load, OtherTypes
  <2>2. /\ hook[h].step \in Unlocked /\ SameStates /\ OtherTypes'
        /\ UNCHANGED <<metadata, socket, lock, lease, lapses>>
    BY <1>1, <1>2, <1>3, <1>5 DEF Load
  <2> QED BY <2>1, <2>2, <1>1, OutsideStep
<1>6. CASE Reconcile(h)
  <2> DEFINE m == hook[h].found
             setting == IF hook[h].setting # Broken THEN hook[h].setting
                        ELSE IF Shared(h) THEN m.setting ELSE Default
             written == Shared(h) /\ hook[h].setting \notin {m.setting, Broken}
  <2>1. m \in Metadata \union {None} /\ setting \in Setting
        /\ (written => m \in Metadata /\ hook[h].setting \in Setting)
    BY <1>0, SettingAssumption DEF HookType, Metadata, Shared
  <2>2. Moved(h, "read", None, setting)
    <3> DEFINE k == [hook[h] EXCEPT !.step = "read", !.found = None, !.setting = setting]
    <3>1. hook' = [hook EXCEPT ![h] = k]
      BY <1>6 DEF Reconcile
    <3> HIDE DEF setting
    <3>2. k \in HookType /\ k.step = "read" /\ k.found = None /\ k.setting = setting
      BY <1>0, <1>1, <2>1 DEF HookType
    <3> HIDE DEF k
    <3> QED BY <3>1, <3>2, <1>0 DEF Moved, TypeOK
  <2>3. /\ hook[h].step \in Unlocked /\ SameStates
        /\ UNCHANGED <<config, socket, lock, lease, faults>>
    BY <1>1, <1>3, <1>6 DEF Reconcile
  <2>4. /\ metadata' \in Metadata \union {None} /\ lapses' \subseteq {"unrecorded", "overwritten", "unidentified"}
        /\ lapses' = {} => /\ lapses = {}
                           /\ metadata # None =>
                                metadata' # None /\ metadata'.daemon = metadata.daemon
    <3>1. CASE ~written
      <4>1. UNCHANGED <<metadata, lapses>>
        BY <3>1, <1>6 DEF Reconcile
      <4> QED BY <4>1, <1>0 DEF OtherTypes
    <3>2. CASE written
      <4> DEFINE w == [m EXCEPT !.setting = hook[h].setting]
      <4>1. metadata' = w
            /\ lapses' = IF metadata = m THEN lapses ELSE lapses \union {"overwritten"}
        BY <3>2, <1>6 DEF Reconcile
      <4>2. w \in Metadata /\ w.daemon = m.daemon /\ w # None
        BY <3>2, <2>1, NoneIsNoMetadata DEF Metadata
      <4> HIDE DEF w
      <4> QED BY <4>1, <4>2, <1>0 DEF OtherTypes
    <3> QED BY <3>1, <3>2
  <2>5. OtherTypes'
    BY <2>3, <2>4, <1>0 DEF OtherTypes
  <2> HIDE DEF setting
  <2> QED BY <2>1, <2>2, <2>3, <2>4, <2>5, <1>1, OutsideStep
<1>7. CASE Read(h)
  <2>1. /\ hook[h].step = "read" /\ SameStates /\ OtherTypes'
        /\ UNCHANGED <<metadata, socket, lock, lease, lapses>>
    BY <1>2, <1>3, <1>7 DEF Read
  <2>2. hook[h].step \in Unlocked /\ hook[h].setting \in Setting
    BY <2>1, <1>0, <1>1 DEF HookInv
  <2>3. CASE Found(h, metadata, "ping") /\ metadata # None
    <3>1. metadata \in Metadata /\ Moved(h, "ping", metadata, hook[h].setting)
      BY <2>3, <1>0, <1>1, FoundMoves DEF OtherTypes
    <3> QED BY <3>1, <2>1, <2>2, <1>1, OutsideStep
  <2>4. CASE GoTo(h, "lock")
    <3>1. Moved(h, "lock", hook[h].found, hook[h].setting)
      BY <2>4, <1>0, <1>1, GoToMoves
    <3> QED BY <3>1, <2>1, <2>2, <1>1, OutsideStep
  <2> QED BY <2>3, <2>4, <1>7 DEF Read
<1>8. CASE Ping(h)
  <2>1. /\ hook[h].step = "ping" /\ SameStates /\ OtherTypes'
        /\ UNCHANGED <<metadata, socket, lock, lease, lapses>>
    BY <1>2, <1>3, <1>8 DEF Ping
  <2>2. hook[h].step \in Unlocked /\ hook[h].setting \in Setting
    BY <2>1, <1>0, <1>1 DEF HookInv
  <2>3. PICK step \in {"ask", "lock"} : Found(h, None, step)
    BY <1>8 DEF Ping
  <2>4. Moved(h, step, None, hook[h].setting)
    BY <2>3, <1>0, <1>1, FoundMoves
  <2> QED BY <2>1, <2>2, <2>4, <1>1, OutsideStep
<1>9. CASE Ask(h)
  <2>1. /\ hook[h].step \in Unlocked /\ OtherTypes'
        /\ UNCHANGED <<metadata, socket, lock, lease, lapses>> /\ EndHook(h)
    BY <1>1, <1>2, <1>9 DEF Ask
  <2>2. Moved(h, "new", None, Default) /\ SameStates
    BY <2>1, <1>0, EndHookMoves
  <2> QED BY <2>1, <2>2, <1>1, SettingAssumption, OutsideStep
<1> QED BY <1>4, <1>5, <1>6, <1>7, <1>8, <1>9

(* What a hook that comes to a step must leave behind of a daemon that     *)
(* runs.                                                                   *)
Accounts(step, m, d) ==
  /\ step \notin Alone
  /\ step \in Facing \union Unlocked => metadata' # None /\ metadata'.daemon = d
  /\ step \in (Facing \ {"reread"}) \union {"record"} => m.daemon = d

(* The hook that has the lock goes on, or gives it up.                     *)
LEMMA InsideStep ==
  ASSUME LifecycleInv, NEW h \in Hook, NEW step \in Unlocked \union Locked, NEW m, NEW setting,
         Moved(h, step, m, setting), lock \in {h, None}, SameStates, OtherTypes',
         UNCHANGED <<socket, lease>>,
         lapses' = {} => lapses = {},
         lock' = IF step \in Locked THEN h ELSE None,
         step \in Finding => m \in Metadata,
         step \notin {"load", "reconcile"} => setting \in Setting,
         \A d \in Daemon :
           lapses' = {} /\ daemon[d].state \in Live /\ AccountedFor(d) => Accounts(step, m, d)
  PROVE  LifecycleInv'
<1>0. TypeOK /\ HookInv
  BY DEF LifecycleInv
<1>1. HookInv'
  BY <1>0, ProcessAssumption, MoveKeepsHooks
<1>2. ASSUME NEW d \in Daemon, lapses' = {}, daemon[d].state \in Live, AccountedFor(d)
      PROVE  AccountedFor(d)'
  <2>1. Accounts(step, m, d)
    BY <1>2
  <2>2. lock' \in {h, None} /\ (lock' = None => step \in Unlocked)
    BY ProcessAssumption
  <2> QED BY <2>1, <2>2, HolderAccounts DEF Accounts
<1>3. hook' \in [Hook -> HookType]
  BY DEF Moved
<1> QED BY <1>1, <1>2, <1>3, QuietStep

(* The quiet steps with the lock.                                          *)
LEMMA InsideSteps ==
  ASSUME LifecycleInv, NEW h \in Hook,
         \/ Lock(h) \/ Reread(h) \/ Reping(h) \/ Identify(h) \/ Poll(h) \/ Retry(h)
         \/ Expire(h) \/ Ready(h) \/ Mark(h) \/ Exited(h) \/ Clear(h) \/ Record(h) \/ Forget(h)
         \/ Terminate(h) /\ ~ProcessMatches(hook[h].found)
         \/ Abort(h) /\ ~ProcessMatches(hook[h].found)
  PROVE  LifecycleInv'
<1>0. TypeOK /\ HookInv /\ OtherTypes /\ hook[h] \in HookType
  BY DEF LifecycleInv, TypeOK, OtherTypes
<1> DEFINE m == hook[h].found
           At(step) == hook[h].step = step
<1>1. /\ Unlocked = {"new", "load", "reconcile", "read", "ping", "lock", "ask"}
      /\ Locked = {"reread", "reping", "identify", "wait", "grace", "ready", "mark", "terminate",
                   "exit", "clear", "clean", "spawn", "record", "await", "abort", "forget",
                   "unlink"}
      /\ Facing = {"reread", "reping", "identify", "wait", "grace", "ready", "mark",
                   "terminate", "await", "abort"}
      /\ Alone = {"exit", "clear", "clean", "spawn", "forget", "unlink"}
      /\ Finding = {"reping", "identify", "wait", "grace", "ready", "mark", "terminate",
                    "await", "abort", "ping", "exit", "record"}
  BY DEF Unlocked, Locked, Facing, Alone, Finding
<1>2. ASSUME UNCHANGED <<config, socket, lease, faults>>,
             lapses' \in {lapses, lapses \union {"unidentified"}},
             metadata' \in Metadata \union {None}, lock' \in {h, None}
      PROVE  OtherTypes'
  BY <1>2, <1>0 DEF OtherTypes
<1>3. ASSUME UNCHANGED daemon PROVE SameStates
  BY <1>3, <1>0 DEF SameStates, TypeOK
<1>4. hook[h].step \in Locked => lock = h /\ hook[h].setting \in Setting
  BY <1>0, <1>1 DEF HookInv
<1>5. ASSUME NEW d \in Daemon, AccountedFor(d), lock = h
      PROVE  /\ hook[h].step \notin Alone
             /\ hook[h].step \in Facing => metadata # None /\ metadata.daemon = d
             /\ hook[h].step \in (Facing \ {"reread"}) \union {"record"} => m.daemon = d
  BY <1>5 DEF AccountedFor
<1>6. metadata \in Metadata \union {None} /\ m \in Metadata \union {None}
      /\ (hook[h].step \in Finding => m \in Metadata)
  BY <1>0 DEF OtherTypes, HookType, HookInv
<1> HIDE DEF m
<1>7. CASE Lock(h)
  <2>1. /\ hook[h].step = "lock" /\ lock = None /\ lock' = h /\ GoTo(h, "reread") /\ SameStates
        /\ UNCHANGED <<config, metadata, socket, lease, faults, lapses>>
    BY <1>3, <1>7 DEF Lock
  <2>2. Moved(h, "reread", hook[h].found, hook[h].setting)
    BY <2>1, <1>0, <1>1, GoToMoves
  <2>3. hook[h].setting \in Setting /\ OtherTypes'
    BY <2>1, <1>0, <1>2, <1>6 DEF HookInv
  <2>4. \A d \in Daemon : AccountedFor(d) => Accounts("reread", hook[h].found, d)
    BY <2>1, <1>1 DEF AccountedFor, Accounts
  <2> QED BY <2>1, <2>2, <2>3, <2>4, <1>1, InsideStep
<1>8. CASE Reread(h)
  <2> DEFINE next == IF metadata = None THEN "clean"
                     ELSE IF Matches(h, metadata) THEN "reping" ELSE "identify"
  <2>1. /\ hook[h].step = "reread" /\ Found(h, metadata, next) /\ SameStates
        /\ UNCHANGED <<config, metadata, socket, lock, lease, faults, lapses>>
    BY <1>3, <1>8 DEF Reread
  <2>2. next \in Locked /\ (next \in Finding => metadata \in Metadata) /\ lock = h
        /\ (metadata # None => next \in {"reping", "identify"})
    BY <2>1, <1>1, <1>4, <1>6
  <2> HIDE DEF next
  <2>3. Moved(h, next, metadata, hook[h].setting)
    BY <2>1, <2>2, <1>0, <1>6, FoundMoves
  <2>4. \A d \in Daemon : AccountedFor(d) => Accounts(next, metadata, d)
    BY <2>1, <2>2, <1>1, <1>5 DEF Accounts
  <2> QED BY <2>1, <2>2, <2>3, <2>4, <1>1, <1>2, <1>4, <1>6, InsideStep
<1>9. ASSUME NEW step \in Facing, lock = h, GoTo(h, step), lock' = lock, SameStates,
             UNCHANGED <<config, metadata, socket, lease, faults, lapses>>,
             hook[h].step \in Facing \ {"reread"}
      PROVE  LifecycleInv'
  <2>1. Moved(h, step, m, hook[h].setting) /\ m \in Metadata
    BY <1>9, <1>0, <1>1, <1>6, GoToMoves DEF m
  <2>2. \A d \in Daemon : AccountedFor(d) => Accounts(step, m, d)
    BY <1>9, <1>1, <1>5 DEF Accounts
  <2> QED BY <2>1, <2>2, <1>1, <1>2, <1>4, <1>6, <1>9, InsideStep
<1>10. ASSUME Found(h, None, "ask"), lock' = None, lock = h, SameStates,
              UNCHANGED <<config, metadata, socket, lease, faults, lapses>>,
              hook[h].step \in Facing
       PROVE  LifecycleInv'
  <2>1. Moved(h, "ask", None, hook[h].setting)
    BY <1>10, <1>0, <1>1, FoundMoves
  <2>2. \A d \in Daemon : AccountedFor(d) => Accounts("ask", None, d)
    BY <1>10, <1>1, <1>5 DEF Accounts
  <2> QED BY <2>1, <2>2, <1>1, <1>2, <1>4, <1>6, <1>10, InsideStep
<1>11. ASSUME NEW step \in Alone \ {"exit"},
              Moved(h, step, m, hook[h].setting) \/ Moved(h, step, None, hook[h].setting),
              lock = h, lock' = h, SameStates, metadata' \in {metadata, None},
              UNCHANGED <<config, socket, lease, faults>>,
              lapses' \in {lapses, lapses \union {"unidentified"}},
              hook[h].step \in Locked,
              \A d \in Daemon :
                lapses' = {} /\ daemon[d].state \in Live => ~AccountedFor(d)
       PROVE  LifecycleInv'
  <2>1. OtherTypes'
    BY <1>11, <1>2, <1>6
  <2>2. step \in Locked /\ step \notin Finding /\ hook[h].setting \in Setting /\ step \notin {"load", "reconcile"}
    BY <1>11, <1>1, <1>4
  <2> QED BY <2>1, <2>2, <1>11, InsideStep
<1>overlooked. ASSUME lock = h, hook[h].step \in {"identify", "terminate", "abort"},
              ~ProcessMatches(m), lapses' = Overlooking(m)
       PROVE  /\ lapses' \in {lapses, lapses \union {"unidentified"}}
              /\ \A d \in Daemon :
                   lapses' = {} /\ daemon[d].state \in Live => ~AccountedFor(d)
  <2>1. lapses' = {} => daemon[m.daemon].state \notin Live
    BY <1>overlooked DEF Overlooking
  <2>2. \A d \in Daemon : AccountedFor(d) => m.daemon = d
    BY <1>overlooked, <1>1, <1>5
  <2> QED BY <2>1, <2>2, <1>overlooked DEF Overlooking
<1>12. CASE Reping(h)
  <2>1. /\ hook[h].step = "reping" /\ lock = h /\ SameStates
        /\ UNCHANGED <<config, metadata, socket, lease, faults, lapses>>
        /\ \/ Found(h, None, "ask") /\ lock' = None
           \/ GoTo(h, "identify") /\ lock' = lock
    BY <1>1, <1>3, <1>4, <1>12 DEF Reping
  <2> QED BY <2>1, <1>1, <1>9, <1>10
<1>13. CASE Identify(h)
  <2>1. /\ hook[h].step = "identify" /\ lock = h /\ SameStates
        /\ UNCHANGED <<config, metadata, socket, lock, lease, faults>>
        /\ lapses' = Overlooking(m)
    BY <1>1, <1>3, <1>4, <1>13 DEF Identify, m
  <2>2. CASE ProcessMatches(m)
    <3>1. PICK step \in {"terminate", "wait", "grace"} : GoTo(h, step)
      BY <2>2, <1>13 DEF Identify, m
    <3>2. lapses' = lapses
      BY <2>1, <2>2 DEF Overlooking
    <3> QED BY <2>1, <3>1, <3>2, <1>1, <1>9
  <2>3. CASE ~ProcessMatches(m)
    <3>1. GoTo(h, "clear")
      BY <2>3, <1>13 DEF Identify, m
    <3>2. Moved(h, "clear", m, hook[h].setting)
      BY <3>1, <1>0, <1>1, GoToMoves DEF m
    <3> QED BY <2>1, <2>3, <3>2, <1>1, <1>11, <1>overlooked
  <2> QED BY <2>2, <2>3
<1>14. CASE Poll(h) \/ Retry(h)
  <2>1. PICK step \in {"ready", "wait", "grace", "await"} : GoTo(h, step)
    BY <1>14 DEF Poll, Retry
  <2>2. /\ hook[h].step \in {"wait", "grace", "await"} /\ SameStates
        /\ UNCHANGED <<config, metadata, socket, lock, lease, faults, lapses>>
    BY <1>3, <1>14 DEF Poll, Retry
  <2> QED BY <2>1, <2>2, <1>1, <1>4, <1>9
<1>15. CASE Expire(h)
  <2> DEFINE next == CASE hook[h].step = "wait" -> "grace"
                       [] hook[h].step = "grace" -> "terminate"
                       [] OTHER -> "abort"
  <2>1. /\ hook[h].step \in {"wait", "grace", "await"} /\ GoTo(h, next) /\ SameStates
        /\ UNCHANGED <<config, metadata, socket, lock, lease, faults, lapses>>
    BY <1>3, <1>15 DEF Expire
  <2>2. next \in Facing /\ lock = h /\ hook[h].step \in Facing \ {"reread"}
    BY <2>1, <1>1, <1>4
  <2> HIDE DEF next
  <2> QED BY <2>1, <2>2, <1>9
<1>16. CASE Ready(h)
  <2>1. /\ hook[h].step = "ready" /\ lock = h /\ SameStates
        /\ UNCHANGED <<config, metadata, socket, lease, faults, lapses>>
    BY <1>1, <1>3, <1>4, <1>16 DEF Ready
  <2>2. CASE metadata # None /\ Found(h, metadata, "mark") /\ lock' = lock
    <3>1. Moved(h, "mark", metadata, hook[h].setting) /\ metadata \in Metadata
      BY <2>2, <1>0, <1>1, <1>6, FoundMoves
    <3>2. \A d \in Daemon : AccountedFor(d) => Accounts("mark", metadata, d)
      BY <2>1, <1>1, <1>5 DEF Accounts
    <3> QED BY <2>1, <2>2, <3>1, <3>2, <1>1, <1>2, <1>4, <1>6, InsideStep
  <2>3. CASE Found(h, None, "ask") /\ lock' = None
    BY <2>1, <2>3, <1>1, <1>10
  <2> QED BY <2>2, <2>3, <1>16 DEF Ready
<1>17. CASE Mark(h)
  <2> DEFINE w == [m EXCEPT !.status = "ready"]
  <2>1. /\ hook[h].step = "mark" /\ lock = h /\ lock' = None /\ metadata' = w
        /\ Found(h, None, "ask") /\ SameStates
        /\ UNCHANGED <<config, socket, lease, faults, lapses>>
    BY <1>1, <1>3, <1>4, <1>17 DEF Mark, m
  <2>2. w \in Metadata /\ w.daemon = m.daemon /\ w # None
    <3>1. m \in Metadata
      BY <2>1, <1>1, <1>6
    <3> QED BY <3>1, NoneIsNoMetadata DEF Metadata
  <2> HIDE DEF w
  <2>3. Moved(h, "ask", None, hook[h].setting)
    BY <2>1, <1>0, <1>1, FoundMoves
  <2>4. \A d \in Daemon : AccountedFor(d) => Accounts("ask", None, d)
    BY <2>1, <2>2, <1>1, <1>5 DEF Accounts
  <2> QED BY <2>1, <2>2, <2>3, <2>4, <1>1, <1>2, <1>4, InsideStep
<1>18. ASSUME lock = h, hook[h].step \in Alone, NEW d \in Daemon PROVE ~AccountedFor(d)
  BY <1>18, <1>5
<1>19. CASE Exited(h)
  <2>1. /\ hook[h].step = "exit" /\ lock = h
        /\ UNCHANGED <<config, metadata, socket, lease, faults, lapses>>
    BY <1>1, <1>4, <1>19 DEF Exited
  <2>2. CASE EndHook(h) /\ lock' = None
    <3>1. Moved(h, "new", None, Default) /\ SameStates
      BY <2>2, <1>0, EndHookMoves
    <3>2. \A d \in Daemon : ~AccountedFor(d)
      BY <2>1, <1>1, <1>18
    <3> QED BY <2>1, <2>2, <3>1, <3>2, <1>1, <1>2, <1>6, SettingAssumption, InsideStep
  <2>3. CASE GoTo(h, "clear") /\ UNCHANGED <<daemon, lock>>
    <3>1. Moved(h, "clear", m, hook[h].setting)
      BY <2>3, <1>0, <1>1, GoToMoves DEF m
    <3> QED BY <2>1, <2>3, <3>1, <1>1, <1>3, <1>11, <1>18
  <2> QED BY <2>2, <2>3, <1>19 DEF Exited
<1>20. CASE Clear(h)
  <2>1. /\ hook[h].step = "clear" /\ lock = h /\ metadata' = None /\ Found(h, None, "clean")
        /\ UNCHANGED <<config, socket, lock, lease, faults, lapses>> /\ SameStates
    BY <1>1, <1>3, <1>4, <1>20 DEF Clear
  <2>2. Moved(h, "clean", None, hook[h].setting)
    BY <2>1, <1>0, <1>1, FoundMoves
  <2> QED BY <2>1, <2>2, <1>1, <1>11, <1>18
<1>21. CASE Record(h)
  <2>1. /\ hook[h].step = "record" /\ lock = h /\ metadata' = m /\ GoTo(h, "await")
        /\ UNCHANGED <<config, socket, lock, lease, faults, lapses>> /\ SameStates
    BY <1>1, <1>3, <1>4, <1>21 DEF Record, m
  <2>2. Moved(h, "await", m, hook[h].setting) /\ m \in Metadata /\ m # None
    BY <2>1, <1>0, <1>1, <1>6, NoneIsNoMetadata, GoToMoves DEF m
  <2>3. \A d \in Daemon : AccountedFor(d) => Accounts("await", m, d)
    BY <2>1, <2>2, <1>1, <1>5 DEF Accounts
  <2> QED BY <2>1, <2>2, <2>3, <1>1, <1>2, <1>4, InsideStep
<1>22. CASE Forget(h)
  <2>1. /\ hook[h].step = "forget" /\ lock = h /\ metadata' = None /\ GoTo(h, "unlink")
        /\ UNCHANGED <<config, socket, lock, lease, faults, lapses>> /\ SameStates
    BY <1>1, <1>3, <1>4, <1>22 DEF Forget
  <2>2. Moved(h, "unlink", m, hook[h].setting)
    BY <2>1, <1>0, <1>1, GoToMoves DEF m
  <2> QED BY <2>1, <2>2, <1>1, <1>11, <1>18
<1>23. CASE (Terminate(h) \/ Abort(h)) /\ ~ProcessMatches(m)
  <2>1. PICK step \in {"clear", "forget"} : GoTo(h, step)
    BY <1>23 DEF Terminate, Abort, m
  <2>2. /\ hook[h].step \in {"terminate", "abort"} /\ lapses' = Overlooking(m)
        /\ UNCHANGED <<config, metadata, socket, lock, lease, daemon, faults>>
    BY <1>23 DEF Terminate, Abort, m
  <2>3. Moved(h, step, m, hook[h].setting)
    BY <2>1, <1>0, <1>1, GoToMoves DEF m
  <2> QED BY <2>2, <2>3, <1>1, <1>3, <1>4, <1>11, <1>23, <1>overlooked
<1> QED BY <1>7, <1>8, <1>12, <1>13, <1>14, <1>15, <1>16, <1>17, <1>19, <1>20, <1>21, <1>22, <1>23 DEF m

-----------------------------------------------------------------------------
(* Steps that start and end daemons, and remove sockets.                   *)

(* Without lapses there is one daemon.                                     *)
LEMMA OneDaemon ==
  ASSUME LifecycleInv, lapses = {}, NEW d \in Daemon, NEW e \in Daemon,
         daemon[d].state \in Live, daemon[e].state \in Live
  PROVE  d = e
<1>1. TypeOK /\ HookInv /\ AccountedFor(d) /\ AccountedFor(e)
  BY DEF LifecycleInv, OneInv
<1>2. CASE lock = None
  BY <1>1, <1>2 DEF AccountedFor
<1>3. CASE lock \in Hook /\ hook[lock].step \in Locked
  <2>1. Locked = Alone \union Facing \union {"record"}
    BY DEF Locked, Alone, Facing
  <2> QED BY <1>1, <1>3, <2>1 DEF AccountedFor
<1> QED BY <1>1, <1>2, <1>3, LockHolder

(* A daemon ends and leaves the others alone.                              *)
LEMMA GoneStep ==
  ASSUME LifecycleInv, NEW d \in Daemon, Became(d, "gone"), lease' = LeaseWithout(d),
         hook' \in [Hook -> HookType], HookInv', OtherTypes', UNCHANGED <<socket, lapses>>,
         \A e \in Daemon :
           lapses = {} /\ daemon[e].state \in Live /\ e # d /\ AccountedFor(e) => AccountedFor(e)'
  PROVE  LifecycleInv'
<1>0. TypeOK /\ LeaseInv /\ OneInv /\ ServingIsReachable
  BY DEF LifecycleInv
<1>1. /\ daemon' \in [Daemon -> DaemonType] /\ daemon'[d].state = "gone"
      /\ \A e \in Daemon : e # d => daemon'[e] = daemon[e]
  BY DEF Became
<1>2. TypeOK'
  BY <1>1 DEF TypeOK, OtherTypes
<1>3. LeaseInv'
  <2> SUFFICES ASSUME NEW e \in Daemon
               PROVE  lease' = e <=> daemon'[e].state \in Holding
    BY DEF LeaseInv
  <2>1. CASE e = d
    BY <2>1, <1>1, ProcessAssumption DEF LeaseWithout, Holding, Listening
  <2>2. CASE e # d
    BY <2>2, <1>0, <1>1, ProcessAssumption DEF LeaseWithout, LeaseInv
  <2> QED BY <2>1, <2>2
<1>4. ServingIsReachable'
  <2> SUFFICES ASSUME lapses = {}, NEW e \in Daemon, daemon'[e].state \in Listening
               PROVE  socket' = e
    BY DEF ServingIsReachable
  <2>1. e # d
    BY <1>1 DEF Listening
  <2> QED BY <2>1, <1>0, <1>1 DEF ServingIsReachable
<1>5. OneInv'
  <2> SUFFICES ASSUME lapses = {}, NEW e \in Daemon, daemon'[e].state \in Live
               PROVE  AccountedFor(e)'
    BY DEF OneInv
  <2>1. e # d
    BY <1>1 DEF Live, Listening
  <2> QED BY <2>1, <1>0, <1>1 DEF OneInv
<1> QED BY <1>2, <1>3, <1>4, <1>5 DEF LifecycleInv

(* The holder of the lock ends the daemon it has found.                    *)
LEMMA EndingSteps ==
  ASSUME LifecycleInv, NEW h \in Hook, Terminate(h) \/ Abort(h),
         ProcessMatches(hook[h].found)
  PROVE  LifecycleInv'
<1>0. TypeOK /\ HookInv /\ OneInv /\ OtherTypes /\ hook[h] \in HookType
  BY DEF LifecycleInv, TypeOK, OtherTypes
<1> DEFINE m == hook[h].found
           d == m.daemon
<1>1. PICK step \in {"exit", "forget"} :
        /\ hook[h].step \in {"terminate", "abort"} /\ GoTo(h, step)
        /\ daemon' = Ended(d) /\ lease' = LeaseWithout(d)
        /\ UNCHANGED <<config, metadata, socket, lock, faults, lapses>>
  BY DEF Terminate, Abort, Overlooking
<1>2. {"exit", "forget", "terminate", "abort"} \subseteq Locked
  BY DEF Locked
<1>3. {"terminate", "abort", "exit"} \subseteq Finding
      /\ {"terminate", "abort"} \subseteq Facing \ {"reread"}
      /\ "forget" \notin Finding /\ {"exit", "forget"} \intersect {"load", "reconcile"} = {}
  BY DEF Finding, Facing
<1>4. lock = h /\ m \in Metadata /\ hook[h].setting \in Setting
  BY <1>0, <1>1, <1>2, <1>3 DEF HookInv
<1>5. d \in Daemon
  BY <1>4 DEF Metadata
<1>6. Moved(h, step, m, hook[h].setting)
  BY <1>0, <1>1, <1>2, GoToMoves
<1> HIDE DEF m, d
<1>7. HookInv'
  BY <1>0, <1>1, <1>2, <1>3, <1>4, <1>6, MoveKeepsHooks
<1>8. OtherTypes'
  BY <1>0, <1>1, <1>5 DEF OtherTypes, LeaseWithout
<1>9. Became(d, "gone")
  BY <1>0, <1>1, <1>5, EndedDoes
<1>10. ASSUME NEW e \in Daemon, AccountedFor(e) PROVE e = d
  <2>1. hook[h].found.daemon = e
    BY <1>1, <1>3, <1>4, <1>10 DEF AccountedFor
  <2> QED BY <2>1 DEF m, d
<1>11. hook' \in [Hook -> HookType]
  BY <1>6 DEF Moved
<1> QED BY <1>1, <1>5, <1>7, <1>8, <1>9, <1>10, <1>11, GoneStep

(* The holder of the lock removes the socket when no daemon runs.          *)
LEMMA SocketSteps ==
  ASSUME LifecycleInv, NEW h \in Hook, Clean(h) \/ Unlink(h)
  PROVE  LifecycleInv'
<1>0. TypeOK /\ HookInv /\ LeaseInv /\ OneInv /\ OtherTypes /\ hook[h] \in HookType
  BY DEF LifecycleInv, TypeOK, OtherTypes
<1>1. /\ hook[h].step \in {"clean", "unlink"} /\ socket' = None
      /\ UNCHANGED <<config, metadata, lease, faults, lapses>>
  BY DEF Clean, Unlink
<1>2. {"clean", "unlink", "spawn"} \subseteq Locked /\ "new" \notin Locked
      /\ {"clean", "unlink"} \subseteq Alone /\ {"spawn", "new"} \intersect Finding = {}
  BY DEF Locked, Alone, Finding, Facing
<1>3. lock = h /\ hook[h].setting \in Setting
  BY <1>0, <1>1, <1>2 DEF HookInv
<1>4. HookInv' /\ SameStates /\ hook' \in [Hook -> HookType] /\ lock' \in {h, None}
  <2>1. CASE Clean(h)
    <3>1. /\ GoTo(h, "spawn") /\ UNCHANGED <<lock, daemon>>
      BY <2>1 DEF Clean
    <3>2. Moved(h, "spawn", hook[h].found, hook[h].setting)
      BY <3>1, <1>0, <1>2, GoToMoves
    <3>3. HookInv'
      BY <3>1, <3>2, <1>0, <1>2, <1>3, MoveKeepsHooks
    <3> QED BY <3>1, <3>2, <3>3, <1>0, <1>3 DEF SameStates, TypeOK, Moved
  <2>2. CASE Unlink(h)
    <3>1. lock' = None /\ EndHook(h)
      BY <2>2 DEF Unlink
    <3>2. Moved(h, "new", None, Default) /\ SameStates
      BY <3>1, <1>0, EndHookMoves
    <3>3. HookInv'
      BY <3>1, <3>2, <1>0, <1>2, <1>3, SettingAssumption, MoveKeepsHooks
    <3> QED BY <3>1, <3>2, <3>3 DEF Moved
  <2> QED BY <2>1, <2>2
<1>5. daemon' \in [Daemon -> DaemonType] /\ \A d \in Daemon : daemon'[d].state = daemon[d].state
  BY <1>4 DEF SameStates
<1>6. TypeOK'
  BY <1>0, <1>1, <1>3, <1>4, <1>5 DEF TypeOK
<1>7. LeaseInv'
  BY <1>0, <1>1, <1>5 DEF LeaseInv
<1>8. lapses = {} => \A d \in Daemon : daemon[d].state \notin Live
  <2>1. \A d \in Daemon : ~AccountedFor(d)
    BY <1>1, <1>2, <1>3 DEF AccountedFor
  <2> QED BY <2>1, <1>0 DEF OneInv
<1>9. OneInv' /\ ServingIsReachable'
  BY <1>1, <1>5, <1>8 DEF OneInv, ServingIsReachable, Live
<1> QED BY <1>4, <1>6, <1>7, <1>9 DEF LifecycleInv

(* The holder of the lock starts a daemon when no other runs.              *)
LEMMA SpawnStep ==
  ASSUME LifecycleInv, NEW h \in Hook, Spawn(h)
  PROVE  LifecycleInv'
<1>0. TypeOK /\ HookInv /\ LeaseInv /\ OneInv /\ ServingIsReachable /\ OtherTypes
      /\ hook[h] \in HookType
  BY DEF LifecycleInv, TypeOK, OtherTypes
<1>1. FreshDaemon \in Daemon /\ Forgotten(FreshDaemon)
  <2>1. \E e \in Daemon : Forgotten(e)
    BY DEF Spawn
  <2> QED BY <2>1 DEF FreshDaemon
<1> DEFINE d == FreshDaemon
           started(marked) == [daemon |-> d, build |-> hook[h].build, status |-> "starting",
                               setting |-> hook[h].setting, marked |-> marked]
           k == [state |-> "creating", parent |-> h, intact |-> TRUE]
<1>2. PICK marked \in BOOLEAN :
        /\ hook[h].step = "spawn" /\ daemon' = [daemon EXCEPT ![d] = k]
        /\ Found(h, started(marked), "record") /\ (faults' = faults \/ Fault)
        /\ UNCHANGED <<config, metadata, socket, lock, lease, lapses>>
  BY DEF Spawn
<1> DEFINE m == started(marked)
<1>3. {"spawn", "record"} \subseteq Locked /\ "spawn" \in Alone /\ "record" \notin Facing \union Alone
  BY DEF Locked, Alone, Facing
<1>4. lock = h /\ hook[h].setting \in Setting
  BY <1>0, <1>2, <1>3 DEF HookInv
<1>5. m \in Metadata /\ m.daemon = d /\ Found(h, m, "record")
  BY <1>0, <1>1, <1>2, <1>4 DEF HookType, Metadata
<1>6. k \in DaemonType /\ k.state = "creating"
  BY DEF DaemonType, Live
<1>7. daemon[d].state \notin Live
  BY <1>1 DEF Forgotten, ProcessAlive
<1>faults. faults' \in 0..MaxFaults
  BY <1>0, <1>2, MaxFaultsAssumption DEF OtherTypes, Fault
<1> HIDE DEF d, m, k
<1>8. Moved(h, "record", m, hook[h].setting)
  BY <1>0, <1>3, <1>5, FoundMoves
<1>9. HookInv'
  BY <1>0, <1>2, <1>3, <1>4, <1>5, <1>8, MoveKeepsHooks
<1>10. /\ daemon' \in [Daemon -> DaemonType] /\ d \in Daemon /\ daemon'[d].state = "creating"
       /\ \A e \in Daemon : e # d => daemon'[e] = daemon[e]
  BY <1>0, <1>1, <1>2, <1>6 DEF TypeOK, d
<1>11. TypeOK'
  BY <1>0, <1>2, <1>8, <1>10, <1>faults DEF TypeOK, Moved
<1>12. LeaseInv'
  <2> SUFFICES ASSUME NEW e \in Daemon
               PROVE  lease' = e <=> daemon'[e].state \in Holding
    BY DEF LeaseInv
  <2>1. lease # d
    BY <1>0, <1>7, <1>10 DEF LeaseInv, Holding, Live
  <2> QED BY <2>1, <1>0, <1>2, <1>10 DEF LeaseInv, Holding, Listening
<1>13. OneInv'
  <2> SUFFICES ASSUME lapses = {}, NEW e \in Daemon, daemon'[e].state \in Live
               PROVE  AccountedFor(e)'
    BY <1>2 DEF OneInv
  <2>1. \A c \in Daemon : daemon[c].state \notin Live
    <3>1. \A c \in Daemon : ~AccountedFor(c)
      BY <1>2, <1>3, <1>4 DEF AccountedFor
    <3> QED BY <3>1, <1>0 DEF OneInv
  <2>2. e = d
    BY <2>1, <1>10
  <2>3. lock' = h
    BY <1>2, <1>4
  <2> QED BY <2>2, <2>3, <1>3, <1>5, <1>8, <1>10, HolderAccounts, ProcessAssumption
<1>14. ServingIsReachable'
  BY <1>0, <1>2, <1>10 DEF ServingIsReachable, Listening
<1> QED BY <1>9, <1>11, <1>12, <1>13, <1>14 DEF LifecycleInv

(* A hook is killed: outside the lock, with the lock, and between the      *)
(* start of a daemon and its record, which is one of the lapses.           *)
LEMMA KillStep ==
  ASSUME LifecycleInv, NEW h \in Hook, Kill(h)
  PROVE  LifecycleInv'
<1>0. TypeOK /\ HookInv /\ OtherTypes /\ hook[h] \in HookType
  BY DEF LifecycleInv, TypeOK, OtherTypes
<1>1. /\ faults' = faults - 1 /\ faults > 0 /\ lock' = ReleasedBy(h) /\ EndHook(h)
      /\ lapses' = IF hook[h].step = "record" THEN lapses \union {"unrecorded"} ELSE lapses
      /\ UNCHANGED <<config, metadata, socket, lease>>
  BY DEF Kill, Fault
<1>2. Moved(h, "new", None, Default) /\ SameStates
  BY <1>0, <1>1, EndHookMoves
<1>3. "new" \in Unlocked /\ "new" \notin Locked /\ "new" \notin Finding \union Facing \union Alone
      /\ Locked = Alone \union Facing \union {"record"} /\ Unlocked \intersect Locked = {}
  BY DEF Unlocked, Locked, Finding, Facing, Alone
<1>4. OtherTypes'
  <2>1. faults' \in 0..MaxFaults
    BY <1>0, <1>1, MaxFaultsAssumption DEF OtherTypes
  <2> QED BY <2>1, <1>0, <1>1 DEF OtherTypes, ReleasedBy
<1>5. CASE hook[h].step \in Unlocked
  <2>1. lock # h
    BY <1>0, <1>3, <1>5 DEF HookInv
  <2>2. lock' = lock /\ lapses' = lapses
    BY <2>1, <1>1, <1>3, <1>5 DEF ReleasedBy
  <2> QED BY <2>2, <1>1, <1>2, <1>3, <1>4, <1>5, SettingAssumption, OutsideStep
<1>6. CASE hook[h].step \in Locked
  <2>1. lock = h /\ lock' = None
    BY <1>0, <1>1, <1>6 DEF HookInv, ReleasedBy
  <2>2. \A d \in Daemon : lapses' = {} /\ AccountedFor(d) => Accounts("new", None, d)
    BY <2>1, <1>1, <1>3, <1>6 DEF AccountedFor, Accounts
  <2>3. lapses' = {} => lapses = {}
    BY <1>1
  <2> QED BY <2>1, <2>2, <2>3, <1>1, <1>2, <1>3, <1>4, SettingAssumption, InsideStep
<1> QED BY <1>0, <1>5, <1>6 DEF HookType

(* What a daemon does, and how it fails, stalls and crashes.               *)
LEMMA DaemonSteps ==
  ASSUME LifecycleInv, NEW d \in Daemon, DaemonStep(d) \/ Fail(d) \/ Stall(d) \/ Crash(d)
  PROVE  LifecycleInv'
<1>0. TypeOK /\ HookInv /\ LeaseInv /\ OneInv /\ ServingIsReachable /\ OtherTypes
  BY DEF LifecycleInv, TypeOK, OtherTypes
<1>1. UNCHANGED <<config, metadata, lock, hook, lapses>>
  BY DEF DaemonStep, Create, AcquireLease, PrepareSocket, Bind, Drain, Fail, Stall, Crash
<1>2. HookInv' /\ hook' \in [Hook -> HookType]
  BY <1>0, <1>1 DEF HookInv, TypeOK
<1>3. \A e \in Daemon : AccountedFor(e) => AccountedFor(e)'
  BY <1>1 DEF AccountedFor
<1>4. ASSUME daemon' = Ended(d), lease' = LeaseWithout(d), UNCHANGED socket, faults' \in 0..MaxFaults
      PROVE  LifecycleInv'
  <2>1. OtherTypes'
    BY <1>0, <1>1, <1>4 DEF OtherTypes, LeaseWithout
  <2>2. Became(d, "gone")
    BY <1>0, <1>4, EndedDoes
  <2> QED BY <2>1, <2>2, <1>1, <1>2, <1>3, <1>4, GoneStep
<1>5. ASSUME NEW state \in Live, Became(d, state), daemon[d].state \in Live,
             faults' \in 0..MaxFaults, socket' \in {socket, d, None},
             lease' \in {lease, d, None},
             LeaseInv', ServingIsReachable'
      PROVE  LifecycleInv'
  <2>1. /\ daemon' \in [Daemon -> DaemonType] /\ daemon'[d].state = state
        /\ \A e \in Daemon : e # d => daemon'[e] = daemon[e]
    BY <1>5 DEF Became
  <2>2. TypeOK'
    BY <2>1, <1>0, <1>1, <1>5 DEF TypeOK
  <2>3. OneInv'
    BY <2>1, <1>0, <1>1, <1>3, <1>5 DEF OneInv
  <2> QED BY <2>2, <2>3, <1>2, <1>5 DEF LifecycleInv
<1>6. /\ Live = {"creating", "created", "leased", "binding", "serving", "stalled", "draining"}
      /\ Holding = {"leased", "binding", "serving", "stalled"}
      /\ Listening = {"serving", "stalled"}
  BY DEF Live, Holding, Listening
<1>7. faults \in 0..MaxFaults /\ (Fault => faults' \in 0..MaxFaults)
  BY <1>0, MaxFaultsAssumption DEF OtherTypes, Fault
<1>8. CASE Create(d)
  <2>1. /\ daemon[d].state = "creating" /\ UNCHANGED <<socket, lease, faults>>
        /\ Become(d, "created") \/ Become(d, "gone")
    BY <1>8 DEF Create
  <2>2. lease # d
    BY <2>1, <1>0, <1>6 DEF LeaseInv
  <2>3. CASE Become(d, "gone")
    BY <2>1, <2>2, <2>3, <1>4, <1>7 DEF Become, Ended, LeaseWithout
  <2>4. CASE Become(d, "created")
    <3>1. Became(d, "created")
      BY <2>4, <1>0, <1>6, BecomeDoes
    <3>2. LeaseInv' /\ ServingIsReachable'
      BY <2>1, <2>2, <3>1, <1>0, <1>1, <1>6 DEF Became, LeaseInv, ServingIsReachable
    <3> QED BY <2>1, <3>1, <3>2, <1>5, <1>6, <1>7
  <2> QED BY <2>1, <2>3, <2>4
<1>9. CASE AcquireLease(d)
  <2>1. /\ daemon[d].state = "created" /\ UNCHANGED <<socket, faults>>
        /\ \/ lease = None /\ lease' = d /\ Become(d, "leased")
           \/ Become(d, "gone") /\ lease' = lease
    BY <1>9 DEF AcquireLease
  <2>2. lease # d
    BY <2>1, <1>0, <1>6 DEF LeaseInv
  <2>3. CASE Become(d, "gone") /\ lease' = lease
    BY <2>1, <2>2, <2>3, <1>4, <1>7 DEF Become, Ended, LeaseWithout
  <2>4. CASE lease = None /\ lease' = d /\ Become(d, "leased")
    <3>1. Became(d, "leased")
      BY <2>4, <1>0, <1>6, BecomeDoes
    <3>2. LeaseInv'
      <4>1. \A e \in Daemon : daemon[e].state \notin Holding
        BY <2>4, <1>0, ProcessAssumption DEF LeaseInv
      <4> QED BY <4>1, <2>4, <3>1, <1>6 DEF Became, LeaseInv
    <3>3. ServingIsReachable'
      BY <2>1, <3>1, <1>0, <1>1, <1>6 DEF Became, ServingIsReachable
    <3> QED BY <2>1, <2>4, <3>1, <3>2, <3>3, <1>5, <1>6, <1>7
  <2> QED BY <2>1, <2>3, <2>4
<1>10. CASE PrepareSocket(d)
  <2>1. /\ daemon[d].state = "leased" /\ socket' = None /\ Become(d, "binding")
        /\ UNCHANGED <<lease, faults>>
    BY <1>10 DEF PrepareSocket
  <2>2. Became(d, "binding")
    BY <2>1, <1>0, <1>6, BecomeDoes
  <2>3. LeaseInv'
    BY <2>1, <2>2, <1>0, <1>6 DEF Became, LeaseInv
  <2>4. \A e \in Daemon : daemon'[e].state \notin Listening
    <3>1. \A e \in Daemon : e # d => daemon[e].state \notin Listening
      BY <2>1, <1>0, <1>6 DEF LeaseInv
    <3> QED BY <3>1, <2>2, <1>6 DEF Became
  <2>5. ServingIsReachable'
    BY <2>4 DEF ServingIsReachable
  <2> QED BY <2>1, <2>2, <2>3, <2>5, <1>5, <1>6, <1>7
<1>11. CASE Bind(d)
  <2>1. daemon[d].state = "binding" /\ UNCHANGED faults
    BY <1>11 DEF Bind
  <2>2. CASE daemon' = Ended(d) /\ lease' = LeaseWithout(d) /\ socket' = socket
    BY <2>1, <2>2, <1>4, <1>7
  <2>3. CASE socket' = d /\ Become(d, "serving") /\ lease' = lease
    <3>1. Became(d, "serving")
      BY <2>3, <1>0, <1>6, BecomeDoes
    <3>2. LeaseInv'
      BY <2>1, <2>3, <3>1, <1>0, <1>6 DEF Became, LeaseInv
    <3>3. \A e \in Daemon : daemon'[e].state \in Listening => e = d
      BY <2>1, <3>1, <1>0, <1>6 DEF Became, LeaseInv
    <3>4. ServingIsReachable'
      BY <2>3, <3>3 DEF ServingIsReachable
    <3> QED BY <2>1, <2>3, <3>1, <3>2, <3>4, <1>5, <1>6, <1>7
  <2> QED BY <2>2, <2>3, <1>11 DEF Bind
<1>12. CASE Fail(d)
  <2>1. /\ daemon[d].state = "serving" /\ Fault /\ Become(d, "draining")
        /\ lease' = LeaseWithout(d) /\ UNCHANGED socket
    BY <1>12 DEF Fail
  <2>2. Became(d, "draining")
    BY <2>1, <1>0, <1>6, BecomeDoes
  <2>3. LeaseInv'
    BY <2>1, <2>2, <1>0, <1>6, ProcessAssumption DEF Became, LeaseInv, LeaseWithout
  <2>4. ServingIsReachable'
    BY <2>1, <2>2, <1>0, <1>1, <1>6 DEF Became, ServingIsReachable
  <2>5. lease' \in {lease, None}
    BY <2>1 DEF LeaseWithout
  <2> QED BY <2>1, <2>2, <2>3, <2>4, <2>5, <1>5, <1>6, <1>7
<1>13. CASE Drain(d)
  <2>1. /\ daemon[d].state = "draining" /\ Become(d, "gone")
        /\ UNCHANGED <<socket, lease, faults>>
    BY <1>13 DEF Drain
  <2>2. lease # d
    BY <2>1, <1>0, <1>6 DEF LeaseInv
  <2> QED BY <2>1, <2>2, <1>4, <1>7 DEF Become, Ended, LeaseWithout
<1>14. CASE Stall(d)
  <2>1. /\ daemon[d].state = "serving" /\ Fault /\ Become(d, "stalled")
        /\ UNCHANGED <<socket, lease>>
    BY <1>14 DEF Stall
  <2>2. Became(d, "stalled")
    BY <2>1, <1>0, <1>6, BecomeDoes
  <2>3. LeaseInv' /\ ServingIsReachable'
    BY <2>1, <2>2, <1>0, <1>1, <1>6 DEF Became, LeaseInv, ServingIsReachable
  <2> QED BY <2>1, <2>2, <2>3, <1>5, <1>6, <1>7
<1>15. CASE Crash(d)
  BY <1>4, <1>7, <1>15 DEF Crash
<1> QED BY <1>8, <1>9, <1>10, <1>11, <1>12, <1>13, <1>14, <1>15 DEF DaemonStep

(* A hook connects to the daemon that listens: only its peer changes.      *)
LEMMA ConnectStep ==
  ASSUME LifecycleInv, NEW h \in Hook, Connect(h)
  PROVE  LifecycleInv'
<1>0. TypeOK /\ HookInv /\ LeaseInv /\ OneInv /\ ServingIsReachable
  BY DEF LifecycleInv
<1> DEFINE k == [hook[h] EXCEPT !.peer = socket]
<1>1. /\ hook' = [hook EXCEPT ![h] = k] /\ socket # None
      /\ UNCHANGED <<config, metadata, socket, lock, lease, daemon, faults, lapses>>
  BY DEF Connect
<1>2. hook[h] \in HookType /\ hook \in [Hook -> HookType] /\ socket \in Daemon
  BY <1>0, <1>1 DEF TypeOK
<1>3. k \in HookType /\ k.step = hook[h].step /\ k.found = hook[h].found
      /\ k.setting = hook[h].setting
  BY <1>2 DEF HookType
<1> HIDE DEF k
<1>4. /\ hook' \in [Hook -> HookType]
      /\ \A g \in Hook : /\ hook'[g].step = hook[g].step /\ hook'[g].found = hook[g].found
                          /\ hook'[g].setting = hook[g].setting
  BY <1>1, <1>2, <1>3
<1>5. TypeOK'
  BY <1>0, <1>1, <1>4 DEF TypeOK
<1>6. HookInv' /\ \A d \in Daemon : AccountedFor(d) => AccountedFor(d)'
  BY <1>0, <1>1, <1>4 DEF HookInv, AccountedFor
<1>7. OneInv' /\ LeaseInv' /\ ServingIsReachable'
  BY <1>0, <1>1, <1>6 DEF OneInv, LeaseInv, ServingIsReachable
<1> QED BY <1>5, <1>6, <1>7 DEF LifecycleInv

(* Another executable is put in the place of some daemons' own: their      *)
(* states stay.                                                            *)
LEMMA InstallStep ==
  ASSUME LifecycleInv, Install
  PROVE  LifecycleInv'
<1>0. TypeOK /\ HookInv
  BY DEF LifecycleInv
<1>1. UNCHANGED <<config, metadata, socket, lock, lease, hook, lapses>> /\ Fault
  BY DEF Install
<1>2. PICK S \in SUBSET Daemon :
        daemon' = [d \in Daemon |-> [daemon[d] EXCEPT !.intact = @ /\ d \notin S]]
  BY DEF Install
<1>3. ASSUME NEW d \in Daemon
      PROVE  daemon'[d] \in DaemonType /\ daemon'[d].state = daemon[d].state
  <2> DEFINE intact == daemon[d].intact /\ d \notin S
             k == [daemon[d] EXCEPT !.intact = intact]
  <2>1. intact \in BOOLEAN /\ daemon[d] \in DaemonType
    BY <1>0 DEF TypeOK, DaemonType
  <2>2. daemon'[d] = k
    BY <1>2
  <2> HIDE DEF intact
  <2>3. k \in DaemonType /\ k.state = daemon[d].state
    BY <2>1 DEF DaemonType
  <2> QED BY <2>2, <2>3
<1>4. SameStates
  BY <1>2, <1>3 DEF SameStates
<1>5. OtherTypes' /\ hook' \in [Hook -> HookType]
  BY <1>0, <1>1, MaxFaultsAssumption DEF TypeOK, OtherTypes, Fault
<1>6. HookInv' /\ \A d \in Daemon : AccountedFor(d) => AccountedFor(d)'
  BY <1>0, <1>1 DEF HookInv, AccountedFor
<1> QED BY <1>1, <1>4, <1>5, <1>6, QuietStep

(* The configuration is edited.                                            *)
LEMMA EditStep ==
  ASSUME LifecycleInv, Edit
  PROVE  LifecycleInv'
<1>0. TypeOK /\ HookInv /\ LeaseInv /\ OneInv /\ ServingIsReachable
  BY DEF LifecycleInv
<1>1. UNCHANGED <<metadata, socket, lock, lease, hook, daemon, lapses>>
  BY DEF Edit
<1>2. config' \in [ConfigFile -> Setting \union {Broken}] /\ faults' \in 0..MaxFaults
  BY <1>0, MaxFaultsAssumption DEF Edit, Fault, TypeOK
<1> QED BY <1>0, <1>1, <1>2 DEF LifecycleInv, TypeOK, HookInv, LeaseInv, OneInv, AccountedFor,
                                ServingIsReachable

-----------------------------------------------------------------------------
(* The theorems.                                                           *)

(* The invariant holds initially.                                          *)
LEMMA InitInv == Init => LifecycleInv
<1> SUFFICES ASSUME Init PROVE LifecycleInv
  OBVIOUS
<1>1. /\ config = [f \in ConfigFile |-> Default] /\ metadata = None /\ socket = None
      /\ lock = None /\ lease = None
      /\ faults = MaxFaults /\ lapses = {}
      /\ hook \in [Hook -> [step : {"new"}, build : Build, setting : {Default},
                            found : {None}, peer : {None}]]
      /\ daemon = [d \in Daemon |-> [state |-> "gone", parent |-> None, intact |-> TRUE]]
  BY DEF Init
<1>2. hook \in [Hook -> HookType]
  <2>1. [step : {"new"}, build : Build, setting : {Default}, found : {None}, peer : {None}]
          \subseteq HookType
    BY SettingAssumption DEF HookType, Unlocked
  <2> QED BY <2>1, <1>1
<1>3. daemon \in [Daemon -> DaemonType]
  <2>1. [state |-> "gone", parent |-> None, intact |-> TRUE] \in DaemonType
    BY DEF DaemonType
  <2> QED BY <2>1, <1>1
<1>4. TypeOK
  <2>1. config \in [ConfigFile -> Setting \union {Broken}]
    BY <1>1, SettingAssumption
  <2>2. faults \in 0..MaxFaults
    BY <1>1, MaxFaultsAssumption
  <2> QED BY <1>1, <1>2, <1>3, <2>1, <2>2 DEF TypeOK
<1>5. HookInv
  <2>1. \A h \in Hook : hook[h].step = "new" /\ hook[h].setting = Default
    BY <1>1
  <2> QED BY <2>1, <1>1, ProcessAssumption, SettingAssumption DEF HookInv, Locked, Finding, Facing
<1>6. LeaseInv /\ OneInv /\ ServingIsReachable
  BY <1>1, ProcessAssumption DEF LeaseInv, OneInv, ServingIsReachable, Live, Holding, Listening
<1> QED BY <1>4, <1>5, <1>6 DEF LifecycleInv

(* Every step keeps the invariant, and so does every stutter.              *)
LEMMA StepInv == LifecycleInv /\ [Next]_vars => LifecycleInv'
<1> SUFFICES ASSUME LifecycleInv, [Next]_vars PROVE LifecycleInv'
  OBVIOUS
<1>1. ASSUME NEW h \in Hook, Begin(h) \/ HookStep(h) \/ Lock(h) \/ Expire(h) PROVE LifecycleInv'
  <2>1. CASE Begin(h) \/ Load(h) \/ Reconcile(h) \/ Read(h) \/ Ping(h) \/ Ask(h)
    BY <2>1, OutsideSteps
  <2>2. CASE Terminate(h) \/ Abort(h)
    BY <2>2, EndingSteps, InsideSteps
  <2>3. CASE Clean(h) \/ Unlink(h)
    BY <2>3, SocketSteps
  <2>4. CASE Spawn(h)
    BY <2>4, SpawnStep
  <2>6. CASE Connect(h)
    BY <2>6, ConnectStep
  <2>5. CASE \/ Lock(h) \/ Reread(h) \/ Reping(h) \/ Identify(h) \/ Poll(h) \/ Retry(h)
             \/ Expire(h) \/ Ready(h) \/ Mark(h) \/ Exited(h) \/ Clear(h) \/ Record(h) \/ Forget(h)
    BY <2>5, InsideSteps
  <2> QED BY <1>1, <2>1, <2>2, <2>3, <2>4, <2>5, <2>6 DEF HookStep, Exclusive
<1>2. CASE UNCHANGED vars
  <2>1. \A d \in Daemon : AccountedFor(d) => AccountedFor(d)'
    BY <1>2 DEF vars, AccountedFor
  <2> QED BY <1>2, <2>1 DEF vars, LifecycleInv, TypeOK, HookInv, LeaseInv, OneInv, ServingIsReachable
<1> QED BY <1>1, <1>2, KillStep, DaemonSteps, InstallStep, EditStep DEF Next

(* The invariant holds in every state.                                     *)
THEOREM LifecycleCorrect == Spec => []LifecycleInv
<1> QED BY InitInv, StepInv, PTL DEF Spec

(* Every variable keeps its type.                                          *)
THEOREM LifecycleTypeCorrect == Spec => []TypeOK
<1>1. LifecycleInv => TypeOK
  BY DEF LifecycleInv
<1> QED BY <1>1, LifecycleCorrect, PTL

(* ensure_daemon: without a lapse, the next hook finds the daemon that     *)
(* runs in the metadata.                                                   *)
THEOREM NoDaemonIsLostHolds == Spec => []NoDaemonIsLost
<1>1. LifecycleInv => NoDaemonIsLost
  BY DEF LifecycleInv, OneInv, NoDaemonIsLost, AccountedFor
<1> QED BY <1>1, LifecycleCorrect, PTL

(* start_daemon: without a lapse, the daemon that is started does not      *)
(* meet another one, not even one that has given up its lease.             *)
THEOREM DaemonsDoNotOverlapHolds == Spec => []DaemonsDoNotOverlap
<1>1. LifecycleInv => DaemonsDoNotOverlap
  BY OneDaemon DEF DaemonsDoNotOverlap
<1> QED BY <1>1, LifecycleCorrect, PTL

(* remove_stale_socket: without a lapse, no daemon that listens loses its  *)
(* socket.                                                                 *)
THEOREM ServingIsReachableHolds == Spec => []ServingIsReachable
<1>1. LifecycleInv => ServingIsReachable
  BY DEF LifecycleInv
<1> QED BY <1>1, LifecycleCorrect, PTL
=============================================================================
