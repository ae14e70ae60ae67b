---------------------- MODULE DaemonLifecycleProperties ----------------------
(***************************************************************************)
(* What the hooks of a workspace may rely on.  Three things lose a daemon, *)
(* and the variable lapses names them: a hook that ends between the spawn  *)
(* and the record (unrecorded), a reconciliation that writes back metadata *)
(* another hook has replaced (overwritten), and a hook that takes the      *)
(* daemon in metadata for another process, because its start marker is not *)
(* known or the file it runs is no longer at its path (unidentified).      *)
(***************************************************************************)
EXTENDS DaemonLifecycle

(* Every variable has its type.                                            *)
TypeOK ==
  /\ config \in [ConfigFile -> Setting \union {Broken}]
  /\ metadata \in Metadata \union {None}
  /\ socket \in Daemon \union {None}
  /\ lock \in Hook \union {None}
  /\ lease \in Daemon \union {None}
  /\ hook \in [Hook -> HookType]
  /\ daemon \in [Daemon -> DaemonType]
  /\ faults \in 0..MaxFaults
  /\ lapses \subseteq {"unrecorded", "overwritten", "unidentified"}

(* While no hook works on it, every daemon that runs is the one metadata   *)
(* names, so that the next hook finds it, waits for it or ends it -        *)
(* unless one of the three lapses has happened.  A hook that gives up      *)
(* leaves no daemon behind that becomes ready later.                       *)
NoDaemonIsLost ==
  (lock = None /\ lapses = {}) =>
    \A d \in Daemon :
      daemon[d].state \in Live => metadata # None /\ metadata.daemon = d

(* A daemon has the store to itself from the start of its process to its   *)
(* end.  The writer lease does not see to that: it is taken after the      *)
(* store was opened and given up before the queues are drained             *)
(* (caushell lib.rs:2109, main.rs:105); the lifecycle lock does, and that  *)
(* no hook goes on before the daemon it replaces is gone.                  *)
DaemonsDoNotOverlap ==
  lapses = {} =>
    \A d, e \in Daemon : daemon[d].state \in Live /\ daemon[e].state \in Live => d = e

(* No hook unlinks the socket of a daemon that listens: it would go on     *)
(* where nobody can reach it, with the lease in its hand.                  *)
ServingIsReachable ==
  lapses = {} => \A d \in Daemon : daemon[d].state \in Listening => socket = d

(* A hook waits for a daemon that has stalled, or for the lock of a hook   *)
(* that does.                                                              *)
Stuck(h) == hook[h].peer # None /\ daemon[hook[h].peer].state = "stalled"
Blocked(h) == Stuck(h) \/ (hook[h].step = "lock" /\ lock # None /\ Stuck(lock))

(* Whoever is killed and however daemons end, a hook is answered, unless   *)
(* it is blocked: no hook waits for ever for the lock, for a daemon that   *)
(* starts, is terminated or drains, or for pings that fail.                *)
HooksEnd == \A h \in Hook : []<>(hook[h].step = "new" \/ Blocked(h))
=============================================================================
