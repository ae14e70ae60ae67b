--------------------------- MODULE SessionHistory ---------------------------
(***************************************************************************)
(* One session across checks, reconciliations, kills and restarts: what is *)
(* believed in memory, and the events from which the next daemon restores  *)
(* it.  SessionPipeline models how the events reach the disk; here they do *)
(* so one after the other, and checkpoints follow at any distance.         *)
(***************************************************************************)
EXTENDS SessionState

CONSTANTS
  Command,         \* the commands that are checked
  Report,          \* the shell states that are reported with them
  ClientDelta,     \* the shell state deltas a client sends of its own
  Kills,           \* can the daemon be killed?
  MaxEvents        \* bound: the events of the session

ASSUME CommandAssumption == Command \subseteq CommandType /\ NoCommand \notin Command
ASSUME ReportAssumption == Report \subseteq ReportType
ASSUME ClientDeltaAssumption ==  \* clients report what they observe, they predict nothing
  ClientDelta \subseteq
    Seq(Mutation \ ({Anchor} \union {SetCwd(d, "static") : d \in Directory}))
ASSUME KillsAssumption == Kills \in BOOLEAN
ASSUME MaxEventsAssumption == MaxEvents \in Nat

VARIABLES
  phase,    \* of the daemon: serving, ending after an error, down
  error,    \* the operation in which the last request failed, or "none"
  loaded,   \* does the daemon hold the session?
  session,  \* the SessionState of the daemon
  queue,    \* events sent to the log worker and not appended yet
  log,      \* the session's events on disk, the compacted ones included
  covered,  \* how many of them the snapshot covers
  known     \* does the checkpoint worker hold the session?

vars == <<phase, error, loaded, session, queue, log, covered, known>>

Phase == {"down", "serving", "ending"}

(* The failures of a request; check and delta are those of the core's      *)
(* try_check_with_outcome and apply_shell_state_delta.                     *)
Failure == {"restore", "prepare", "check", "delta"}

CheckEvent(n, command, report, allowed) ==
  [kind |-> "check", seq |-> n, command |-> command, report |-> report,
   allowed |-> allowed,
   mutations |-> IF allowed THEN CommandMutations(command, report) ELSE <<>>]

(* Deliberately wrong: a reconciliation gets the number of the command that *)
(* it precedes. *)
DeltaEvent_NextNumber(n, mutations) ==
  [kind |-> "delta", seq |-> n + 1, mutations |-> mutations]

DeltaEvent(n, mutations) == [kind |-> "delta", seq |-> n, mutations |-> mutations]

-----------------------------------------------------------------------------
(***************************************************************************)
(* Restoring.                                                              *)
(***************************************************************************)
Applicable(state, event) ==
  \/ event.kind = "check" /\ ~event.allowed
  \/ /\ event.kind = "check"
     /\ event.allowed
     /\ Committable(state, event.mutations, event.seq)
  \/ event.kind = "delta" /\ Observable(state, event.mutations, event.seq)

(* Deliberately wrong: a denied command is committed like an allowed one. *)
ApplyStateEffect_CommitsAll(state, event) ==
  IF event.kind = "delta"
    THEN CommitObserved(state, event.mutations, event.seq)
    ELSE CommitAllowedRequest(state, CommandMutations(event.command, event.report),
                              event.command, event.report, event.seq)

ApplyStateEffect(state, event) ==
  CASE event.kind = "delta" ->
         CommitObserved(state, event.mutations, event.seq)
    [] event.kind = "check" /\ event.allowed ->
         CommitAllowedRequest(state, event.mutations, event.command, event.report,
                              event.seq)
    [] OTHER -> ObserveRequest(state, event.report, event.seq)

(* The state after the events, and whether all of them could be applied.    *)
ApplyIfPossible(before, event) ==
  IF before.ok /\ Applicable(before.state, event)
    THEN [ok |-> TRUE, state |-> ApplyStateEffect(before.state, event)]
    ELSE [before EXCEPT !.ok = FALSE]

Replay(events) ==
  LET after[i \in 0..Len(events)] ==
        IF i = 0
          THEN [ok |-> TRUE, state |-> NewSession]
          ELSE ApplyIfPossible(after[i - 1], events[i])
  IN  after[Len(events)]

(* validate_restore_tail: no two events of one kind with one number.       *)
ValidTail(events) ==
  \A i, j \in DOMAIN events :
    i # j => <<events[i].kind, events[i].seq>> # <<events[j].kind, events[j].seq>>

Restorable ==
  /\ ValidTail(SubSeq(log, covered + 1, Len(log)))
  /\ Replay(log).ok

(* The session as the next request finds it.                               *)
Current == IF loaded THEN session ELSE Replay(log).state

-----------------------------------------------------------------------------
Init ==
  /\ phase = "down"
  /\ error = "none"
  /\ loaded = FALSE
  /\ session = NewSession
  /\ queue = <<>>
  /\ log = <<>>
  /\ covered = 0
  /\ known = FALSE

Start ==
  /\ phase = "down"
  /\ phase' = "serving"
  /\ error' = "none"
  /\ known' = FALSE
  /\ UNCHANGED <<loaded, session, queue, log, covered>>

(* An error of a request ends the daemon.                                  *)
Fail(failure) ==
  /\ phase' = "ending"
  /\ error' = failure
  /\ loaded' = FALSE
  /\ session' = NewSession
  /\ UNCHANGED <<queue, log, covered, known>>

(* Dropping the runtime waits until the events sent are appended; the last *)
(* snapshot of the checkpoint worker may be written before that is over.   *)
End ==
  /\ phase = "ending"
  /\ queue = <<>>
  /\ phase' = "down"
  /\ UNCHANGED <<error, loaded, session, queue, log, covered, known>>

Ready ==
  /\ phase = "serving"
  /\ ~loaded => Restorable

Answer(state, events) ==
  /\ Len(log) + Len(queue) + Len(events) <= MaxEvents
  /\ loaded' = TRUE
  /\ session' = state
  /\ queue' = queue \o events
  /\ UNCHANGED <<phase, error, log, covered, known>>

RestoreFails ==
  /\ phase = "serving"
  /\ ~loaded
  /\ ~Restorable
  /\ Fail("restore")

(* handle_runtime_request: the session is reconciled at the number of the  *)
(* previous command and the command checked at the next, and only then are *)
(* the two events sent.                                                    *)
Preparable(before, delta) ==
  delta # <<>> => Observable(before, delta, before.summary.last)

Reconciled(before, delta) ==
  IF delta = <<>> THEN before ELSE CommitObserved(before, delta, before.summary.last)

PrepareFails(report) ==
  /\ Ready
  /\ LET before == Current
     IN  ~Preparable(before, Reconciliation(before, report))
  /\ Fail("prepare")

Check(report) ==
  /\ Ready
  /\ LET before == Current
         delta == Reconciliation(before, report)
         state == Reconciled(before, delta)
         n == NextSequenceNo(state)
     IN  /\ Preparable(before, delta)
         /\ n <= MaxSequence
         /\ \E command \in Command, allowed \in BOOLEAN :
              LET event == CheckEvent(n, command, report, allowed)
              IN  IF Applicable(state, event)
                    THEN Answer(ApplyStateEffect(state, event),
                           IF delta = <<>>
                             THEN <<event>>
                             ELSE <<DeltaEvent(before.summary.last, delta), event>>)
                    ELSE Fail("check")

(* handle_shell_state_delta_request: the client names the number of the    *)
(* command.                                                                *)
ShellStateDelta(n, delta) ==
  /\ Ready
  /\ LET before == Current
     IN  IF Observable(before, delta, n)
           THEN Answer(CommitObserved(before, delta, n), <<DeltaEvent(n, delta)>>)
           ELSE Fail("delta")

AppendEvent ==
  /\ queue # <<>>
  /\ log' = Append(log, Head(queue))
  /\ queue' = Tail(queue)
  /\ UNCHANGED <<phase, error, loaded, session, covered, known>>

(* The checkpoint worker updates its state of the session, which it has to *)
(* restore first, and may be due to write a snapshot.  Once it holds the   *)
(* session it does not look for duplicates.                                *)
CheckpointUpdate ==
  /\ phase # "down"
  /\ covered < Len(log)
  /\ ~known => Restorable
  /\ known' = TRUE
  /\ covered' \in {covered, Len(log)}
  /\ UNCHANGED <<phase, error, loaded, session, queue, log>>

Kill ==
  /\ Kills
  /\ phase # "down"
  /\ phase' = "down"
  /\ error' = "none"
  /\ loaded' = FALSE
  /\ session' = NewSession
  /\ queue' = <<>>
  /\ known' = FALSE
  /\ UNCHANGED <<log, covered>>

Next ==
  \/ Start
  \/ End
  \/ RestoreFails
  \/ \E report \in Report : PrepareFails(report) \/ Check(report)
  \/ \E n \in 1..MaxSequence, delta \in ClientDelta : ShellStateDelta(n, delta)
  \/ AppendEvent
  \/ CheckpointUpdate
  \/ Kill

Spec == Init /\ [][Next]_vars
=============================================================================
