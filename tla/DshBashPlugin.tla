---------------------------- MODULE DshBashPlugin ----------------------------
(***************************************************************************)
(* The plugin of the DeepSeek harness and the adapter processes it runs.   *)
(* Every bash call of the harness is held until the adapter process has    *)
(* answered, and then passed on, put to the user or denied.  The plugin    *)
(* starts the adapter when a call needs it, gives it up (a generation      *)
(* retires) when anything goes wrong, and starts another for a later call. *)
(*                                                                         *)
(* An action is a turn of the plugin's event loop, a step of an adapter    *)
(* process, or one of the harness.  Time is left out: a call may time out  *)
(* as soon as it waits.                                                    *)
(***************************************************************************)
EXTENDS Naturals, Sequences

CONSTANTS
  Call,   \* the bash calls of a run: one execution object each
  Id,     \* request ids; nothing keeps the harness from reusing one
  None

ASSUME NoneAssumption == None \notin Call

Verdict == {"allow", "ask", "deny"}
Answer == Verdict \union {"error", "invalid"}  \* what a line of the adapter says

(* Each call starts at most one generation.                                *)
Generation == Call

VARIABLES
  closed,         \* the plugin has been disposed
  child,          \* the generation that calls are sent to, or None
  starting,       \* the generation whose start calls may join, or None
  pending,        \* the call that waits for an answer to a request id
  call,           \* the calls
  process,        \* the adapter processes
  input,          \* per generation, the requests written and not read
  output,         \* per generation, the lines written and not read
  denied,         \* the executions the guard stops
  failureAction   \* what becomes of calls that cannot be checked

vars == <<closed, child, starting, pending, call, process, input, output, denied,
          failureAction>>

(* A call is held ("starting", "started", "waiting"), passes the listeners *)
(* of the harness ("listeners") and runs, runs approved by the user, or is *)
(* stopped.                                                                *)
CallType == [step : {"new", "starting", "started", "waiting", "listeners",
                     "ran", "approved", "stopped"},
             id : Id \union {None},
             generation : Generation \union {None},
             aborted : BOOLEAN,
             verdict : Verdict \union {None},
             answered : Call \union {None},    \* history: whose answer it was given
             overridden : BOOLEAN]             \* history: by an outer listener

Request == [id : Id, request : Call]
Line == [id : Id, request : Call, answer : Answer]

NewCall == [step |-> "new", id |-> None, generation |-> None, aborted |-> FALSE,
            verdict |-> None, answered |-> None, overridden |-> FALSE]

(* To the plugin a process is forked, spawned and closed.                  *)
ProcessType == [state : {"none", "forked", "spawned", "closed"},
                alive : BOOLEAN, told : BOOLEAN]

-----------------------------------------------------------------------------
Init ==
  /\ closed = FALSE
  /\ child = None
  /\ starting = None
  /\ pending = [i \in Id |-> None]
  /\ call = [c \in Call |-> NewCall]
  /\ process = [g \in Generation |-> [state |-> "none", alive |-> FALSE, told |-> FALSE]]
  /\ input = [g \in Generation |-> <<>>]
  /\ output = [g \in Generation |-> <<>>]
  /\ denied = {}
  /\ failureAction \in Verdict

-----------------------------------------------------------------------------
(***************************************************************************)
(* Settling calls.                                                         *)
(***************************************************************************)
(* Deliberately wrong: the guard is not told of the denials. *)
Settle_Untold(S, verdict, request) ==
  /\ call' = [c \in Call |-> IF c \in S THEN [call[c] EXCEPT !.step = "listeners",
                                                             !.generation = None,
                                                             !.aborted = FALSE,
                                                             !.verdict = verdict,
                                                             !.answered = request]
                                        ELSE call[c]]
  /\ pending' = [i \in Id |-> IF pending[i] \in S THEN None ELSE pending[i]]
  /\ UNCHANGED denied

(* Deliberately wrong: who was decided is still looked up by its id. *)
Settle_Remembered(S, verdict, request) ==
  /\ call' = [c \in Call |-> IF c \in S THEN [call[c] EXCEPT !.step = "listeners",
                                                             !.generation = None,
                                                             !.aborted = FALSE,
                                                             !.verdict = verdict,
                                                             !.answered = request]
                                        ELSE call[c]]
  /\ denied' = IF verdict = "deny" THEN denied \union S ELSE denied
  /\ UNCHANGED pending

(* The checks of the calls in S end with a verdict, given in answer to a   *)
(* request or to none.  A denial is noted before other listeners are asked. *)
Settle(S, verdict, request) ==
  /\ call' = [c \in Call |-> IF c \in S THEN [call[c] EXCEPT !.step = "listeners",
                                                             !.generation = None,
                                                             !.aborted = FALSE,
                                                             !.verdict = verdict,
                                                             !.answered = request]
                                        ELSE call[c]]
  /\ pending' = [i \in Id |-> IF pending[i] \in S THEN None ELSE pending[i]]
  /\ denied' = IF verdict = "deny" THEN denied \union S ELSE denied

(* Calls that could not be checked.                                        *)
Fallback(S) == Settle(S, failureAction, None)

Pending == {pending[i] : i \in Id} \ {None}
PendingOf(g) == {c \in Pending : call[c].generation = g}
Joined(g) == {c \in Call : call[c].step = "starting" /\ call[c].generation = g}

ChildWithout(g) == IF child = g THEN None ELSE child
Terminated(g) == [process EXCEPT ![g].told = @ \/ process[g].alive]

(* Deliberately wrong: the calls that wait for g are forgotten. *)
RetireGeneration_KeepsPending(g, others) ==
  /\ child' = ChildWithout(g)
  /\ Fallback(others)

(* retireGeneration: the waiting calls of g fail, and others with them.    *)
RetireGeneration(g, others) ==
  /\ child' = ChildWithout(g)
  /\ Fallback(PendingOf(g) \union others)

-----------------------------------------------------------------------------
(***************************************************************************)
(* A call reaches the plugin: tools/pre-execute, and check up to its await.*)
(***************************************************************************)
(* Not the ordinary bash tool: denied without a check.                     *)
Unsupported(c) ==
  /\ call[c].step = "new"
  /\ Settle({c}, "deny", None)
  /\ UNCHANGED <<closed, child, starting, process, input, output, failureAction>>

(* No request can be built, the call is already aborted, the plugin is     *)
(* disposed, or spawn throws.                                              *)
Uncheckable(c) ==
  /\ call[c].step = "new"
  /\ Fallback({c})
  /\ UNCHANGED <<closed, child, starting, process, input, output, failureAction>>

Hold(c, i, g, step) ==
  call' = [call EXCEPT ![c].step = step, ![c].id = i, ![c].generation = g]

CheckWithChild(c, i) ==
  /\ call[c].step = "new" /\ ~closed
  /\ child # None
  /\ Hold(c, i, child, "started")
  /\ UNCHANGED <<closed, child, starting, pending, process, input, output, denied,
                 failureAction>>

CheckWhileStarting(c, i) ==
  /\ call[c].step = "new" /\ ~closed
  /\ child = None /\ starting # None
  /\ Hold(c, i, starting, "starting")
  /\ UNCHANGED <<closed, child, starting, pending, process, input, output, denied,
                 failureAction>>

(* The new generation is the child before its start is known.              *)
CheckStarts(c, i) ==
  /\ call[c].step = "new" /\ ~closed
  /\ child = None /\ starting = None
  /\ child' = c
  /\ starting' = c
  /\ process' = [process EXCEPT ![c] = [state |-> "forked", alive |-> TRUE, told |-> FALSE]]
  /\ Hold(c, i, c, "starting")
  /\ UNCHANGED <<closed, pending, input, output, denied, failureAction>>

-----------------------------------------------------------------------------
(***************************************************************************)
(* The events of a process.                                                *)
(***************************************************************************)
StartSettled(g) == IF starting = g THEN None ELSE starting

(* Deliberately wrong: only the call that started it goes on. *)
Spawned_StarterOnly(g) ==
  /\ process[g].state = "forked" /\ ~closed
  /\ process' = [process EXCEPT ![g].state = "spawned"]
  /\ starting' = StartSettled(g)
  /\ call' = [call EXCEPT ![g].step = "started"]
  /\ UNCHANGED <<closed, child, pending, input, output, denied, failureAction>>

(* 'spawn': the calls that joined the start go on.                         *)
Spawned(g) ==
  /\ process[g].state = "forked" /\ ~closed
  /\ process' = [process EXCEPT ![g].state = "spawned"]
  /\ starting' = StartSettled(g)
  /\ call' = [c \in Call |-> IF c \in Joined(g) THEN [call[c] EXCEPT !.step = "started"]
                                                ELSE call[c]]
  /\ UNCHANGED <<closed, child, pending, input, output, denied, failureAction>>

(* 'spawn' after the plugin was disposed.                                  *)
SpawnedDisposed(g) ==
  /\ process[g].state = "forked" /\ closed
  /\ process' = [Terminated(g) EXCEPT ![g].state = "spawned"]
  /\ starting' = StartSettled(g)
  /\ RetireGeneration(g, Joined(g))
  /\ UNCHANGED <<closed, input, output, failureAction>>

(* 'error': there is no process.                                           *)
SpawnFailed(g) ==
  /\ process[g].state = "forked"
  /\ process' = [process EXCEPT ![g].state = "closed", ![g].alive = FALSE]
  /\ starting' = StartSettled(g)
  /\ RetireGeneration(g, Joined(g))
  /\ UNCHANGED <<closed, input, output, failureAction>>

(* 'close': the process has ended and its lines have been read.            *)
Closed(g) ==
  /\ process[g].state = "spawned" /\ ~process[g].alive
  /\ child = g => output[g] = <<>>
  /\ process' = [process EXCEPT ![g].state = "closed"]
  /\ RetireGeneration(g, {})
  /\ UNCHANGED <<closed, starting, input, output, failureAction>>

(* Deliberately wrong: the process is given up and not told to end. *)
WriteFailed_LetsRun(g) ==
  /\ child = g
  /\ RetireGeneration(g, {})
  /\ UNCHANGED <<closed, starting, process, input, output, failureAction>>

(* A write to the process fails; it may have ended or only its input.      *)
WriteFailed(g) ==
  /\ child = g
  /\ process' = Terminated(g)
  /\ RetireGeneration(g, {})
  /\ UNCHANGED <<closed, starting, input, output, failureAction>>

-----------------------------------------------------------------------------
(***************************************************************************)
(* The rest of check.                                                      *)
(***************************************************************************)
Submit(c) ==
  LET i == call[c].id
      g == call[c].generation
  IN  /\ call[c].step = "started"
      /\ IF ~call[c].aborted /\ pending[i] = None /\ child = g
           THEN /\ pending' = [pending EXCEPT ![i] = c]
                /\ call' = [call EXCEPT ![c].step = "waiting"]
                /\ input' = [input EXCEPT ![g] = Append(@, [id |-> i, request |-> c])]
                /\ UNCHANGED denied
           ELSE Fallback({c}) /\ UNCHANGED input
      /\ UNCHANGED <<closed, child, starting, process, output, failureAction>>

(* The process has ended and the plugin does not know it yet.              *)
Unwritable(c) ==
  /\ call[c].step = "started"
  /\ ~process[call[c].generation].alive
  /\ Fallback({c})
  /\ UNCHANGED <<closed, child, starting, process, input, output, failureAction>>

(* The timer of a call, or the abort of a call that waits.                 *)
GiveUp(c) ==
  /\ call[c].step = "waiting"
  /\ process' = Terminated(call[c].generation)
  /\ RetireGeneration(call[c].generation, {})
  /\ UNCHANGED <<closed, starting, input, output, failureAction>>

(* A call that does not wait yet is aborted.                               *)
Abort(c) ==
  /\ call[c].step \in {"starting", "started"}
  /\ call' = [call EXCEPT ![c].aborted = TRUE]
  /\ UNCHANGED <<closed, child, starting, pending, process, input, output, denied,
                 failureAction>>

(* Deliberately wrong: the answer's generation is not looked at. *)
IsAwaited_AnyGeneration(g, line) == pending[line.id] # None

IsAwaited(g, line) ==
  pending[line.id] # None /\ call[pending[line.id]].generation = g

(* Deliberately wrong: the decision is taken for an answer without one. *)
Decision_Unchecked(line) == line.answer

Decision(line) == IF line.answer = "error" THEN failureAction ELSE line.answer

(* handleLine.  Lines of a generation that has retired may still come.     *)
HandleLine(g) ==
  LET line == Head(output[g])
  IN  /\ output[g] # <<>>
      /\ output' = [output EXCEPT ![g] = Tail(@)]
      /\ IF line.answer = "invalid"
           THEN RetireGeneration(g, {}) /\ process' = Terminated(g)
         ELSE IF IsAwaited(g, line)
           THEN /\ Settle({pending[line.id]}, Decision(line), line.request)
                /\ UNCHANGED <<child, process>>
         ELSE UNCHANGED <<call, pending, denied, child, process>>
      /\ UNCHANGED <<closed, starting, input, failureAction>>

(* close *)
Dispose ==
  /\ ~closed
  /\ closed' = TRUE
  /\ child' = None
  /\ process' = IF child = None THEN process ELSE Terminated(child)
  /\ Fallback(Pending)
  /\ UNCHANGED <<starting, input, output, failureAction>>

-----------------------------------------------------------------------------
(***************************************************************************)
(* The adapter process: one request after the other.                       *)
(***************************************************************************)
Reply(g) ==
  /\ process[g].alive /\ input[g] # <<>>
  /\ LET r == Head(input[g])
     IN  \E answer \in Answer :
           output' = [output EXCEPT ![g] = Append(@, [id |-> r.id, request |-> r.request,
                                                      answer |-> answer])]
  /\ input' = [input EXCEPT ![g] = Tail(@)]
  /\ UNCHANGED <<closed, child, starting, pending, call, process, denied, failureAction>>

(* It fails, or was told to end.                                           *)
Exit(g) ==
  /\ process[g].alive
  /\ process' = [process EXCEPT ![g].alive = FALSE]
  /\ UNCHANGED <<closed, child, starting, pending, call, input, output, denied, failureAction>>

-----------------------------------------------------------------------------
(***************************************************************************)
(* The harness: the other listeners, the guards, and the execution.        *)
(***************************************************************************)
(* What the plugin's listener returns when those after it return theirs.   *)
Returned(verdict, downstream) ==
  IF "deny" \in {verdict, downstream} THEN "deny"
  ELSE IF "ask" \in {verdict, downstream} THEN "ask"
  ELSE "allow"

(* A listener placed before the plugin may return something else; then the *)
(* guard of the plugin, and the user for a call that is to be asked.       *)
Proceed(c) ==
  /\ call[c].step = "listeners"
  /\ \E decision \in Verdict :
     \E step \in IF c \in denied \/ decision = "deny" THEN {"stopped"}
                ELSE IF decision = "ask" THEN {"approved", "stopped"}
                ELSE {"ran"} :
     \E overridden \in {step = "ran" /\ decision # Returned(call[c].verdict, downstream) :
                          downstream \in Verdict} :
       call' = [call EXCEPT ![c] =
                  [NewCall EXCEPT
                     !.step = step,
                     !.verdict = IF step = "stopped" THEN None ELSE call[c].verdict,
                     !.overridden = overridden]]
  /\ denied' = denied \ {c}
  /\ UNCHANGED <<closed, child, starting, pending, process, input, output, failureAction>>

-----------------------------------------------------------------------------
Arrive(c) ==
  \/ Unsupported(c) \/ Uncheckable(c)
  \/ \E i \in Id : CheckWithChild(c, i) \/ CheckWhileStarting(c, i) \/ CheckStarts(c, i)

StartEvent(g) == Spawned(g) \/ SpawnedDisposed(g) \/ SpawnFailed(g)

Next ==
  \/ \E c \in Call : \/ Arrive(c) \/ Submit(c) \/ Unwritable(c) \/ GiveUp(c)
                     \/ Abort(c) \/ Proceed(c)
  \/ \E g \in Generation : \/ StartEvent(g) \/ Closed(g) \/ WriteFailed(g) \/ HandleLine(g)
                           \/ Reply(g) \/ Exit(g)
  \/ Dispose

(* The event loop turns: a fork is reported, an awaiting call goes on, the *)
(* timer of a call fires.  The adapter need not answer nor end.            *)
Fairness ==
  /\ \A g \in Generation : WF_vars(StartEvent(g))
  /\ \A c \in Call : WF_vars(Submit(c)) /\ WF_vars(GiveUp(c))

Spec == Init /\ [][Next]_vars /\ Fairness

-----------------------------------------------------------------------------
(* Every variable has its type.                                            *)
TypeOK ==
  /\ closed \in BOOLEAN
  /\ child \in Generation \union {None}
  /\ starting \in Generation \union {None}
  /\ pending \in [Id -> Call \union {None}]
  /\ call \in [Call -> CallType]
  /\ process \in [Generation -> ProcessType]
  /\ input \in [Generation -> Seq(Request)]
  /\ output \in [Generation -> Seq(Line)]
  /\ denied \subseteq Call
  /\ failureAction \in Verdict

(* A call is decided by the answer to its own request: not by the late     *)
(* answer of a generation given up, even where the harness reuses the id.  *)
OwnAnswers == \A c \in Call : call[c].answered \in {c, None}

(* A call waits exactly while the child has its request: no answer of the  *)
(* child finds nobody, and nobody waits for a generation given up.         *)
WaitingForChild ==
  \A c \in Call : call[c].step = "waiting" <=>
    \E i \in Id : pending[i] = c /\ call[c].id = i /\ call[c].generation = child

(* The one process that runs without having been told to end is the child. *)
(* Two processes that went on would write one store without a lease, and   *)
(* one that outlived the plugin would never end.                           *)
OnlyChildRuns ==
  \A g \in Generation : process[g].alive /\ ~process[g].told => g = child

(* A denied call does not run whatever the other listeners return, and one *)
(* that is to be asked runs without being asked only if another listener   *)
(* said so.                                                                *)
RunsAsDecided ==
  \A c \in Call :
    /\ call[c].step \in {"ran", "approved"} => call[c].verdict # "deny"
    /\ call[c].step = "ran" => call[c].verdict = "allow" \/ call[c].overridden

(* Every held call is decided, though processes fail to start, never       *)
(* answer, or answer what nobody can read.                                 *)
CallsAreDecided ==
  \A c \in Call : []<>(call[c].step \notin {"starting", "started", "waiting"})

(* What the harness sees of a call.                                        *)
Gated(k) ==
  IF k.step \in {"starting", "started", "waiting"} THEN "held"
  ELSE IF k.step = "listeners" THEN k.verdict
  ELSE k.step

(* Every call is held until it is decided, once: a late answer, a second   *)
(* failure or the end of the plugin decides no call again, and a call that *)
(* no adapter has judged passes only if failures are allowed               *)
(* (caushell-dsh-bash.mjs:119-138, 258-272).                               *)
Gate == INSTANCE CallGate WITH
  gate <- [c \in Call |-> Gated(call[c])], failure <- failureAction

ImplementsGate == Gate!Spec
=============================================================================
