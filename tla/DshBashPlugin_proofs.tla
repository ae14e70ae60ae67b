------------------------- MODULE DshBashPlugin_proofs -------------------------
(***************************************************************************)
(* Proofs about the plugin of the DeepSeek harness, for any number of      *)
(* calls, request ids and adapter processes: late and repeated lines,      *)
(* processes that fail or never end, and calls given up at any moment.     *)
(***************************************************************************)
EXTENDS DshBashPlugin, TLAPS

(* The steps in which a call is not waited for.                            *)
Idle == {"new", "starting", "started", "listeners", "ran", "approved", "stopped"}

(* The pending table and the waiting calls name each other, and all wait   *)
(* for the child.                                                          *)
WaitInv ==
  /\ \A i \in Id : pending[i] # None => /\ call[pending[i]].step = "waiting"
                                        /\ call[pending[i]].id = i
  /\ \A c \in Call : call[c].step = "waiting" => /\ call[c].id \in Id
                                                 /\ pending[call[c].id] = c
                                                 /\ call[c].generation = child
                                                 /\ child # None

(* What is under way to and from the child is awaited, by the call it is   *)
(* for, and no two parts of it have one id.                                *)
QueueInv ==
  child # None =>
    /\ \A k \in DOMAIN input[child] :
         pending[input[child][k].id] = input[child][k].request
    /\ \A k \in DOMAIN output[child] :
         pending[output[child][k].id] = output[child][k].request
    /\ \A j, k \in DOMAIN input[child] :
         input[child][j].id = input[child][k].id => j = k
    /\ \A j, k \in DOMAIN output[child] :
         output[child][j].id = output[child][k].id => j = k
    /\ \A j \in DOMAIN input[child], k \in DOMAIN output[child] :
         input[child][j].id # output[child][k].id

(* A generation that no call has started has no process and no lines; a    *)
(* call that is held has a generation and an id.                           *)
FreshInv ==
  /\ \A g \in Generation :
       process[g].state = "none" => input[g] = <<>> /\ output[g] = <<>> /\ child # g
  /\ starting # None => process[starting].state # "none"
  /\ \A c \in Call : /\ call[c].step = "new" => process[c].state = "none"
                     /\ call[c].generation # None => process[call[c].generation].state # "none"
                     /\ call[c].step \in {"starting", "started"} =>
                          call[c].id \in Id /\ call[c].generation # None

(* A call passes the listeners with a verdict, noted if it is a denial.    *)
DenyInv ==
  \A c \in Call : call[c].step = "listeners" => /\ call[c].verdict \in Verdict
                                                /\ call[c].verdict = "deny" => c \in denied

PluginInv ==
  /\ TypeOK /\ WaitInv /\ QueueInv /\ FreshInv /\ DenyInv
  /\ OwnAnswers /\ OnlyChildRuns /\ RunsAsDecided

-----------------------------------------------------------------------------
(* Settling calls.                                                         *)

(* What is settled is with the listeners, and no more is changed.          *)
Settled(S, verdict, request) ==
  /\ call' \in [Call -> CallType]
  /\ pending' \in [Id -> Call \union {None}]
  /\ denied' \subseteq Call
  /\ \A c \in S : /\ call'[c].step = "listeners"
                  /\ call'[c].generation = None
                  /\ call'[c].verdict = verdict
                  /\ call'[c].answered = request
  /\ \A c \in Call \ S : call'[c] = call[c]
  /\ \A i \in Id : pending'[i] = IF pending[i] \in S THEN None ELSE pending[i]
  /\ denied' = IF verdict = "deny" THEN denied \union S ELSE denied

(* That is what Settle does.                                               *)
LEMMA SettleDoes ==
  ASSUME TypeOK, NEW S \in SUBSET Call, NEW verdict \in Verdict,
         NEW request \in Call \union {None}, Settle(S, verdict, request)
  PROVE  Settled(S, verdict, request)
<1> DEFINE settled(k) == [k EXCEPT !.step = "listeners", !.generation = None,
                                   !.aborted = FALSE, !.verdict = verdict,
                                   !.answered = request]
<1>1. \A k \in CallType : /\ settled(k) \in CallType
                          /\ settled(k).step = "listeners"
                          /\ settled(k).generation = None
                          /\ settled(k).verdict = verdict
                          /\ settled(k).answered = request
  BY DEF CallType, Verdict
<1>2. call' = [c \in Call |-> IF c \in S THEN settled(call[c]) ELSE call[c]]
  BY DEF Settle
<1> HIDE DEF settled
<1>3. call \in [Call -> CallType] /\ pending \in [Id -> Call \union {None}] /\ denied \subseteq Call
  BY DEF TypeOK
<1>4. pending' = [i \in Id |-> IF pending[i] \in S THEN None ELSE pending[i]]
  BY DEF Settle
<1>5. denied' = IF verdict = "deny" THEN denied \union S ELSE denied
  BY DEF Settle
<1>6. call' \in [Call -> CallType]
  BY <1>1, <1>2, <1>3
<1>7. pending' \in [Id -> Call \union {None}]
  BY <1>3, <1>4
<1> QED BY <1>1, <1>2, <1>3, <1>4, <1>5, <1>6, <1>7 DEF Settled

(* The pending table stays right, if all are settled who wait for a child  *)
(* that is given up.                                                       *)
LEMMA SettleKeepsWaiting ==
  ASSUME TypeOK, WaitInv, NEW S \in SUBSET Call, NEW verdict \in Verdict,
         NEW request \in Call \union {None}, Settled(S, verdict, request),
         \/ child' = child
         \/ \A c \in Call : call[c].step = "waiting" => c \in S
  PROVE  WaitInv'
<1> USE NoneAssumption DEF Settled
<1>1. ASSUME NEW i \in Id, pending'[i] # None
      PROVE  call'[pending'[i]].step = "waiting" /\ call'[pending'[i]].id = i
  <2>1. pending'[i] = pending[i] /\ pending[i] \notin S /\ pending[i] \in Call
    BY <1>1 DEF TypeOK
  <2> QED BY <2>1, <1>1 DEF WaitInv
<1>2. ASSUME NEW c \in Call, call'[c].step = "waiting"
      PROVE  call'[c].id \in Id /\ pending'[call'[c].id] = c
             /\ call'[c].generation = child' /\ child' # None
  <2>1. c \notin S
    BY <1>2
  <2>2. call'[c] = call[c]
    BY <2>1
  <2> QED BY <2>1, <2>2, <1>2 DEF WaitInv
<1> QED BY <1>1, <1>2 DEF WaitInv

(* What is under way is still awaited, if nobody is settled who waits or   *)
(* the child is given up.                                                  *)
LEMMA SettleKeepsQueues ==
  ASSUME TypeOK, WaitInv, QueueInv, NEW S \in SUBSET Call, NEW verdict \in Verdict,
         NEW request \in Call \union {None}, Settled(S, verdict, request),
         \/ child' = None
         \/ /\ child' = child /\ \A c \in S : call[c].step # "waiting"
            /\ child # None => input'[child] = input[child] /\ output'[child] = output[child]
  PROVE  QueueInv'
<1>1. CASE child' = None
  BY <1>1 DEF QueueInv
<1>2. CASE child' # None
  <2>1. \A i \in Id : pending'[i] = pending[i]
    <3>1. \A i \in Id : pending[i] # None => pending[i] \notin S
      BY <1>2 DEF WaitInv
    <3> QED BY <3>1 DEF Settled
  <2>2. pending' = pending
    BY <2>1 DEF Settled, TypeOK
  <2> QED BY <1>2, <2>2 DEF QueueInv
<1> QED BY <1>1, <1>2

(* Denials are noted, and who has run is not settled again.                *)
LEMMA SettleKeepsVerdicts ==
  ASSUME TypeOK, DenyInv, OwnAnswers, RunsAsDecided,
         NEW S \in SUBSET Call, NEW verdict \in Verdict,
         NEW request \in Call \union {None}, Settled(S, verdict, request),
         \A c \in S : request \in {c, None}
  PROVE  DenyInv' /\ OwnAnswers' /\ RunsAsDecided'
<1>1. \A c \in Call : c \in S \/ call'[c] = call[c]
  BY DEF Settled
<1>2. DenyInv'
  BY <1>1 DEF Settled, DenyInv
<1>3. OwnAnswers'
  BY <1>1 DEF Settled, OwnAnswers
<1>4. RunsAsDecided'
  BY <1>1 DEF Settled, RunsAsDecided
<1> QED BY <1>2, <1>3, <1>4

(* Who is settled belongs to no generation any more.                       *)
LEMMA SettleKeepsFresh ==
  ASSUME TypeOK, FreshInv, NEW S \in SUBSET Call, NEW verdict \in Verdict,
         NEW request \in Call \union {None}, Settled(S, verdict, request),
         child' \in {child, None}, starting' \in {starting, None},
         \A g \in Generation :
           /\ process'[g].state = "none" <=> process[g].state = "none"
           /\ process[g].state = "none" => input'[g] = input[g] /\ output'[g] = output[g]
  PROVE  FreshInv'
<1>1. \A g \in Generation : process'[g].state = "none" =>
        input'[g] = <<>> /\ output'[g] = <<>> /\ child' # g
  BY NoneAssumption DEF FreshInv, Generation
<1>2. starting' # None => process'[starting'].state # "none"
  BY DEF FreshInv, TypeOK
<1>3. \A c \in Call : /\ call'[c].step = "new" => process'[c].state = "none"
                      /\ call'[c].generation # None =>
                           process'[call'[c].generation].state # "none"
                      /\ call'[c].step \in {"starting", "started"} =>
                           call'[c].id \in Id /\ call'[c].generation # None
  <2> SUFFICES ASSUME NEW c \in Call
               PROVE  /\ call'[c].step = "new" => process'[c].state = "none"
                      /\ call'[c].generation # None =>
                           process'[call'[c].generation].state # "none"
                      /\ call'[c].step \in {"starting", "started"} =>
                           call'[c].id \in Id /\ call'[c].generation # None
    OBVIOUS
  <2>1. CASE c \in S
    BY <2>1 DEF Settled
  <2>2. CASE c \notin S
    <3>1. call'[c] = call[c] /\ call[c].generation \in Generation \union {None}
      BY <2>2 DEF Settled, TypeOK, CallType
    <3> QED BY <3>1 DEF FreshInv, Generation
  <2> QED BY <2>1, <2>2
<1> QED BY <1>1, <1>2, <1>3 DEF FreshInv

(* Who is settled without an answer, while the others go on waiting.       *)
IdleSettled(S, verdict) ==
  /\ S \in SUBSET Call /\ verdict \in Verdict
  /\ Settle(S, verdict, None)
  /\ \A c \in S : call[c].step # "waiting"
  /\ child' = child

(* Everybody who waits is settled, and the child given up.                 *)
AllSettled(S, verdict) ==
  /\ S \in SUBSET Call /\ verdict \in Verdict
  /\ Settle(S, verdict, None)
  /\ \A c \in Call : call[c].step = "waiting" => c \in S
  /\ child' = None

(* The parts of the invariant that speak of more than the processes.       *)
CallInv == WaitInv /\ QueueInv /\ DenyInv /\ OwnAnswers /\ RunsAsDecided

(* Both keep the invariant.                                                *)
LEMMA IdleKeeps ==
  ASSUME TypeOK, CallInv, NEW S, NEW verdict, IdleSettled(S, verdict),
         \A q \in Generation : child = q => input'[q] = input[q] /\ output'[q] = output[q]
  PROVE  CallInv' /\ Settled(S, verdict, None)
<1>1. /\ S \in SUBSET Call /\ verdict \in Verdict /\ None \in Call \union {None}
      /\ Settle(S, verdict, None) /\ \A c \in S : call[c].step # "waiting"
      /\ child' = child
      /\ child # None => input'[child] = input[child] /\ output'[child] = output[child]
  BY DEF IdleSettled, TypeOK
<1>2. Settled(S, verdict, None)
  BY <1>1, SettleDoes
<1>3. WaitInv' /\ QueueInv' /\ DenyInv' /\ OwnAnswers' /\ RunsAsDecided'
  BY <1>1, <1>2, SettleKeepsWaiting, SettleKeepsQueues, SettleKeepsVerdicts DEF CallInv
<1> QED BY <1>2, <1>3 DEF CallInv

(* So does settling everybody who waits, when the child is given up.       *)
LEMMA AllKeeps ==
  ASSUME TypeOK, CallInv, NEW S, NEW verdict, AllSettled(S, verdict)
  PROVE  CallInv' /\ Settled(S, verdict, None)
<1>1. /\ S \in SUBSET Call /\ verdict \in Verdict /\ None \in Call \union {None}
      /\ Settle(S, verdict, None)
      /\ \A c \in Call : call[c].step = "waiting" => c \in S
      /\ child' = None
  BY DEF AllSettled
<1>2. Settled(S, verdict, None)
  BY <1>1, SettleDoes
<1>3. WaitInv' /\ QueueInv' /\ DenyInv' /\ OwnAnswers' /\ RunsAsDecided'
  BY <1>1, <1>2, SettleKeepsWaiting, SettleKeepsQueues, SettleKeepsVerdicts DEF CallInv
<1> QED BY <1>2, <1>3 DEF CallInv

(* Giving up a generation is one of the two: all who wait do so for the    *)
(* child.                                                                  *)
LEMMA RetireSettles ==
  ASSUME TypeOK, WaitInv, NEW g \in Generation, NEW others \in SUBSET Call,
         \A c \in others : call[c].step # "waiting",
         RetireGeneration(g, others)
  PROVE  \E S \in SUBSET Call :
           \/ child # g /\ IdleSettled(S, failureAction)
           \/ child = g /\ AllSettled(S, failureAction)
<1> DEFINE S == PendingOf(g) \union others
<1>0. Pending \subseteq Call /\ failureAction \in Verdict
  BY DEF Pending, TypeOK
<1>1. S \in SUBSET Call
  BY <1>0 DEF PendingOf
<1>2. Settle(S, failureAction, None) /\ child' = ChildWithout(g)
  BY DEF RetireGeneration, Fallback
<1>3. \A c \in Pending : call[c].step = "waiting"
  <2> SUFFICES ASSUME NEW i \in Id, pending[i] # None PROVE call[pending[i]].step = "waiting"
    BY DEF Pending
  <2> QED BY DEF WaitInv
<1>4. \A c \in Call : call[c].step = "waiting" => c \in Pending /\ call[c].generation = child
  BY NoneAssumption DEF Pending, WaitInv
<1>5. CASE child # g
  <2>1. \A c \in S : call[c].step # "waiting"
    BY <1>3, <1>4, <1>5, <1>0 DEF PendingOf
  <2>2. IdleSettled(S, failureAction)
    BY <2>1, <1>0, <1>1, <1>2, <1>5 DEF IdleSettled, ChildWithout
  <2> QED BY <2>2, <1>1, <1>5
<1>6. CASE child = g
  <2>1. \A c \in Call : call[c].step = "waiting" => c \in S
    BY <1>4, <1>6 DEF PendingOf
  <2>2. AllSettled(S, failureAction)
    BY <2>1, <1>0, <1>1, <1>2, <1>6 DEF AllSettled, ChildWithout
  <2> QED BY <2>2, <1>1, <1>6
<1> QED BY <1>5, <1>6

-----------------------------------------------------------------------------
(* The steps that settle calls.                                            *)

(* A step that only settles calls nobody waits for.                        *)
LEMMA IdleStep ==
  ASSUME PluginInv, NEW S, NEW verdict, IdleSettled(S, verdict),
         UNCHANGED <<closed, child, starting, process, input, output, failureAction>>
  PROVE  PluginInv'
<1>0. TypeOK /\ CallInv /\ FreshInv /\ OnlyChildRuns
  BY DEF PluginInv, CallInv
<1>1. CallInv' /\ Settled(S, verdict, None)
  BY <1>0, IdleKeeps
<1>2. S \in SUBSET Call /\ verdict \in Verdict /\ None \in Call \union {None}
  BY DEF IdleSettled
<1>3. TypeOK'
  BY <1>0, <1>1 DEF TypeOK, Settled
<1>4. FreshInv'
  BY <1>0, <1>1, <1>2, SettleKeepsFresh
<1>5. OnlyChildRuns'
  BY <1>0 DEF OnlyChildRuns
<1> QED BY <1>1, <1>3, <1>4, <1>5 DEF PluginInv, CallInv

(* A step that gives up a generation and sees to it that its process does  *)
(* not run on untold.                                                      *)
LEMMA RetireStep ==
  ASSUME PluginInv, NEW g \in Generation, NEW others \in SUBSET Call,
         \A c \in others : call[c].step # "waiting",
         RetireGeneration(g, others),
         starting' \in {starting, None}, UNCHANGED <<closed, input, failureAction>>,
         output' \in [Generation -> Seq(Line)],
         \A q \in Generation : q # g => output'[q] = output[q] /\ process'[q] = process[q],
         process' \in [Generation -> ProcessType],
         process[g].state # "none", process'[g].state # "none",
         process'[g].alive => process'[g].told
  PROVE  PluginInv'
<1>0. TypeOK /\ CallInv /\ FreshInv /\ OnlyChildRuns /\ WaitInv
  BY DEF PluginInv, CallInv
<1>1. PICK S \in SUBSET Call : \/ child # g /\ IdleSettled(S, failureAction)
                               \/ child = g /\ AllSettled(S, failureAction)
  BY <1>0, RetireSettles
<1>2. CallInv' /\ Settled(S, failureAction, None)
  <2>1. CASE child # g /\ IdleSettled(S, failureAction)
    <3>1. \A q \in Generation : child = q => input'[q] = input[q] /\ output'[q] = output[q]
      BY <2>1
    <3> QED BY <3>1, <2>1, <1>0, IdleKeeps
  <2>2. CASE child = g /\ AllSettled(S, failureAction)
    BY <2>2, <1>0, AllKeeps
  <2> QED BY <1>1, <2>1, <2>2
<1>3. child' = ChildWithout(g)
  BY DEF RetireGeneration
<1>4. TypeOK'
  BY <1>0, <1>2, <1>3 DEF TypeOK, Settled, ChildWithout
<1>5. FreshInv'
  <2>1. /\ failureAction \in Verdict /\ None \in Call \union {None}
        /\ child' \in {child, None}
        /\ \A q \in Generation :
             /\ process'[q].state = "none" <=> process[q].state = "none"
             /\ process[q].state = "none" => input'[q] = input[q] /\ output'[q] = output[q]
    BY <1>0, <1>3 DEF TypeOK, ChildWithout
  <2> QED BY <2>1, <1>0, <1>2, SettleKeepsFresh
<1>6. OnlyChildRuns'
  BY <1>0, <1>3 DEF OnlyChildRuns, ChildWithout
<1> QED BY <1>2, <1>4, <1>5, <1>6 DEF PluginInv, CallInv

(* Telling a process to end keeps what it is.                              *)
LEMMA TerminatedDoes ==
  ASSUME TypeOK, NEW g \in Generation
  PROVE  /\ Terminated(g) \in [Generation -> ProcessType]
         /\ \A q \in Generation : q # g => Terminated(g)[q] = process[q]
         /\ Terminated(g)[g].state = process[g].state
         /\ Terminated(g)[g].alive = process[g].alive
         /\ Terminated(g)[g].alive => Terminated(g)[g].told
<1> DEFINE told == process[g].told \/ process[g].alive
           ended == [process[g] EXCEPT !.told = told]
<1>1. process[g] \in ProcessType /\ process \in [Generation -> ProcessType]
  BY DEF TypeOK
<1>2. told \in BOOLEAN /\ (process[g].alive => told)
  OBVIOUS
<1>3. Terminated(g) = [process EXCEPT ![g] = ended]
  BY <1>1 DEF Terminated
<1> HIDE DEF told
<1>4. /\ ended \in ProcessType
      /\ ended.state = process[g].state /\ ended.alive = process[g].alive /\ ended.told = told
  BY <1>1, <1>2 DEF ProcessType
<1> HIDE DEF ended
<1>5. Terminated(g)[g] = ended /\ Terminated(g) \in [Generation -> ProcessType]
      /\ \A q \in Generation : q # g => Terminated(g)[q] = process[q]
  BY <1>1, <1>3, <1>4
<1> QED BY <1>2, <1>4, <1>5

(* The calls that cannot be checked.                                       *)
LEMMA UncheckedSteps ==
  ASSUME PluginInv, NEW c \in Call,
         \/ Unsupported(c) \/ Uncheckable(c) \/ Unwritable(c)
         \/ Submit(c) /\ ~(~call[c].aborted /\ pending[call[c].id] = None
                           /\ child = call[c].generation)
  PROVE  PluginInv'
<1>0. failureAction \in Verdict /\ "deny" \in Verdict
  BY DEF PluginInv, TypeOK, Verdict
<1>1. CASE Unsupported(c)
  <2>1. IdleSettled({c}, "deny")
    BY <1>1, <1>0 DEF Unsupported, IdleSettled
  <2> QED BY <2>1, <1>1, IdleStep DEF Unsupported
<1>2. CASE Uncheckable(c)
  <2>1. IdleSettled({c}, failureAction)
    BY <1>2, <1>0 DEF Uncheckable, Fallback, IdleSettled
  <2> QED BY <2>1, <1>2, IdleStep DEF Uncheckable
<1>3. CASE Unwritable(c)
  <2>1. IdleSettled({c}, failureAction)
    BY <1>3, <1>0 DEF Unwritable, Fallback, IdleSettled
  <2> QED BY <2>1, <1>3, IdleStep DEF Unwritable
<1>4. CASE Submit(c) /\ ~(~call[c].aborted /\ pending[call[c].id] = None
                         /\ child = call[c].generation)
  <2>1. IdleSettled({c}, failureAction)
    BY <1>4, <1>0 DEF Submit, Fallback, IdleSettled
  <2> QED BY <2>1, <1>4, IdleStep DEF Submit
<1> QED BY <1>1, <1>2, <1>3, <1>4

(* The events that give up a generation.                                   *)
LEMMA RetiringSteps ==
  ASSUME PluginInv, NEW g \in Generation,
         \/ SpawnedDisposed(g) \/ SpawnFailed(g) \/ Closed(g) \/ WriteFailed(g)
         \/ \E c \in Call : GiveUp(c) /\ call[c].generation = g
         \/ HandleLine(g) /\ Head(output[g]).answer = "invalid"
  PROVE  PluginInv'
<1>0. TypeOK /\ WaitInv /\ FreshInv
  BY DEF PluginInv
<1>1. /\ {} \in SUBSET Call /\ Joined(g) \in SUBSET Call
      /\ \A c \in Joined(g) : call[c].step # "waiting"
      /\ StartSettled(g) \in {starting, None}
      /\ output \in [Generation -> Seq(Line)] /\ process \in [Generation -> ProcessType]
      /\ process[g] \in ProcessType
  BY <1>0 DEF Joined, StartSettled, TypeOK
<1>2. CASE SpawnedDisposed(g)
  <2> DEFINE ended == [Terminated(g)[g] EXCEPT !.state = "spawned"]
  <2>1. /\ ended \in ProcessType /\ ended.state = "spawned" /\ (ended.alive => ended.told)
    <3>1. Terminated(g)[g] \in ProcessType
      BY <1>0, TerminatedDoes
    <3> QED BY <3>1, <1>0, TerminatedDoes DEF ProcessType
  <2>2. process' = [Terminated(g) EXCEPT ![g] = ended]
    BY <1>2 DEF SpawnedDisposed
  <2> HIDE DEF ended
  <2>3. /\ process' \in [Generation -> ProcessType] /\ process'[g] = ended
        /\ \A q \in Generation : q # g => process'[q] = process[q]
    BY <2>1, <2>2, <1>0, TerminatedDoes
  <2>4. /\ process[g].state # "none" /\ RetireGeneration(g, Joined(g))
        /\ starting' = StartSettled(g) /\ UNCHANGED <<closed, input, output, failureAction>>
    BY <1>2 DEF SpawnedDisposed
  <2> QED BY <1>1, <2>1, <2>3, <2>4, RetireStep
<1>3. CASE SpawnFailed(g)
  <2>1. /\ process' = [process EXCEPT ![g] = [process[g] EXCEPT !.state = "closed", !.alive = FALSE]]
        /\ process[g].state # "none" /\ RetireGeneration(g, Joined(g))
        /\ starting' = StartSettled(g) /\ UNCHANGED <<closed, input, output, failureAction>>
    BY <1>3, <1>1 DEF SpawnFailed
  <2>2. /\ process' \in [Generation -> ProcessType]
        /\ process'[g].state = "closed" /\ ~process'[g].alive
        /\ \A q \in Generation : q # g => process'[q] = process[q]
    BY <2>1, <1>1 DEF ProcessType
  <2> QED BY <1>1, <2>1, <2>2, RetireStep
<1>4. CASE Closed(g)
  <2>1. /\ process' = [process EXCEPT ![g] = [process[g] EXCEPT !.state = "closed"]]
        /\ process[g].state # "none" /\ ~process[g].alive /\ RetireGeneration(g, {})
        /\ starting' = starting /\ UNCHANGED <<closed, input, output, failureAction>>
    BY <1>4, <1>1 DEF Closed
  <2>2. /\ process' \in [Generation -> ProcessType]
        /\ process'[g].state = "closed" /\ ~process'[g].alive
        /\ \A q \in Generation : q # g => process'[q] = process[q]
    BY <2>1, <1>1 DEF ProcessType
  <2> QED BY <1>1, <2>1, <2>2, RetireStep
<1>5. ASSUME process' = Terminated(g), RetireGeneration(g, {}), process[g].state # "none",
             UNCHANGED <<closed, starting, input, failureAction>>,
             output' \in [Generation -> Seq(Line)],
             \A q \in Generation : q # g => output'[q] = output[q]
      PROVE  PluginInv'
  <2>1. /\ process' \in [Generation -> ProcessType]
        /\ process'[g].state # "none" /\ (process'[g].alive => process'[g].told)
        /\ \A q \in Generation : q # g => process'[q] = process[q]
    BY <1>5, <1>0, TerminatedDoes
  <2> QED BY <1>1, <1>5, <2>1, RetireStep
<1>6. child = g => process[g].state # "none"
  BY <1>0 DEF FreshInv
<1>7. CASE WriteFailed(g)
  BY <1>7, <1>5, <1>6, <1>1 DEF WriteFailed
<1>8. CASE \E c \in Call : GiveUp(c) /\ call[c].generation = g
  <2>1. child = g
    BY <1>8, <1>0 DEF GiveUp, WaitInv
  <2> QED BY <1>8, <2>1, <1>5, <1>6, <1>1 DEF GiveUp
<1>9. CASE HandleLine(g) /\ Head(output[g]).answer = "invalid"
  <2>1. output[g] # <<>> /\ output' = [output EXCEPT ![g] = Tail(@)]
    BY <1>9 DEF HandleLine
  <2>2. output' \in [Generation -> Seq(Line)]
    BY <2>1, <1>1
  <2>3. process[g].state # "none"
    BY <2>1, <1>0 DEF FreshInv
  <2> QED BY <1>9, <1>1, <2>1, <2>2, <2>3, <1>5 DEF HandleLine
<1> QED BY <1>2, <1>3, <1>4, <1>7, <1>8, <1>9

(* The plugin is disposed.                                                 *)
LEMMA DisposeStep ==
  ASSUME PluginInv, Dispose
  PROVE  PluginInv'
<1>0. TypeOK /\ CallInv /\ WaitInv /\ FreshInv /\ OnlyChildRuns
  BY DEF PluginInv, CallInv
<1>1. /\ Pending \in SUBSET Call /\ failureAction \in Verdict
      /\ \A c \in Call : call[c].step = "waiting" => c \in Pending
  <2>1. Pending \in SUBSET Call /\ failureAction \in Verdict
    BY <1>0 DEF Pending, TypeOK
  <2>2. \A c \in Call : call[c].step = "waiting" => c \in Pending
    BY <1>0, NoneAssumption DEF Pending, WaitInv
  <2> QED BY <2>1, <2>2
<1>2. /\ closed' = TRUE /\ child' = None /\ Settle(Pending, failureAction, None)
      /\ process' = IF child = None THEN process ELSE Terminated(child)
      /\ UNCHANGED <<starting, input, output, failureAction>>
  BY DEF Dispose, Fallback
<1>3. AllSettled(Pending, failureAction)
  BY <1>1, <1>2 DEF AllSettled
<1>4. CallInv' /\ Settled(Pending, failureAction, None)
  BY <1>0, <1>3, AllKeeps
<1>5. /\ process' \in [Generation -> ProcessType]
      /\ \A g \in Generation : /\ process'[g].state = process[g].state
                               /\ ~(process'[g].alive /\ ~process'[g].told)
  <2>1. CASE child = None
    BY <2>1, <1>0, <1>2, NoneAssumption DEF TypeOK, OnlyChildRuns, Generation
  <2>2. CASE child # None
    <3>1. child \in Generation
      BY <2>2, <1>0 DEF TypeOK
    <3> QED BY <3>1, <2>2, <1>0, <1>2, TerminatedDoes DEF OnlyChildRuns
  <2> QED BY <2>1, <2>2
<1>6. TypeOK'
  BY <1>0, <1>2, <1>4, <1>5 DEF TypeOK, Settled
<1>7. FreshInv'
  <2>1. /\ None \in Call \union {None} /\ child' \in {child, None}
        /\ starting' \in {starting, None}
        /\ \A g \in Generation :
             /\ process'[g].state = "none" <=> process[g].state = "none"
             /\ process[g].state = "none" => input'[g] = input[g] /\ output'[g] = output[g]
    BY <1>2, <1>5
  <2> QED BY <2>1, <1>0, <1>1, <1>4, SettleKeepsFresh
<1>8. OnlyChildRuns'
  BY <1>5 DEF OnlyChildRuns
<1> QED BY <1>4, <1>6, <1>7, <1>8 DEF PluginInv, CallInv

-----------------------------------------------------------------------------
(* The steps in which calls move on.                                       *)

(* Calls that do not wait and are not made to leave what waits alone.      *)
LEMMA MovesKeep ==
  ASSUME TypeOK, WaitInv, QueueInv, call' \in [Call -> CallType],
         \A c \in Call : \/ call'[c] = call[c]
                         \/ call[c].step # "waiting" /\ call'[c].step # "waiting",
         UNCHANGED <<child, pending, input, output>>
  PROVE  WaitInv' /\ QueueInv'
<1>1. WaitInv'
  <2>1. ASSUME NEW i \in Id, pending'[i] # None
        PROVE  call'[pending'[i]].step = "waiting" /\ call'[pending'[i]].id = i
    <3>1. pending'[i] = pending[i] /\ pending[i] \in Call
      BY <2>1 DEF TypeOK
    <3> QED BY <2>1, <3>1 DEF WaitInv
  <2> QED BY <2>1 DEF WaitInv
<1>2. QueueInv'
  BY DEF QueueInv
<1> QED BY <1>1, <1>2

(* A call is held for the child, or for the start of one.                  *)
LEMMA HoldSteps ==
  ASSUME PluginInv, NEW c \in Call, NEW i \in Id,
         CheckWithChild(c, i) \/ CheckWhileStarting(c, i)
  PROVE  PluginInv'
<1>0. TypeOK /\ WaitInv /\ QueueInv /\ FreshInv /\ DenyInv /\ OwnAnswers /\ OnlyChildRuns
      /\ RunsAsDecided /\ call[c] \in CallType
  BY DEF PluginInv, TypeOK
<1>1. PICK g \in Generation, step \in {"starting", "started"} :
        /\ g = child \/ g = starting
        /\ call[c].step = "new" /\ Hold(c, i, g, step)
        /\ UNCHANGED <<closed, child, starting, pending, process, input, output, denied,
                       failureAction>>
  BY <1>0 DEF CheckWithChild, CheckWhileStarting, TypeOK
<1> DEFINE held == [call[c] EXCEPT !.step = step, !.id = i, !.generation = g]
<1>2. /\ held \in CallType /\ held.step = step /\ held.generation = g /\ held.id = i
      /\ held.verdict = call[c].verdict /\ held.answered = call[c].answered
  BY <1>0 DEF CallType
<1>3. call' = [call EXCEPT ![c] = held]
  BY <1>1 DEF Hold
<1> HIDE DEF held
<1>4. call' \in [Call -> CallType] /\ call'[c] = held /\ \A d \in Call : d # c => call'[d] = call[d]
  BY <1>0, <1>2, <1>3 DEF TypeOK
<1>5. WaitInv' /\ QueueInv'
  <2>1. \A d \in Call : \/ call'[d] = call[d]
                        \/ call[d].step # "waiting" /\ call'[d].step # "waiting"
    BY <1>1, <1>2, <1>4
  <2> QED BY <1>0, <1>1, <1>4, <2>1, MovesKeep
<1>6. TypeOK'
  BY <1>0, <1>1, <1>4 DEF TypeOK
<1>7. FreshInv'
  <2>1. process[g].state # "none"
    BY <1>0, <1>1, NoneAssumption DEF FreshInv, Generation
  <2> QED BY <1>0, <1>1, <1>2, <1>4, <2>1, NoneAssumption DEF FreshInv, Generation
<1>8. DenyInv' /\ OwnAnswers' /\ RunsAsDecided'
  BY <1>0, <1>1, <1>2, <1>4 DEF DenyInv, OwnAnswers, RunsAsDecided
<1>9. OnlyChildRuns'
  BY <1>0, <1>1 DEF OnlyChildRuns
<1> QED BY <1>5, <1>6, <1>7, <1>8, <1>9 DEF PluginInv

(* A call starts a generation, which becomes the child.                    *)
LEMMA StartStep ==
  ASSUME PluginInv, NEW c \in Call, NEW i \in Id, CheckStarts(c, i)
  PROVE  PluginInv'
<1>0. TypeOK /\ WaitInv /\ QueueInv /\ FreshInv /\ DenyInv /\ OwnAnswers /\ OnlyChildRuns
      /\ RunsAsDecided /\ call[c] \in CallType
  BY DEF PluginInv, TypeOK
<1> DEFINE held == [call[c] EXCEPT !.step = "starting", !.id = i, !.generation = c]
           forked == [state |-> "forked", alive |-> TRUE, told |-> FALSE]
<1>1. /\ call[c].step = "new" /\ child = None /\ child' = c /\ starting' = c
      /\ process' = [process EXCEPT ![c] = forked]
      /\ call' = [call EXCEPT ![c] = held]
      /\ UNCHANGED <<closed, pending, input, output, denied, failureAction>>
  BY DEF CheckStarts, Hold
<1>2. /\ held \in CallType /\ held.step = "starting" /\ held.generation = c /\ held.id = i
      /\ held.verdict = call[c].verdict /\ held.answered = call[c].answered
  BY <1>0 DEF CallType, Generation
<1>3. forked \in ProcessType /\ forked.state = "forked"
  BY DEF ProcessType
<1> HIDE DEF held, forked
<1>4. /\ call' \in [Call -> CallType] /\ call'[c] = held
      /\ \A d \in Call : d # c => call'[d] = call[d]
      /\ process' \in [Generation -> ProcessType] /\ process'[c] = forked
      /\ \A g \in Generation : g # c => process'[g] = process[g]
  BY <1>0, <1>1, <1>2, <1>3 DEF TypeOK, Generation
<1>5. WaitInv'
  <2>1. \A d \in Call : call[d].step # "waiting"
    BY <1>0, <1>1 DEF WaitInv
  <2>2. ASSUME NEW j \in Id PROVE pending[j] = None
    <3>1. pending[j] \in Call \union {None}
      BY <1>0 DEF TypeOK
    <3> QED BY <3>1, <2>1, <1>0 DEF WaitInv
  <2>3. \A d \in Call : call'[d].step # "waiting"
    BY <2>1, <1>2, <1>4
  <2> QED BY <2>2, <2>3, <1>1 DEF WaitInv
<1>6. QueueInv'
  <2>1. input[c] = <<>> /\ output[c] = <<>>
    BY <1>0, <1>1 DEF FreshInv, Generation
  <2>2. input'[child'] = <<>> /\ output'[child'] = <<>>
    BY <2>1, <1>1
  <2> QED BY <2>2 DEF QueueInv
<1>7. TypeOK'
  BY <1>0, <1>1, <1>4 DEF TypeOK, Generation
<1>8. FreshInv'
  BY <1>0, <1>1, <1>2, <1>3, <1>4, NoneAssumption DEF FreshInv, Generation
<1>9. DenyInv' /\ OwnAnswers' /\ RunsAsDecided'
  BY <1>0, <1>1, <1>2, <1>4 DEF DenyInv, OwnAnswers, RunsAsDecided
<1>10. OnlyChildRuns'
  BY <1>0, <1>1, <1>4, NoneAssumption DEF OnlyChildRuns, Generation
<1> QED BY <1>5, <1>6, <1>7, <1>8, <1>9, <1>10 DEF PluginInv

(* A call is aborted before it waits, and the calls that joined a start go *)
(* on.                                                                     *)
LEMMA ResumeSteps ==
  ASSUME PluginInv,
         (\E c \in Call : Abort(c)) \/ (\E g \in Generation : Spawned(g))
  PROVE  PluginInv'
<1>0. TypeOK /\ WaitInv /\ QueueInv /\ FreshInv /\ DenyInv /\ OwnAnswers /\ OnlyChildRuns
      /\ RunsAsDecided
  BY DEF PluginInv
<1> DEFINE Resumed ==
      /\ call' \in [Call -> CallType]
      /\ \A d \in Call :
           \/ call'[d] = call[d]
           \/ /\ call[d].step \in {"starting", "started"}
              /\ call'[d].step \in {"starting", "started"}
              /\ call'[d].generation = call[d].generation /\ call'[d].id = call[d].id
              /\ call'[d].verdict = call[d].verdict /\ call'[d].answered = call[d].answered
           Others ==
      /\ UNCHANGED <<closed, child, pending, input, output, denied, failureAction>>
      /\ starting' \in {starting, None}
      /\ process' \in [Generation -> ProcessType]
      /\ \A g \in Generation : /\ process'[g].alive = process[g].alive
                               /\ process'[g].told = process[g].told
                               /\ process'[g].state = "none" <=> process[g].state = "none"
<1>1. Resumed
  <2>1. ASSUME NEW k \in CallType
        PROVE  /\ [k EXCEPT !.aborted = TRUE] \in CallType
               /\ [k EXCEPT !.step = "started"] \in CallType
               /\ [k EXCEPT !.aborted = TRUE].step = k.step
               /\ [k EXCEPT !.step = "started"].step = "started"
               /\ [k EXCEPT !.aborted = TRUE].generation = k.generation
               /\ [k EXCEPT !.step = "started"].generation = k.generation
               /\ [k EXCEPT !.aborted = TRUE].id = k.id
               /\ [k EXCEPT !.step = "started"].id = k.id
               /\ [k EXCEPT !.aborted = TRUE].verdict = k.verdict
               /\ [k EXCEPT !.step = "started"].verdict = k.verdict
               /\ [k EXCEPT !.aborted = TRUE].answered = k.answered
               /\ [k EXCEPT !.step = "started"].answered = k.answered
    BY DEF CallType
  <2>2. ASSUME NEW c \in Call, Abort(c) PROVE Resumed
    <3>1. /\ call' = [call EXCEPT ![c] = [call[c] EXCEPT !.aborted = TRUE]]
          /\ call[c].step \in {"starting", "started"}
      BY <2>2 DEF Abort
    <3>2. call'[c] = [call[c] EXCEPT !.aborted = TRUE] /\ \A d \in Call : d # c => call'[d] = call[d]
      BY <3>1, <1>0 DEF TypeOK
    <3>3. call[c] \in CallType
      BY <1>0 DEF TypeOK
    <3>4. /\ call'[c] \in CallType /\ call'[c].step = call[c].step
          /\ call'[c].generation = call[c].generation /\ call'[c].id = call[c].id
          /\ call'[c].verdict = call[c].verdict /\ call'[c].answered = call[c].answered
      BY <3>2, <3>3, <2>1
    <3>5. call' \in [Call -> CallType]
      BY <3>1, <3>2, <3>4, <1>0 DEF TypeOK
    <3> QED BY <3>1, <3>2, <3>4, <3>5
  <2>3. ASSUME NEW g \in Generation, Spawned(g) PROVE Resumed
    <3>1. \A d \in Joined(g) : call[d].step = "starting"
      BY DEF Joined
    <3>2. call' = [c \in Call |-> IF c \in Joined(g) THEN [call[c] EXCEPT !.step = "started"]
                                                   ELSE call[c]]
      BY <2>3 DEF Spawned
    <3> QED BY <3>1, <3>2, <2>1, <1>0 DEF TypeOK
  <2> QED BY <2>2, <2>3
<1>2. Others
  <2>1. ASSUME NEW c \in Call, Abort(c) PROVE Others
    BY <2>1, <1>0 DEF Abort, TypeOK
  <2>2. ASSUME NEW g \in Generation, Spawned(g) PROVE Others
    <3>1. /\ process' = [process EXCEPT ![g] = [process[g] EXCEPT !.state = "spawned"]]
          /\ process[g].state = "forked"
      BY <2>2 DEF Spawned
    <3>2. process' \in [Generation -> ProcessType]
          /\ \A q \in Generation : /\ process'[q].alive = process[q].alive
                                   /\ process'[q].told = process[q].told
                                   /\ process'[q].state = "none" <=> process[q].state = "none"
      BY <3>1, <1>0 DEF TypeOK, ProcessType
    <3> QED BY <2>2, <3>2 DEF Spawned, StartSettled
  <2> QED BY <2>1, <2>2
<1>3. WaitInv' /\ QueueInv'
  <2>1. \A d \in Call : \/ call'[d] = call[d]
                        \/ call[d].step # "waiting" /\ call'[d].step # "waiting"
    BY <1>1
  <2> QED BY <1>0, <1>1, <1>2, <2>1, MovesKeep
<1>4. TypeOK'
  BY <1>0, <1>1, <1>2 DEF TypeOK
<1>5. FreshInv'
  <2>1. \A c \in Call : call[c].generation \in Generation \union {None}
    BY <1>0 DEF TypeOK, CallType
  <2>2. \A c \in Call : /\ call'[c].generation = call[c].generation
                        /\ call'[c].id = call[c].id
                        /\ call'[c].step \in {"starting", "started"}
                             => call[c].step \in {"starting", "started"}
                        /\ call'[c].step = "new" => call[c].step = "new"
    BY <1>1
  <2>3. \A g \in Generation :
          process'[g].state = "none" => input'[g] = <<>> /\ output'[g] = <<>> /\ child' # g
    BY <1>0, <1>2 DEF FreshInv
  <2>4. starting' # None => process'[starting'].state # "none"
    BY <1>0, <1>2 DEF FreshInv, TypeOK
  <2>5. \A c \in Call : /\ call'[c].step = "new" => process'[c].state = "none"
                        /\ call'[c].generation # None =>
                             process'[call'[c].generation].state # "none"
                        /\ call'[c].step \in {"starting", "started"} =>
                             call'[c].id \in Id /\ call'[c].generation # None
    BY <1>0, <1>2, <2>1, <2>2 DEF FreshInv, Generation
  <2> QED BY <2>3, <2>4, <2>5 DEF FreshInv
<1>6. DenyInv' /\ OwnAnswers' /\ RunsAsDecided'
  BY <1>0, <1>1, <1>2 DEF DenyInv, OwnAnswers, RunsAsDecided
<1>7. OnlyChildRuns'
  BY <1>0, <1>2 DEF OnlyChildRuns
<1> QED BY <1>3, <1>4, <1>5, <1>6, <1>7 DEF PluginInv

(* What becomes of a call that leaves the listeners.                       *)
LEMMA ProceedDoes ==
  ASSUME NEW c, Proceed(c)
  PROVE  \E downstream \in Verdict, decision \in Verdict, step \in {"stopped", "approved", "ran"} :
           /\ step = "ran" => c \notin denied /\ decision = "allow"
           /\ step = "approved" => c \notin denied
           /\ call' = [call EXCEPT ![c] =
                          [NewCall EXCEPT
                             !.step = step,
                             !.verdict = IF step = "stopped" THEN None ELSE call[c].verdict,
                             !.overridden = /\ step = "ran"
                                            /\ decision # Returned(call[c].verdict, downstream)]]
<1> DEFINE steps(decision) == IF c \in denied \/ decision = "deny" THEN {"stopped"}
                              ELSE IF decision = "ask" THEN {"approved", "stopped"} ELSE {"ran"}
           overrides(step, decision, downstream) ==
             step = "ran" /\ decision # Returned(call[c].verdict, downstream)
           ended(step, overridden) ==
             [NewCall EXCEPT !.step = step,
                             !.verdict = IF step = "stopped" THEN None ELSE call[c].verdict,
                             !.overridden = overridden]
<1>1. PICK decision \in Verdict : \E step \in steps(decision) :
        \E overridden \in {overrides(step, decision, downstream) : downstream \in Verdict} :
          call' = [call EXCEPT ![c] = ended(step, overridden)]
  BY DEF Proceed
<1>2. PICK step \in steps(decision) :
        \E overridden \in {overrides(step, decision, downstream) : downstream \in Verdict} :
          call' = [call EXCEPT ![c] = ended(step, overridden)]
  BY <1>1
<1>3. PICK downstream \in Verdict :
        call' = [call EXCEPT ![c] = ended(step, overrides(step, decision, downstream))]
  BY <1>2
<1>4. /\ step \in {"stopped", "approved", "ran"}
      /\ step = "ran" => c \notin denied /\ decision = "allow"
      /\ step = "approved" => c \notin denied
  BY DEF Verdict
<1> QED BY <1>3, <1>4

(* A call leaves the listeners: it does not run when it was denied, and is *)
(* not run unasked when it was to be asked.                                *)
LEMMA ProceedStep ==
  ASSUME PluginInv, NEW c \in Call, Proceed(c)
  PROVE  PluginInv'
<1>0. TypeOK /\ WaitInv /\ QueueInv /\ FreshInv /\ DenyInv /\ OwnAnswers /\ OnlyChildRuns
      /\ RunsAsDecided /\ call[c] \in CallType
  BY DEF PluginInv, TypeOK
<1>1. /\ call[c].step = "listeners" /\ denied' = denied \ {c}
      /\ UNCHANGED <<closed, child, starting, pending, process, input, output, failureAction>>
  BY DEF Proceed
<1>2. PICK downstream \in Verdict, decision \in Verdict, step \in {"stopped", "approved", "ran"} :
        /\ step = "ran" => c \notin denied /\ decision = "allow"
        /\ step = "approved" => c \notin denied
        /\ call' = [call EXCEPT ![c] =
                       [NewCall EXCEPT
                          !.step = step,
                          !.verdict = IF step = "stopped" THEN None ELSE call[c].verdict,
                          !.overridden = /\ step = "ran"
                                         /\ decision # Returned(call[c].verdict, downstream)]]
  BY ProceedDoes
<1> DEFINE verdict == IF step = "stopped" THEN None ELSE call[c].verdict
           overridden == step = "ran" /\ decision # Returned(call[c].verdict, downstream)
           ended == [NewCall EXCEPT !.step = step, !.verdict = verdict, !.overridden = overridden]
<1>3. verdict \in Verdict \union {None} /\ overridden \in BOOLEAN
  BY <1>0 DEF CallType
<1>4. /\ step \in {"ran", "approved"} => verdict # "deny" /\ verdict = call[c].verdict
      /\ step = "ran" => verdict = "allow" \/ overridden
  <2>1. call[c].verdict \in Verdict /\ (call[c].verdict = "deny" => c \in denied)
    BY <1>0, <1>1 DEF DenyInv
  <2> QED BY <2>1, <1>2 DEF Returned, Verdict
<1>5. call' = [call EXCEPT ![c] = ended]
  BY <1>2
<1> HIDE DEF verdict, overridden
<1>6. /\ ended \in CallType /\ ended.step = step /\ ended.generation = None
      /\ ended.verdict = verdict /\ ended.answered = None /\ ended.overridden = overridden
  BY <1>3 DEF NewCall, CallType
<1> HIDE DEF ended
<1>7. call' \in [Call -> CallType] /\ call'[c] = ended /\ \A d \in Call : d # c => call'[d] = call[d]
  BY <1>0, <1>5, <1>6 DEF TypeOK
<1>8. WaitInv' /\ QueueInv'
  <2>1. \A d \in Call : \/ call'[d] = call[d]
                        \/ call[d].step # "waiting" /\ call'[d].step # "waiting"
    BY <1>1, <1>2, <1>6, <1>7
  <2> QED BY <1>0, <1>1, <1>7, <2>1, MovesKeep
<1>9. TypeOK'
  BY <1>0, <1>1, <1>7 DEF TypeOK
<1>10. FreshInv'
  BY <1>0, <1>1, <1>2, <1>6, <1>7 DEF FreshInv
<1>11. DenyInv' /\ OwnAnswers'
  BY <1>0, <1>1, <1>2, <1>6, <1>7 DEF DenyInv, OwnAnswers
<1>12. RunsAsDecided'
  BY <1>0, <1>4, <1>6, <1>7 DEF RunsAsDecided
<1>13. OnlyChildRuns'
  BY <1>0, <1>1 DEF OnlyChildRuns
<1> QED BY <1>8, <1>9, <1>10, <1>11, <1>12, <1>13 DEF PluginInv

-----------------------------------------------------------------------------
(* Requests and lines.                                                     *)

(* What Append and Tail do to the elements.                                *)
LEMMA AppendElements ==
  ASSUME NEW T, NEW s \in Seq(T), NEW e \in T
  PROVE  /\ Append(s, e) \in Seq(T) /\ Append(s, e) # <<>>
         /\ DOMAIN Append(s, e) = DOMAIN s \union {Len(s) + 1}
         /\ Len(s) + 1 \notin DOMAIN s
         /\ \A k \in DOMAIN s : Append(s, e)[k] = s[k]
         /\ Append(s, e)[Len(s) + 1] = e
OBVIOUS

(* Tail moves every element up by one place, and no two to the same.       *)
LEMMA TailElements ==
  ASSUME NEW T, NEW s \in Seq(T), s # <<>>
  PROVE  /\ Tail(s) \in Seq(T) /\ Head(s) \in T
         /\ 1 \in DOMAIN s /\ Head(s) = s[1]
         /\ \A k \in DOMAIN Tail(s) : /\ k + 1 \in DOMAIN s /\ k + 1 # 1
                                      /\ Tail(s)[k] = s[k + 1]
         /\ \A j, k \in DOMAIN Tail(s) : j + 1 = k + 1 => j = k
OBVIOUS

(* A call sends its request.                                               *)
LEMMA SubmitStep ==
  ASSUME PluginInv, NEW c \in Call, Submit(c),
         ~call[c].aborted /\ pending[call[c].id] = None /\ child = call[c].generation
  PROVE  PluginInv'
<1>0. TypeOK /\ WaitInv /\ QueueInv /\ FreshInv /\ DenyInv /\ OwnAnswers /\ OnlyChildRuns
      /\ RunsAsDecided /\ call[c] \in CallType
  BY DEF PluginInv, TypeOK
<1> DEFINE i == call[c].id
           r == [id |-> i, request |-> c]
           sent == [call[c] EXCEPT !.step = "waiting"]
<1>1. /\ call[c].step = "started"
      /\ pending' = [pending EXCEPT ![i] = c]
      /\ call' = [call EXCEPT ![c] = sent]
      /\ input' = [input EXCEPT ![child] = Append(@, r)]
      /\ UNCHANGED <<closed, child, starting, process, output, denied, failureAction>>
  BY DEF Submit
<1>2. child \in Generation /\ i \in Id /\ r \in Request
  BY <1>0, <1>1 DEF FreshInv, TypeOK, Request
<1>3. sent \in CallType /\ sent.step = "waiting" /\ sent.id = i /\ sent.generation = child
      /\ sent.answered = call[c].answered /\ sent.verdict = call[c].verdict
  BY <1>0 DEF CallType
<1>4. r.id = i /\ r.request = c
  OBVIOUS
<1> HIDE DEF i, r, sent
<1>5. /\ call' \in [Call -> CallType] /\ call'[c] = sent
      /\ \A d \in Call : d # c => call'[d] = call[d]
      /\ pending' \in [Id -> Call \union {None}] /\ pending'[i] = c
      /\ \A j \in Id : j # i => pending'[j] = pending[j]
  BY <1>0, <1>1, <1>2, <1>3 DEF TypeOK
<1>6. pending[i] = None
  BY DEF i
<1>7. WaitInv'
  <2>1. ASSUME NEW j \in Id, pending'[j] # None
        PROVE  call'[pending'[j]].step = "waiting" /\ call'[pending'[j]].id = j
    <3>1. CASE j = i
      BY <3>1, <1>3, <1>5
    <3>2. CASE j # i
      <4>1. pending'[j] = pending[j] /\ pending[j] \in Call
        BY <3>2, <2>1, <1>5, <1>0 DEF TypeOK
      <4>2. call[pending[j]].step = "waiting" /\ call[pending[j]].id = j
        BY <4>1, <2>1, <1>0 DEF WaitInv
      <4> QED BY <4>1, <4>2, <1>1, <1>5
    <3> QED BY <3>1, <3>2
  <2>2. ASSUME NEW d \in Call, call'[d].step = "waiting"
        PROVE  /\ call'[d].id \in Id /\ pending'[call'[d].id] = d
               /\ call'[d].generation = child' /\ child' # None
    <3>1. CASE d = c
      BY <3>1, <1>1, <1>2, <1>3, <1>5, NoneAssumption DEF Generation
    <3>2. CASE d # c
      <4>1. call'[d] = call[d]
        BY <3>2, <1>5
      <4>2. /\ call[d].id \in Id /\ pending[call[d].id] = d
            /\ call[d].generation = child /\ child # None
        BY <4>1, <2>2, <1>0 DEF WaitInv
      <4>3. call[d].id # i
        BY <4>2, <1>6, NoneAssumption
      <4> QED BY <4>1, <4>2, <4>3, <1>1, <1>5
    <3> QED BY <3>1, <3>2
  <2> QED BY <2>1, <2>2 DEF WaitInv
<1>8. QueueInv'
  <2> DEFINE s == input[child]
  <2>1. s \in Seq(Request) /\ output[child] \in Seq(Line) /\ input'[child] = Append(s, r)
    BY <1>0, <1>1, <1>2 DEF TypeOK
  <2>2. /\ DOMAIN input'[child] = DOMAIN s \union {Len(s) + 1}
        /\ Len(s) + 1 \notin DOMAIN s
        /\ \A k \in DOMAIN s : input'[child][k] = s[k]
        /\ input'[child][Len(s) + 1] = r
    BY <2>1, <1>2, AppendElements
  <2>3. /\ \A k \in DOMAIN s : s[k] \in Request
        /\ \A k \in DOMAIN output[child] : output[child][k] \in Line
    BY <2>1
  <2>4. child # None
    BY <1>2, NoneAssumption DEF Generation
  <2>5. /\ \A k \in DOMAIN s : /\ s[k].id \in Id /\ s[k].id # i
                               /\ pending'[s[k].id] = s[k].request
        /\ \A k \in DOMAIN output[child] : /\ output[child][k].id # i
                                           /\ pending'[output[child][k].id]
                                                = output[child][k].request
    <3>1. \A k \in DOMAIN s : /\ s[k].id \in Id /\ s[k].request \in Call
                              /\ pending[s[k].id] = s[k].request
      BY <2>3, <2>4, <1>0 DEF Request, QueueInv
    <3>2. \A k \in DOMAIN output[child] :
             /\ output[child][k].id \in Id /\ output[child][k].request \in Call
             /\ pending[output[child][k].id] = output[child][k].request
      BY <2>3, <2>4, <1>0 DEF Line, QueueInv
    <3> QED BY <3>1, <3>2, <1>5, <1>6, NoneAssumption
  <2> HIDE DEF s
  <2>6. /\ child' = child /\ output'[child] = output[child]
    BY <1>1
  <2>7. \A k \in DOMAIN input'[child] :
          pending'[input'[child][k].id] = input'[child][k].request
    BY <2>2, <2>5, <1>4, <1>5
  <2>8. \A j, k \in DOMAIN input'[child] : input'[child][j].id = input'[child][k].id => j = k
    <3>1. \A j, k \in DOMAIN s : s[j].id = s[k].id => j = k
      BY <2>4, <1>0 DEF QueueInv, s
    <3> QED BY <3>1, <2>2, <2>5, <1>4
  <2>9. \A j \in DOMAIN input'[child], k \in DOMAIN output[child] :
          input'[child][j].id # output[child][k].id
    <3>1. \A j \in DOMAIN s, k \in DOMAIN output[child] : s[j].id # output[child][k].id
      BY <2>4, <1>0 DEF QueueInv, s
    <3> QED BY <3>1, <2>2, <2>5, <1>4
  <2>10. \A j, k \in DOMAIN output[child] : output[child][j].id = output[child][k].id => j = k
    BY <2>4, <1>0 DEF QueueInv
  <2> QED BY <2>5, <2>6, <2>7, <2>8, <2>9, <2>10 DEF QueueInv
<1>9. TypeOK'
  <2>1. input' \in [Generation -> Seq(Request)]
    BY <1>0, <1>1, <1>2, AppendElements DEF TypeOK
  <2> QED BY <2>1, <1>0, <1>1, <1>5 DEF TypeOK
<1>10. FreshInv'
  <2>1. process[child].state # "none"
    BY <1>0, <1>2 DEF FreshInv
  <2>2. \A g \in Generation : process[g].state = "none" => input'[g] = input[g]
    BY <2>1, <1>0, <1>1 DEF TypeOK
  <2> QED BY <2>1, <2>2, <1>0, <1>1, <1>3, <1>5 DEF FreshInv
<1>11. DenyInv' /\ OwnAnswers' /\ RunsAsDecided'
  BY <1>0, <1>1, <1>3, <1>5 DEF DenyInv, OwnAnswers, RunsAsDecided
<1>12. OnlyChildRuns'
  BY <1>0, <1>1 DEF OnlyChildRuns
<1> QED BY <1>7, <1>8, <1>9, <1>10, <1>11, <1>12 DEF PluginInv

(* A line of the adapter that can be read.                                 *)
LEMMA LineStep ==
  ASSUME PluginInv, NEW g \in Generation, HandleLine(g), Head(output[g]).answer # "invalid"
  PROVE  PluginInv'
<1>0. TypeOK /\ WaitInv /\ QueueInv /\ FreshInv /\ DenyInv /\ OwnAnswers /\ OnlyChildRuns
      /\ RunsAsDecided
  BY DEF PluginInv
<1> DEFINE line == Head(output[g])
           c == pending[line.id]
<1>1. /\ output[g] # <<>> /\ output' = [output EXCEPT ![g] = Tail(output[g])]
      /\ UNCHANGED <<closed, starting, input, failureAction, child, process>>
      /\ IF IsAwaited(g, line) THEN Settle({c}, Decision(line), line.request)
                               ELSE UNCHANGED <<call, pending, denied>>
  BY DEF HandleLine
<1>2. /\ output[g] \in Seq(Line) /\ Tail(output[g]) \in Seq(Line) /\ line \in Line
      /\ 1 \in DOMAIN output[g] /\ line = output[g][1]
      /\ \A k \in DOMAIN Tail(output[g]) : /\ k + 1 \in DOMAIN output[g] /\ k + 1 # 1
                                           /\ Tail(output[g])[k] = output[g][k + 1]
      /\ \A j, k \in DOMAIN Tail(output[g]) : j + 1 = k + 1 => j = k
  <2>1. output[g] \in Seq(Line)
    BY <1>0 DEF TypeOK
  <2> QED BY <2>1, <1>1, TailElements
<1>3. line.id \in Id /\ line.request \in Call /\ Decision(line) \in Verdict
  BY <1>2, <1>0 DEF Line, Answer, Decision, Verdict, TypeOK
<1>4. /\ output' \in [Generation -> Seq(Line)] /\ output'[g] = Tail(output[g])
      /\ \A q \in Generation : q # g => output'[q] = output[q]
  BY <1>0, <1>1, <1>2 DEF TypeOK
<1>5. process[g].state # "none"
  BY <1>0, <1>1 DEF FreshInv
<1> HIDE DEF line
<1>6. CASE ~IsAwaited(g, line)
  <2>1. UNCHANGED <<call, pending, denied, closed, starting, input, failureAction, child, process>>
    BY <1>6, <1>1
  <2>2. QueueInv'
    <3>1. CASE child # g \/ child = None
      <4>1. child # None => child \in Generation /\ output'[child] = output[child]
        BY <3>1, <1>0, <1>4 DEF TypeOK
      <4> QED BY <4>1, <2>1, <1>0 DEF QueueInv
    <3>2. CASE child = g /\ child # None
      BY <3>2, <2>1, <1>0, <1>2, <1>4 DEF QueueInv
    <3> QED BY <3>1, <3>2
  <2>3. TypeOK' /\ WaitInv' /\ DenyInv' /\ OwnAnswers' /\ OnlyChildRuns' /\ RunsAsDecided'
    BY <2>1, <1>0, <1>4 DEF TypeOK, WaitInv, DenyInv, OwnAnswers, OnlyChildRuns, RunsAsDecided
  <2>4. FreshInv'
    BY <2>1, <1>0, <1>4, <1>5 DEF FreshInv
  <2> QED BY <2>2, <2>3, <2>4 DEF PluginInv
<1>7. CASE IsAwaited(g, line)
  <2>1. c \in Call /\ call[c].step = "waiting" /\ call[c].generation = g /\ child = g /\ child # None
    <3>1. c \in Call /\ c # None /\ call[c].generation = g
      BY <1>7, <1>3, <1>0 DEF IsAwaited, TypeOK
    <3>2. call[c].step = "waiting"
      BY <3>1, <1>3, <1>0 DEF WaitInv
    <3> QED BY <3>1, <3>2, <1>0 DEF WaitInv
  <2>2. line.request = c
    BY <2>1, <1>2, <1>0 DEF QueueInv
  <2>3. Settle({c}, Decision(line), line.request)
    BY <1>1, <1>7
  <2> HIDE DEF c
  <2>4. {c} \in SUBSET Call /\ line.request \in Call \union {None}
    BY <2>1, <1>3
  <2>5. Settled({c}, Decision(line), line.request)
    BY <2>3, <2>4, <1>0, <1>3, SettleDoes
  <2>6. WaitInv'
    BY <2>4, <2>5, <1>0, <1>1, <1>3, SettleKeepsWaiting
  <2>7. DenyInv' /\ OwnAnswers' /\ RunsAsDecided'
    BY <2>2, <2>4, <2>5, <1>0, <1>3, SettleKeepsVerdicts
  <2>8. TypeOK'
    BY <2>5, <1>0, <1>1, <1>4 DEF TypeOK, Settled
  <2>9. FreshInv'
    <3>1. /\ child' \in {child, None} /\ starting' \in {starting, None}
          /\ \A q \in Generation :
               /\ process'[q].state = "none" <=> process[q].state = "none"
               /\ process[q].state = "none" => input'[q] = input[q] /\ output'[q] = output[q]
      BY <1>1, <1>4, <1>5
    <3> QED BY <3>1, <2>4, <2>5, <1>0, <1>3, SettleKeepsFresh
  <2>10. OnlyChildRuns'
    BY <1>0, <1>1 DEF OnlyChildRuns
  <2>11. QueueInv'
    <3>1. /\ child' = g /\ input'[g] = input[g] /\ output'[g] = Tail(output[g])
          /\ child = g /\ child # None
      BY <2>1, <1>1, <1>4
    <3>2. \A i \in Id : i # line.id => pending'[i] = pending[i]
      <4>1. \A i \in Id : pending[i] = c => i = line.id
        BY <2>1, <1>0, <1>3, NoneAssumption DEF WaitInv, c
      <4> QED BY <4>1, <2>5 DEF Settled
    <3>3. \A k \in DOMAIN input[g] : /\ input[g][k].id \in Id /\ input[g][k].id # line.id
      <4>1. \A k \in DOMAIN input[g] : input[g][k] \in Request
        BY <1>0 DEF TypeOK
      <4> QED BY <4>1, <3>1, <1>0, <1>2 DEF QueueInv, Request
    <3>4. \A k \in DOMAIN Tail(output[g]) :
             /\ Tail(output[g])[k].id \in Id /\ Tail(output[g])[k].id # line.id
             /\ pending[Tail(output[g])[k].id] = Tail(output[g])[k].request
      <4>1. \A k \in DOMAIN output[g] : output[g][k] \in Line
        BY <1>2
      <4> QED BY <4>1, <3>1, <1>0, <1>2 DEF QueueInv, Line
    <3>5. /\ \A k \in DOMAIN input[g] : pending'[input[g][k].id] = input[g][k].request
          /\ \A j, k \in DOMAIN input[g] : input[g][j].id = input[g][k].id => j = k
      BY <3>1, <3>2, <3>3, <1>0 DEF QueueInv
    <3>6. \A k \in DOMAIN Tail(output[g]) :
             pending'[Tail(output[g])[k].id] = Tail(output[g])[k].request
      BY <3>2, <3>4
    <3>7. \A j, k \in DOMAIN Tail(output[g]) :
             Tail(output[g])[j].id = Tail(output[g])[k].id => j = k
      BY <3>1, <1>0, <1>2 DEF QueueInv
    <3>8. \A j \in DOMAIN input[g], k \in DOMAIN Tail(output[g]) :
             input[g][j].id # Tail(output[g])[k].id
      BY <3>1, <1>0, <1>2 DEF QueueInv
    <3> QED BY <3>1, <3>5, <3>6, <3>7, <3>8 DEF QueueInv
  <2> QED BY <2>6, <2>7, <2>8, <2>9, <2>10, <2>11 DEF PluginInv
<1> QED BY <1>6, <1>7

(* The adapter reads a request and writes a line for it.                   *)
LEMMA ReplyStep ==
  ASSUME PluginInv, NEW g \in Generation, Reply(g)
  PROVE  PluginInv'
<1>0. TypeOK /\ WaitInv /\ QueueInv /\ FreshInv /\ DenyInv /\ OwnAnswers /\ OnlyChildRuns
      /\ RunsAsDecided
  BY DEF PluginInv
<1> DEFINE r == Head(input[g])
<1>1. PICK answer \in Answer :
        output' = [output EXCEPT ![g] = Append(@, [id |-> r.id, request |-> r.request,
                                                   answer |-> answer])]
  BY DEF Reply
<1> DEFINE line == [id |-> r.id, request |-> r.request, answer |-> answer]
<1>2. /\ input[g] # <<>> /\ input' = [input EXCEPT ![g] = Tail(input[g])]
      /\ output' = [output EXCEPT ![g] = Append(output[g], line)]
      /\ UNCHANGED <<closed, child, starting, pending, call, process, denied, failureAction>>
  BY <1>1 DEF Reply
<1>3. /\ input[g] \in Seq(Request) /\ output[g] \in Seq(Line)
  BY <1>0 DEF TypeOK
<1>4. /\ Tail(input[g]) \in Seq(Request) /\ r \in Request
      /\ 1 \in DOMAIN input[g] /\ r = input[g][1]
      /\ \A k \in DOMAIN Tail(input[g]) : /\ k + 1 \in DOMAIN input[g] /\ k + 1 # 1
                                          /\ Tail(input[g])[k] = input[g][k + 1]
      /\ \A j, k \in DOMAIN Tail(input[g]) : j + 1 = k + 1 => j = k
  BY <1>2, <1>3, TailElements
<1>5. line \in Line /\ line.id = r.id /\ line.request = r.request
  BY <1>4 DEF Line, Request
<1> HIDE DEF line, r
<1> DEFINE s == output[g]
<1>6. /\ Append(s, line) \in Seq(Line)
      /\ DOMAIN Append(s, line) = DOMAIN s \union {Len(s) + 1}
      /\ Len(s) + 1 \notin DOMAIN s
      /\ \A k \in DOMAIN s : Append(s, line)[k] = s[k]
      /\ Append(s, line)[Len(s) + 1] = line
  BY <1>3, <1>5, AppendElements
<1>7. /\ input' \in [Generation -> Seq(Request)] /\ input'[g] = Tail(input[g])
      /\ output' \in [Generation -> Seq(Line)] /\ output'[g] = Append(s, line)
      /\ \A q \in Generation : q # g => input'[q] = input[q] /\ output'[q] = output[q]
  BY <1>0, <1>2, <1>4, <1>6 DEF TypeOK
<1>8. QueueInv'
  <2>1. CASE child = None
    BY <2>1, <1>2 DEF QueueInv
  <2>2. CASE child # None /\ child # g
    <3>1. child \in Generation /\ input'[child] = input[child] /\ output'[child] = output[child]
      BY <2>2, <1>0, <1>7 DEF TypeOK
    <3>2. child' = child /\ pending' = pending
      BY <1>2
    <3> QED BY <3>1, <3>2, <1>0 DEF QueueInv
  <2>3. CASE child = g /\ child # None
    <3> DEFINE t == Append(s, line)
               u == Tail(input[g])
    <3>1. child' = g /\ input'[g] = u /\ output'[g] = t /\ pending' = pending
      BY <2>3, <1>2, <1>7
    <3>2. \A k \in DOMAIN u : /\ pending[u[k].id] = u[k].request /\ u[k].id # line.id
                              /\ \A j \in DOMAIN s : s[j].id # u[k].id
      BY <2>3, <1>0, <1>4, <1>5 DEF QueueInv
    <3>3. \A j, k \in DOMAIN u : u[j].id = u[k].id => j = k
      BY <2>3, <1>0, <1>4 DEF QueueInv
    <3>4. /\ pending[line.id] = line.request
          /\ \A j \in DOMAIN s : s[j].id # line.id /\ pending[s[j].id] = s[j].request
          /\ \A j, k \in DOMAIN s : s[j].id = s[k].id => j = k
      BY <2>3, <1>0, <1>4, <1>5 DEF QueueInv
    <3> HIDE DEF s, u
    <3>5. \A k \in DOMAIN t : pending[t[k].id] = t[k].request
      BY <3>4, <1>6
    <3>6. \A j, k \in DOMAIN t : t[j].id = t[k].id => j = k
      BY <3>4, <1>6
    <3>7. \A j \in DOMAIN u, k \in DOMAIN t : u[j].id # t[k].id
      BY <3>2, <1>6
    <3> HIDE DEF t
    <3> QED BY <3>1, <3>2, <3>3, <3>5, <3>6, <3>7 DEF QueueInv
  <2> QED BY <2>1, <2>2, <2>3
<1>9. TypeOK' /\ WaitInv' /\ DenyInv' /\ OwnAnswers' /\ OnlyChildRuns' /\ RunsAsDecided'
  BY <1>0, <1>2, <1>7 DEF TypeOK, WaitInv, DenyInv, OwnAnswers, OnlyChildRuns, RunsAsDecided
<1>10. FreshInv'
  <2>1. process[g].state # "none"
    BY <1>0, <1>2 DEF FreshInv
  <2> QED BY <2>1, <1>0, <1>2, <1>7 DEF FreshInv
<1> QED BY <1>8, <1>9, <1>10 DEF PluginInv

(* The adapter ends.                                                       *)
LEMMA ExitStep ==
  ASSUME PluginInv, NEW g \in Generation, Exit(g)
  PROVE  PluginInv'
<1>0. TypeOK /\ WaitInv /\ QueueInv /\ FreshInv /\ DenyInv /\ OwnAnswers /\ OnlyChildRuns
      /\ RunsAsDecided
  BY DEF PluginInv
<1>1. /\ process' = [process EXCEPT ![g] = [process[g] EXCEPT !.alive = FALSE]]
      /\ UNCHANGED <<closed, child, starting, pending, call, input, output, denied, failureAction>>
  BY DEF Exit
<1>2. /\ process' \in [Generation -> ProcessType] /\ ~process'[g].alive
      /\ \A q \in Generation : /\ process'[q].state = process[q].state
                               /\ q # g => process'[q] = process[q]
  BY <1>0, <1>1 DEF TypeOK, ProcessType
<1>3. TypeOK' /\ WaitInv' /\ QueueInv' /\ DenyInv' /\ OwnAnswers' /\ RunsAsDecided'
  BY <1>0, <1>1, <1>2 DEF TypeOK, WaitInv, QueueInv, DenyInv, OwnAnswers, RunsAsDecided
<1>4. OnlyChildRuns'
  BY <1>0, <1>1, <1>2 DEF OnlyChildRuns
<1>5. FreshInv'
  <2>1. \A c \in Call : call[c].generation \in Generation \union {None}
    BY <1>0 DEF TypeOK, CallType
  <2> QED BY <2>1, <1>0, <1>1, <1>2 DEF FreshInv, TypeOK, Generation
<1> QED BY <1>3, <1>4, <1>5 DEF PluginInv

-----------------------------------------------------------------------------
(* The theorems.                                                           *)

(* The invariant holds initially.                                          *)
LEMMA InitInv == Init => PluginInv
<1> SUFFICES ASSUME Init PROVE PluginInv
  OBVIOUS
<1>1. /\ \A c \in Call : call[c] = NewCall
      /\ \A g \in Generation : /\ process[g] = [state |-> "none", alive |-> FALSE, told |-> FALSE]
                               /\ input[g] = <<>> /\ output[g] = <<>>
      /\ \A i \in Id : pending[i] = None
      /\ child = None /\ starting = None
  BY DEF Init
<1>2. TypeOK
  <2>1. NewCall \in CallType
    BY DEF NewCall, CallType
  <2>2. [state |-> "none", alive |-> FALSE, told |-> FALSE] \in ProcessType
    BY DEF ProcessType
  <2>3. \A T : <<>> \in Seq(T)
    OBVIOUS
  <2> QED BY <2>1, <2>2, <2>3 DEF Init, TypeOK
<1>3. WaitInv /\ QueueInv /\ DenyInv /\ OwnAnswers /\ RunsAsDecided /\ OnlyChildRuns
  BY <1>1 DEF WaitInv, QueueInv, DenyInv, OwnAnswers, RunsAsDecided, OnlyChildRuns, NewCall
<1>4. FreshInv
  BY <1>1, NoneAssumption DEF FreshInv, NewCall, Generation
<1> QED BY <1>2, <1>3, <1>4 DEF PluginInv

(* Every step keeps the invariant, and so does every stutter.              *)
LEMMA StepInv == PluginInv /\ [Next]_vars => PluginInv'
<1> SUFFICES ASSUME PluginInv, [Next]_vars PROVE PluginInv'
  OBVIOUS
<1>1. ASSUME NEW c \in Call, Arrive(c) PROVE PluginInv'
  BY <1>1, UncheckedSteps, HoldSteps, StartStep DEF Arrive
<1>2. ASSUME NEW c \in Call, Submit(c) PROVE PluginInv'
  BY <1>2, UncheckedSteps, SubmitStep
<1>3. ASSUME NEW c \in Call, Unwritable(c) \/ Proceed(c) \/ Abort(c) PROVE PluginInv'
  BY <1>3, UncheckedSteps, ProceedStep, ResumeSteps
<1>4. ASSUME NEW c \in Call, GiveUp(c) PROVE PluginInv'
  <2>1. call[c].generation \in Generation
    BY <1>4 DEF GiveUp, PluginInv, WaitInv, TypeOK
  <2> QED BY <1>4, <2>1, RetiringSteps
<1>5. ASSUME NEW g \in Generation, StartEvent(g) \/ Closed(g) \/ WriteFailed(g) PROVE PluginInv'
  BY <1>5, ResumeSteps, RetiringSteps DEF StartEvent
<1>6. ASSUME NEW g \in Generation, HandleLine(g) PROVE PluginInv'
  BY <1>6, LineStep, RetiringSteps
<1>7. ASSUME NEW g \in Generation, Reply(g) \/ Exit(g) PROVE PluginInv'
  BY <1>7, ReplyStep, ExitStep
<1>8. CASE UNCHANGED vars
  BY <1>8 DEF vars, PluginInv, TypeOK, WaitInv, QueueInv, FreshInv, DenyInv, OwnAnswers,
             OnlyChildRuns, RunsAsDecided
<1> QED BY <1>1, <1>2, <1>3, <1>4, <1>5, <1>6, <1>7, <1>8, DisposeStep DEF Next

(* The invariant holds in every state.                                     *)
THEOREM PluginCorrect == Spec => []PluginInv
<1> QED BY InitInv, StepInv, PTL DEF Spec

(* Every variable keeps its type.                                          *)
THEOREM PluginTypeCorrect == Spec => []TypeOK
<1>1. PluginInv => TypeOK
  BY DEF PluginInv
<1> QED BY <1>1, PluginCorrect, PTL

(* handleLine: no call is decided by the answer to another, however late   *)
(* lines come and ids are used again.                                      *)
THEOREM OwnAnswersHolds == Spec => []OwnAnswers
<1>1. PluginInv => OwnAnswers
  BY DEF PluginInv
<1> QED BY <1>1, PluginCorrect, PTL

(* retireGeneration: nobody waits for an adapter that was given up, and    *)
(* the child has the request of everybody who waits.                       *)
THEOREM WaitingForChildHolds == Spec => []WaitingForChild
<1>1. PluginInv => WaitingForChild
  <2> SUFFICES ASSUME PluginInv PROVE WaitingForChild
    OBVIOUS
  <2>1. WaitInv
    BY DEF PluginInv
  <2>2. ASSUME NEW c \in Call, call[c].step = "waiting"
        PROVE  \E i \in Id : pending[i] = c /\ call[c].id = i /\ call[c].generation = child
    BY <2>1, <2>2 DEF WaitInv
  <2>3. ASSUME NEW c \in Call, NEW i \in Id, pending[i] = c
        PROVE  call[c].step = "waiting"
    BY <2>1, <2>3, NoneAssumption DEF WaitInv
  <2> QED BY <2>2, <2>3 DEF WaitingForChild
<1> QED BY <1>1, PluginCorrect, PTL

(* terminate and retireGeneration: two adapters never run untold, and none *)
(* outlives the plugin.                                                    *)
THEOREM OnlyChildRunsHolds == Spec => []OnlyChildRuns
<1>1. PluginInv => OnlyChildRuns
  BY DEF PluginInv
<1> QED BY <1>1, PluginCorrect, PTL

(* The guard: a denied call does not run whatever other listeners say.     *)
THEOREM RunsAsDecidedHolds == Spec => []RunsAsDecided
<1>1. PluginInv => RunsAsDecided
  BY DEF PluginInv
<1> QED BY <1>1, PluginCorrect, PTL

-----------------------------------------------------------------------------
(* What the harness sees.                                                  *)

Gates == [c \in Call |-> Gated(call[c])]
GateStep == [Gate!Next]_(Gate!gateVars)

(* The steps of a call that is not decided.                                *)
Open == {"new", "starting", "started", "waiting"}

(* Where nothing is decided, the gates stay as they are.                   *)
LEMMA GatesStay ==
  ASSUME UNCHANGED failureAction, \A c \in Call : Gated(call'[c]) = Gated(call[c])
  PROVE  GateStep
BY DEF GateStep, Gate!gateVars

(* Settling undecided calls gives them the verdict, and no others.         *)
LEMMA SettleGates ==
  ASSUME PluginInv, NEW S \in SUBSET Call, NEW verdict \in Verdict,
         NEW request \in Call \union {None}, Settle(S, verdict, request),
         \A c \in S : call[c].step \in Open
  PROVE  /\ Gates' = [c \in Call |-> IF c \in S THEN verdict ELSE Gates[c]]
         /\ \A c \in S : Gates[c] = IF call[c].step = "new" THEN "new" ELSE "held"
<1>1. Settled(S, verdict, request)
  BY SettleDoes DEF PluginInv
<1>2. \A c \in S : Gated(call'[c]) = verdict
  BY <1>1 DEF Settled, Gated
<1>3. \A c \in Call \ S : Gated(call'[c]) = Gated(call[c])
  BY <1>1 DEF Settled
<1>4. \A c \in S : Gated(call[c]) = IF call[c].step = "new" THEN "new" ELSE "held"
  BY DEF Gated, Open
<1> QED BY <1>2, <1>3, <1>4 DEF Gates

(* Calls that cannot be checked fail together.                             *)
LEMMA FallbackGates ==
  ASSUME PluginInv, NEW S \in SUBSET Call, Fallback(S), UNCHANGED failureAction,
         \A c \in S : call[c].step \in Open
  PROVE  GateStep
<1>1. failureAction \in Verdict
  BY DEF PluginInv, TypeOK
<1>2. /\ Gates' = [c \in Call |-> IF c \in S THEN failureAction ELSE Gates[c]]
      /\ \A c \in S : Gates[c] \in {"new", "held"}
  BY <1>1, SettleGates DEF Fallback
<1>3. S \in SUBSET {c \in Call : Gates[c] \in {"new", "held"}}
  BY <1>2
<1>4. Gate!Fail
  BY <1>2, <1>3 DEF Gate!Fail, Gate!Decide, Gate!Undecided, Gates
<1> QED BY <1>4 DEF GateStep, Gate!Next, Gate!gateVars

(* So do those of a generation that is given up.                           *)
LEMMA RetireGates ==
  ASSUME PluginInv, NEW g, NEW others \in SUBSET Call, RetireGeneration(g, others),
         UNCHANGED failureAction, \A c \in others : call[c].step \in Open
  PROVE  GateStep
<1>1. \A c \in Pending : c \in Call /\ call[c].step = "waiting"
  <2> SUFFICES ASSUME NEW i \in Id, pending[i] # None
               PROVE  pending[i] \in Call /\ call[pending[i]].step = "waiting"
    BY DEF Pending
  <2> QED BY DEF PluginInv, TypeOK, WaitInv
<1> DEFINE S == PendingOf(g) \union others
<1>2. S \in SUBSET Call /\ \A c \in S : call[c].step \in Open
  BY <1>1 DEF PendingOf, Open
<1>3. Fallback(S)
  BY DEF RetireGeneration
<1> HIDE DEF S
<1> QED BY <1>2, <1>3, FallbackGates

(* A call reaches the plugin.                                              *)
LEMMA ArriveGates ==
  ASSUME PluginInv, NEW c \in Call, Arrive(c)
  PROVE  GateStep
<1>1. CASE Unsupported(c)
  <2>1. "deny" \in Verdict /\ call[c].step = "new" /\ Settle({c}, "deny", None)
    BY <1>1 DEF Unsupported, Verdict
  <2>2. /\ Gates' = [d \in Call |-> IF d \in {c} THEN "deny" ELSE Gates[d]]
        /\ Gates[c] = "new"
    BY <2>1, SettleGates DEF Open
  <2>3. Gate!Refuse(c)
    BY <2>2 DEF Gate!Refuse, Gate!Decide, Gate!Undecided, Gates
  <2>4. UNCHANGED failureAction
    BY <1>1 DEF Unsupported
  <2> QED BY <2>3, <2>4 DEF GateStep, Gate!Next, Gate!gateVars
<1>2. CASE Uncheckable(c)
  BY <1>2, FallbackGates DEF Uncheckable, Open
<1>3. ASSUME NEW i \in Id, CheckWithChild(c, i) \/ CheckWhileStarting(c, i) \/ CheckStarts(c, i)
      PROVE  GateStep
  <2>1. PICK step \in {"starting", "started"} : \E g \in Generation \union {None} : Hold(c, i, g, step)
    <3>1. {c, child, starting} \subseteq Generation \union {None}
      BY DEF PluginInv, TypeOK, Generation
    <3> QED BY <1>3, <3>1 DEF CheckWithChild, CheckWhileStarting, CheckStarts
  <2>2. call[c].step = "new" /\ UNCHANGED failureAction
    BY <1>3 DEF CheckWithChild, CheckWhileStarting, CheckStarts
  <2>3. call \in [Call -> CallType]
    BY DEF PluginInv, TypeOK
  <2>4. call'[c].step = step /\ \A d \in Call \ {c} : call'[d] = call[d]
    BY <2>1, <2>3 DEF Hold, CallType
  <2>5. Gated(call[c]) = "new" /\ Gated(call'[c]) = "held"
    BY <2>1, <2>2, <2>4 DEF Gated
  <2>6. Gates[c] = "new" /\ Gates' = [Gates EXCEPT ![c] = "held"]
    BY <2>4, <2>5 DEF Gates
  <2>7. Gate!Hold(c)
    BY <2>6 DEF Gate!Hold, Gates
  <2> QED BY <2>2, <2>7 DEF GateStep, Gate!Next, Gate!gateVars
<1> QED BY <1>1, <1>2, <1>3 DEF Arrive

(* The rest of check.                                                      *)
LEMMA SubmitGates ==
  ASSUME PluginInv, NEW c \in Call, Submit(c)
  PROVE  GateStep
<1>1. call[c].step = "started" /\ UNCHANGED failureAction
  BY DEF Submit
<1>2. CASE Fallback({c})
  BY <1>1, <1>2, FallbackGates DEF Open
<1>3. CASE call' = [call EXCEPT ![c].step = "waiting"]
  <2>1. call \in [Call -> CallType]
    BY DEF PluginInv, TypeOK
  <2>2. call'[c].step = "waiting" /\ \A d \in Call \ {c} : call'[d] = call[d]
    BY <1>3, <2>1 DEF CallType
  <2> QED BY <1>1, <2>2, GatesStay DEF Gated
<1> QED BY <1>2, <1>3 DEF Submit

(* The events of a process.                                                *)
LEMMA EventGates ==
  ASSUME PluginInv, NEW g \in Generation, StartEvent(g) \/ Closed(g) \/ WriteFailed(g)
  PROVE  GateStep
<1>1. Joined(g) \in SUBSET Call /\ \A c \in Joined(g) : call[c].step = "starting"
  BY DEF Joined
<1>2. CASE Spawned(g)
  <2>1. /\ call' = [c \in Call |-> IF c \in Joined(g) THEN [call[c] EXCEPT !.step = "started"]
                                                      ELSE call[c]]
        /\ UNCHANGED failureAction
    BY <1>2 DEF Spawned
  <2>2. call \in [Call -> CallType]
    BY DEF PluginInv, TypeOK
  <2>3. \A c \in Call : IF c \in Joined(g) THEN call'[c].step = "started" ELSE call'[c] = call[c]
    BY <2>1, <2>2 DEF CallType
  <2> QED BY <1>1, <2>1, <2>3, GatesStay DEF Gated
<1>3. CASE SpawnedDisposed(g)
  BY <1>1, <1>3, RetireGates DEF SpawnedDisposed, Open
<1>4. CASE SpawnFailed(g)
  BY <1>1, <1>4, RetireGates DEF SpawnFailed, Open
<1>5. CASE Closed(g) \/ WriteFailed(g)
  BY <1>5, RetireGates DEF Closed, WriteFailed
<1> QED BY <1>2, <1>3, <1>4, <1>5 DEF StartEvent

(* handleLine: only a call that waits is decided, and by a verdict.        *)
LEMMA LineGates ==
  ASSUME PluginInv, NEW g \in Generation, HandleLine(g)
  PROVE  GateStep
<1> DEFINE line == Head(output[g])
           c == pending[line.id]
<1>1. output[g] # <<>> /\ UNCHANGED failureAction
  BY DEF HandleLine
<1>2. line \in Line
  BY <1>1 DEF PluginInv, TypeOK
<1> HIDE DEF line
<1>3. CASE line.answer = "invalid"
  BY <1>1, <1>3, RetireGates DEF HandleLine, line
<1>4. CASE line.answer # "invalid" /\ IsAwaited(g, line)
  <2>1. c \in Call /\ call[c].step = "waiting"
    BY <1>2, <1>4 DEF IsAwaited, PluginInv, TypeOK, WaitInv, Line
  <2>2. Decision(line) \in Verdict
    BY <1>2, <1>4 DEF Decision, Line, Answer, PluginInv, TypeOK
  <2>3. Settle({c}, Decision(line), line.request) /\ line.request \in Call
    BY <1>2, <1>4 DEF HandleLine, Line, line
  <2> HIDE DEF c
  <2>4. /\ Gates' = [d \in Call |-> IF d \in {c} THEN Decision(line) ELSE Gates[d]]
        /\ Gates[c] = "held"
    BY <2>1, <2>2, <2>3, SettleGates DEF Open
  <2>5. Gate!Judge(c)
    BY <2>2, <2>4 DEF Gate!Judge, Gate!Decide, Gate!Verdict, Verdict, Gates
  <2> QED BY <1>1, <2>1, <2>5 DEF GateStep, Gate!Next, Gate!gateVars
<1>5. CASE line.answer # "invalid" /\ ~IsAwaited(g, line)
  BY <1>1, <1>5, GatesStay DEF HandleLine, line
<1> QED BY <1>3, <1>4, <1>5

(* A call leaves the listeners.                                            *)
LEMMA ProceedGates ==
  ASSUME PluginInv, NEW c \in Call, Proceed(c)
  PROVE  GateStep
<1>0. call \in [Call -> CallType]
  BY DEF PluginInv, TypeOK
<1>1. PICK step \in {"stopped", "approved", "ran"} :
        /\ step # "stopped" => c \notin denied
        /\ call'[c].step = step /\ \A d \in Call \ {c} : call'[d] = call[d]
  <2>1. PICK downstream \in Verdict, decision \in Verdict, step \in {"stopped", "approved", "ran"} :
          /\ step = "ran" => c \notin denied /\ decision = "allow"
          /\ step = "approved" => c \notin denied
          /\ call' = [call EXCEPT ![c] =
                         [NewCall EXCEPT
                            !.step = step,
                            !.verdict = IF step = "stopped" THEN None ELSE call[c].verdict,
                            !.overridden = /\ step = "ran"
                                           /\ decision # Returned(call[c].verdict, downstream)]]
    BY ProceedDoes
  <2>2. call'[c].step = step /\ \A d \in Call \ {c} : call'[d] = call[d]
    BY <1>0, <2>1 DEF NewCall
  <2> QED BY <2>1, <2>2
<1>2. call[c].step = "listeners" /\ UNCHANGED failureAction
  BY DEF Proceed
<1>3. call[c].verdict \in Verdict /\ (call[c].verdict = "deny" => c \in denied)
  BY <1>2 DEF PluginInv, DenyInv
<1>4. step \in IF call[c].verdict = "deny" THEN {"stopped"} ELSE {"ran", "approved", "stopped"}
  BY <1>1, <1>3
<1>5. Gates[c] = call[c].verdict /\ Gates' = [Gates EXCEPT ![c] = step]
  <2>1. Gated(call[c]) = call[c].verdict /\ Gated(call'[c]) = step
    BY <1>1, <1>2 DEF Gated
  <2> QED BY <1>1, <2>1 DEF Gates
<1>6. Gate!Leave(c)
  BY <1>3, <1>4, <1>5 DEF Gate!Leave, Gate!Verdict, Verdict, Gates
<1> QED BY <1>2, <1>6 DEF GateStep, Gate!Next, Gate!gateVars

(* Every call is held until it is decided, once: a late answer, a second   *)
(* failure or the end of the plugin decides no call again, and a call that *)
(* no adapter has judged passes only if failures are allowed               *)
(* (caushell-dsh-bash.mjs:119-138, 258-272).                               *)
THEOREM ImplementsGateHolds == Spec => ImplementsGate
<1>1. Init => Gate!Init
  <2> SUFFICES ASSUME Init PROVE Gate!Init
    OBVIOUS
  <2>1. \A c \in Call : Gated(call[c]) = "new"
    BY DEF Init, NewCall, Gated
  <2> QED BY <2>1 DEF Init, Gate!Init, Gate!Verdict, Verdict
<1>2. PluginInv /\ [Next]_vars => GateStep
  <2> SUFFICES ASSUME PluginInv, [Next]_vars PROVE GateStep
    OBVIOUS
  <2>1. ASSUME NEW c \in Call, Arrive(c) \/ Submit(c) \/ Proceed(c) PROVE GateStep
    BY <2>1, ArriveGates, SubmitGates, ProceedGates
  <2>2. ASSUME NEW c \in Call, Unwritable(c) PROVE GateStep
    BY <2>2, FallbackGates DEF Unwritable, Open
  <2>3. ASSUME NEW c \in Call, GiveUp(c) PROVE GateStep
    BY <2>3, RetireGates DEF GiveUp
  <2>4. ASSUME NEW c \in Call, Abort(c) PROVE GateStep
    <3>1. call \in [Call -> CallType]
      BY DEF PluginInv, TypeOK
    <3>2. \A d \in Call : call'[d].step = call[d].step /\ call'[d].verdict = call[d].verdict
      BY <2>4, <3>1 DEF Abort, CallType
    <3>3. UNCHANGED failureAction
      BY <2>4 DEF Abort
    <3> QED BY <3>2, <3>3, GatesStay DEF Gated
  <2>5. ASSUME NEW g \in Generation, StartEvent(g) \/ Closed(g) \/ WriteFailed(g) PROVE GateStep
    BY <2>5, EventGates
  <2>6. ASSUME NEW g \in Generation, HandleLine(g) PROVE GateStep
    BY <2>6, LineGates
  <2>7. ASSUME NEW g \in Generation, Reply(g) \/ Exit(g) PROVE GateStep
    BY <2>7, GatesStay DEF Reply, Exit
  <2>8. CASE Dispose
    <3>1. Pending \in SUBSET Call /\ \A c \in Pending : call[c].step = "waiting"
      <4> SUFFICES ASSUME NEW i \in Id, pending[i] # None
                   PROVE  pending[i] \in Call /\ call[pending[i]].step = "waiting"
        BY DEF Pending
      <4> QED BY DEF PluginInv, TypeOK, WaitInv
    <3> QED BY <2>8, <3>1, FallbackGates DEF Dispose, Open
  <2>9. CASE UNCHANGED vars
    BY <2>9, GatesStay DEF vars
  <2> QED BY <2>1, <2>2, <2>3, <2>4, <2>5, <2>6, <2>7, <2>8, <2>9 DEF Next
<1> QED BY <1>1, <1>2, PluginCorrect, PTL DEF Spec, ImplementsGate, Gate!Spec, GateStep
=============================================================================
