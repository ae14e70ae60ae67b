----------------------------- MODULE CheckAnswer -----------------------------
(***************************************************************************)
(* A shell action from the harness to its answer, while the user edits the *)
(* configuration: the hook takes failure_action and need_approval_mode     *)
(* from the file, the daemon takes its policy from it, at other times.     *)
(* What the analysis finds in the command is chosen freely.                *)
(***************************************************************************)
EXTENDS Policy, Naturals

CONSTANTS
  Hook,         \* the hooks
  Content,      \* what may be written to the configuration file
  RawOf,        \* the raw configuration of a content
  Setting,      \* its failure_action and need_approval_mode
  Default,      \* the content that stands for an absent file
  Unreadable,   \* a content that is not a configuration at all
  IssueSets,    \* what the analysis may report of a command
  MaxEdits      \* bound: edits of the file, which get stamps of their own

Harness == {"codex", "claude"}
Settings == [failureAction : {"allow", "need_approval", "deny"}, mode : {"block", "observe"}]

ASSUME ContentAssumption ==
  /\ Default \in Content /\ Unreadable \notin Content
  /\ RawOf \in [Content -> Raw]
  /\ Setting \in [Content -> Settings]
  /\ Valid(RawOf[Default])
ASSUME IssueAssumption == IssueSets \subseteq SUBSET Issue
ASSUME MaxEditsAssumption == MaxEdits \in Nat
ASSUME NoneIsNoHook == None \notin Hook /\ None # "run"

Absent == 0            \* the stamp of a file that is not there
Stamp == 0..MaxEdits

VARIABLES
  file,     \* the configuration file: its content and its stamp (length and time)
  edits,    \* how often it was edited
  daemon,   \* the daemon's policy and the stamp it saw last, or None
  serving,  \* the hook whose request the daemon handles, or None
  hook,     \* the hooks
  kept,     \* settings of valid files that hooks have seen
  window,   \* history: the contents the file has had since the request arrived
  lapses    \* history: how the daemon may have missed a change

vars == <<file, edits, daemon, serving, hook, kept, window, lapses>>

DaemonType == [policy : RulePolicy, observed : Stamp]

HookType == [step : {"ready", "stat", "load", "judge", "answer", "lost", "done"},
             harness : Optional(Harness), setting : Optional(Settings),
             issues : IssueSets \union {{}},
             stamp : Optional(Stamp), decision : Optional({"allow", "need_approval", "deny"}),
             answer : Optional({"run", "ask", "deny", "failed"})]

ASSUME NoneIsNoDaemon == None \notin DaemonType

NewHook == [step |-> "done", harness |-> None, setting |-> None, issues |-> {},
            stamp |-> None, decision |-> None, answer |-> None]

Readable(content) == content # Unreadable /\ Valid(RawOf[content])

-----------------------------------------------------------------------------
Init ==
  /\ file = [content |-> Default, stamp |-> Absent]
  /\ edits = 0
  /\ daemon = None
  /\ serving = None
  /\ hook = [h \in Hook |-> NewHook]
  /\ kept = {}
  /\ window = {}
  /\ lapses = {}

(* The file is written, or removed.  A new file has the stamp of an older  *)
(* one when it has its length and its time.                                *)
Edit ==
  /\ edits < MaxEdits
  /\ edits' = edits + 1
  /\ \/ /\ file' \in [content : Content \union {Unreadable}, stamp : 1..edits']
        /\ file'.content # file.content
        /\ lapses' = IF file'.stamp = edits' THEN lapses ELSE lapses \union {"stamp"}
     \/ /\ file.stamp # Absent
        /\ file' = [content |-> Default, stamp |-> Absent]
        /\ lapses' = IF daemon # None /\ daemon.observed = Absent
                          /\ daemon.policy # Normalize(RawOf[Default])
                       THEN lapses \union {"removed"} ELSE lapses
  /\ window' = IF serving = None THEN window ELSE window \union {file'.content}
  /\ UNCHANGED <<daemon, serving, hook, kept>>

-----------------------------------------------------------------------------
(***************************************************************************)
(* The hook.                                                               *)
(***************************************************************************)
SetHook(h, step) == hook' = [hook EXCEPT ![h].step = step]

(* HookConfig::from_env: the settings of a file that cannot be used are    *)
(* those the daemon's metadata keeps, or the built-in ones.                *)
Configure(h) ==
  /\ hook[h].step = "done"
  /\ \E setting \in IF Readable(file.content) THEN {Setting[file.content]}
                    ELSE kept \union {Setting[Default]},
        harness \in Harness, issues \in IssueSets :
       hook' = [hook EXCEPT ![h] = [NewHook EXCEPT !.step = "ready", !.harness = harness,
                                                   !.setting = setting, !.issues = issues]]
  /\ kept' = IF Readable(file.content) THEN kept \union {Setting[file.content]} ELSE kept
  /\ UNCHANGED <<file, edits, daemon, serving, window, lapses>>

(* CliRuntime::new: the file is read, but counts as never looked at.       *)
StartDaemon ==
  /\ daemon = None
  /\ daemon' = [policy |-> IF Readable(file.content) THEN Normalize(RawOf[file.content])
                                                     ELSE BuiltIn,
                observed |-> Absent]
  /\ UNCHANGED <<file, edits, serving, hook, kept, window, lapses>>

CrashDaemon ==
  /\ daemon # None
  /\ daemon' = None
  /\ serving' = None
  /\ window' = {}
  /\ hook' = [h \in Hook |-> IF h = serving THEN [hook[h] EXCEPT !.step = "lost"] ELSE hook[h]]
  /\ UNCHANGED <<file, edits, kept, lapses>>

-----------------------------------------------------------------------------
(***************************************************************************)
(* handle_runtime_request: one request after the other.                    *)
(***************************************************************************)
Receive(h) ==
  /\ hook[h].step = "ready"
  /\ daemon # None /\ serving = None
  /\ serving' = h
  /\ window' = {file.content}
  /\ SetHook(h, "stat")
  /\ UNCHANGED <<file, edits, daemon, kept, lapses>>

(* Deliberately wrong: only looks whether the file is there. *)
Stat_PresenceOnly(h) ==
  LET present(stamp) == stamp # Absent
  IN  /\ hook[h].step = "stat"
      /\ hook' = [hook EXCEPT ![h].stamp = file.stamp,
                              ![h].step = IF present(file.stamp) = present(daemon.observed)
                                            THEN "judge" ELSE "load"]
      /\ UNCHANGED <<file, edits, daemon, serving, kept, window, lapses>>

(* refresh_config looks at the file's stamp...                             *)
Stat(h) ==
  /\ hook[h].step = "stat"
  /\ hook' = [hook EXCEPT ![h].stamp = file.stamp,
                          ![h].step = IF file.stamp = daemon.observed THEN "judge" ELSE "load"]
  /\ UNCHANGED <<file, edits, daemon, serving, kept, window, lapses>>

(* ...and reads it later; a file that cannot be used changes nothing but   *)
(* counts as seen.                                                         *)
Load(h) ==
  /\ hook[h].step = "load"
  /\ IF Readable(file.content)
       THEN daemon' = [policy |-> Normalize(RawOf[file.content]), observed |-> hook[h].stamp]
       ELSE daemon' = [daemon EXCEPT !.observed = hook[h].stamp]
  /\ SetHook(h, "judge")
  /\ UNCHANGED <<file, edits, serving, kept, window, lapses>>

Judge(h) ==
  /\ hook[h].step = "judge"
  /\ hook' = [hook EXCEPT ![h].step = "answer",
                          ![h].stamp = None,
                          ![h].decision = DecisionAssembly(daemon.policy, hook[h].issues)]
  /\ serving' = None
  /\ window' = {}
  /\ UNCHANGED <<file, edits, daemon, kept, lapses>>

-----------------------------------------------------------------------------
(***************************************************************************)
(* The answer to the harness.                                              *)
(***************************************************************************)
(* Deliberately wrong: observing lets denied commands run as well. *)
Mapped_ObserveAll(harness, mode, decision) ==
  CASE decision = "allow" \/ (harness = "codex" /\ mode = "observe") -> "run"
    [] decision = "need_approval" /\ harness = "claude" -> "ask"
    [] OTHER -> "deny"

(* Codex cannot ask.                                                       *)
Mapped(harness, mode, decision) ==
  CASE decision = "allow" -> "run"
    [] decision = "deny" -> "deny"
    [] decision = "need_approval" /\ harness = "claude" -> "ask"
    [] OTHER -> IF mode = "observe" THEN "run" ELSE "deny"

(* Deliberately wrong: the setting is answered as it is written. *)
FallbackAnswer_Raw(harness, action) == action

FallbackAnswer(harness, action) ==
  CASE action = "allow" -> "run"
    [] action = "deny" -> "deny"
    [] OTHER -> IF harness = "claude" THEN "ask" ELSE "deny"

(* A hook that cannot write its log fails, whatever it has already said.   *)
Finish(h, answer, decision) ==
  \E a \in {answer, "failed"} :
    hook' = [hook EXCEPT ![h] = [@ EXCEPT !.step = "done", !.answer = a, !.stamp = None,
                                          !.decision = decision]]

Answer(h) ==
  /\ hook[h].step = "answer"
  /\ Finish(h, Mapped(hook[h].harness, hook[h].setting.mode, hook[h].decision),
            hook[h].decision)
  /\ UNCHANGED <<file, edits, daemon, serving, kept, window, lapses>>

(* No daemon, no connection, no or no valid response.                      *)
Fallback(h) ==
  /\ hook[h].step \in {"ready", "lost", "answer"}
  /\ Finish(h, FallbackAnswer(hook[h].harness, hook[h].setting.failureAction), None)
  /\ UNCHANGED <<file, edits, daemon, serving, kept, window, lapses>>

-----------------------------------------------------------------------------
Next ==
  \/ Edit \/ StartDaemon \/ CrashDaemon
  \/ \E h \in Hook : \/ Configure(h) \/ Receive(h) \/ Stat(h) \/ Load(h) \/ Judge(h)
                     \/ Answer(h) \/ Fallback(h)

Spec == Init /\ [][Next]_vars

-----------------------------------------------------------------------------
(* Every variable has its type.                                            *)
TypeOK ==
  /\ file \in [content : Content \union {Unreadable}, stamp : Stamp]
  /\ edits \in 0..MaxEdits
  /\ daemon \in Optional(DaemonType)
  /\ serving \in Optional(Hook)
  /\ hook \in [Hook -> HookType]
  /\ kept \subseteq Settings
  /\ window \subseteq Content \union {Unreadable}
  /\ lapses \subseteq {"stamp", "removed"}

(* A request is judged by a policy that the file held while the daemon     *)
(* handled it, if the file could be used all that time - unless a change   *)
(* was missed in one of two ways: the file got the stamp of an earlier     *)
(* one, or it was removed when the daemon last saw none.                   *)
PolicyWasCurrent ==
  \A h \in Hook :
    (hook[h].step = "judge" /\ lapses = {} /\ \A c \in window : Readable(c)) =>
      \E c \in window : daemon.policy = Normalize(RawOf[c])

(* What an answer lets run was allowed, or needed an approval that the     *)
(* Codex setting waives, or could not be judged while failure_action is    *)
(* allow.  A hook that fails answers nothing.                              *)
AnswerIsJustified ==
  \A h \in Hook :
    hook[h].answer = "run" =>
      CASE hook[h].decision = "allow" -> TRUE
        [] hook[h].decision = "need_approval" ->
             hook[h].harness = "codex" /\ hook[h].setting.mode = "observe"
        [] hook[h].decision = "deny" -> FALSE
        [] OTHER -> hook[h].setting.failureAction = "allow"

(* No configuration lowers the hard deny floor, and a command with a       *)
(* finding of the floor is never judged to be anything but denied.         *)
FloorStands ==
  /\ daemon # None => \A r \in FloorRules : ActionFor(daemon.policy, r) = "deny"
  /\ \A h \in Hook : (\E i \in hook[h].issues : i.kind = "floor")
                       => hook[h].decision \in {None, "deny"}

(* Adding trusted paths to a configuration changes the action of no rule.  *)
TrustKeepsActions ==
  Readable(file.content) =>
    LET raw == RawOf[file.content]
    IN  \A r \in Rule, trusting \in BOOLEAN :
          ActionFor(Normalize([raw EXCEPT !.trusting = trusting]), r)
            = ActionFor(Normalize(raw), r)
=============================================================================
