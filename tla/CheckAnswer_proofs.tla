-------------------------- MODULE CheckAnswer_proofs --------------------------
(***************************************************************************)
(* Proofs about the configuration, the decision and the answer, for any    *)
(* rules, families and defaults, any configurations and any number of      *)
(* edits, hooks and daemons.                                               *)
(***************************************************************************)
EXTENDS CheckAnswer, TLAPS

-----------------------------------------------------------------------------
(* The policy.                                                             *)

(* A configuration is normalised to a policy.                              *)
LEMMA NormalizeType ==
  ASSUME NEW raw \in Raw
  PROVE  Normalize(raw) \in RulePolicy
<1> DEFINE written == [r \in Rule |-> IF raw.rules[r] = None THEN None
                                      ELSE NewEntry(raw.rules[r])]
           floored == EnforceHardDenyFloor(written)
           attached == AttachTrustedPaths(floored, raw.families, raw.trusting)
<1>1. written \in [Rule -> Optional(Entry)]
  BY DEF Raw, Optional, NewEntry, Entry
<1>2. floored \in [Rule -> Optional(Entry)]
  BY <1>1 DEF EnforceHardDenyFloor, Optional, NewEntry, Entry, Actions
<1>3. attached \in [Rule -> Optional(Entry)]
  <2>1. \A r \in Rule : floored[r] # None => floored[r] \in Entry
    BY <1>2 DEF Optional
  <2>2. \A r \in Rule : /\ FamilyOf[r] \in Family
                        /\ DefaultRule[r] \in Actions
                        /\ raw.families[FamilyOf[r]] # None
                             => raw.families[FamilyOf[r]] \in Actions
    BY DefaultsAssumption DEF Raw, Optional
  <2>3. \A r \in Rule : floored[r] # None => floored[r].action \in Actions
    BY <2>1 DEF Entry
  <2>4. \A r \in Rule : attached[r] \in Optional(Entry)
    <3> SUFFICES ASSUME NEW r \in Rule PROVE attached[r] \in Optional(Entry)
      OBVIOUS
    <3>1. CASE ~raw.trusting \/ r \notin TrustedRules
      BY <3>1, <1>2 DEF AttachTrustedPaths
    <3>2. CASE ~(~raw.trusting \/ r \notin TrustedRules)
      BY <3>2, <2>2, <2>3 DEF AttachTrustedPaths, Optional, Entry
    <3> QED BY <3>1, <3>2
  <2> QED BY <2>4 DEF AttachTrustedPaths
<1>4. Normalize(raw) = [rules |-> attached, families |-> raw.families, gaps |-> raw.gaps,
                        payloads |-> raw.payloads, unknown |-> raw.unknown,
                        names |-> raw.names]
  BY DEF Normalize
<1>5. /\ raw.families \in [Family -> Optional(Actions)]
      /\ raw.gaps \in [Gap -> Optional(Actions)]
      /\ raw.payloads \in [Payload -> Optional(Actions)]
      /\ raw.unknown \in Actions
      /\ raw.names \in [Name -> Optional(Actions)]
  BY DEF Raw
<1> HIDE DEF attached
<1> QED
  BY <1>3, <1>4, <1>5 DEF RulePolicy

(* So is the built-in policy one.                                          *)
LEMMA BuiltInType == BuiltIn \in RulePolicy
BY DEF BuiltIn, RulePolicy, Optional, Actions

(* An entry is no absent entry.                                            *)
LEMMA NewEntryType ==
  ASSUME NEW action \in Actions
  PROVE  /\ NewEntry(action) \in Entry
         /\ NewEntry(action) # None
         /\ NewEntry(action).action = action
<1>1. NewEntry(action) \in Entry
  BY DEF NewEntry, Entry
<1> QED BY <1>1, NoneIsNoAction DEF NewEntry

(* The action of a rule in a policy made of a configuration: the floor's,  *)
(* what the user wrote of the rule or its family, or the default.          *)
LEMMA NormalizedAction ==
  ASSUME NEW raw \in Raw, NEW r \in Rule
  PROVE  ActionFor(Normalize(raw), r) =
           IF r \in FloorRules THEN "deny"
           ELSE IF raw.rules[r] # None THEN raw.rules[r]
           ELSE IF raw.families[FamilyOf[r]] # None THEN raw.families[FamilyOf[r]]
           ELSE DefaultRule[r]
<1> DEFINE written == [q \in Rule |-> IF raw.rules[q] = None THEN None
                                      ELSE NewEntry(raw.rules[q])]
           floored == EnforceHardDenyFloor(written)
           configured == IF raw.families[FamilyOf[r]] # None
                           THEN raw.families[FamilyOf[r]] ELSE DefaultRule[r]
           attached == AttachTrustedPaths(floored, raw.families, raw.trusting)
<1>1. raw.rules[r] # None => raw.rules[r] \in Actions
  BY DEF Raw, Optional
<1>2. "deny" \in Actions
  BY DEF Actions
<1>3. floored[r] = IF r \in FloorRules THEN NewEntry("deny")
                   ELSE IF raw.rules[r] = None THEN None ELSE NewEntry(raw.rules[r])
  BY DEF EnforceHardDenyFloor
<1>4. configured \in Actions
  BY DefaultsAssumption DEF Raw, Optional
<1>5. attached[r] = IF ~raw.trusting \/ r \notin TrustedRules THEN floored[r]
                    ELSE [action |-> IF floored[r] # None THEN floored[r].action
                                     ELSE configured,
                          trusting |-> TRUE]
  BY DEF AttachTrustedPaths
<1>6. \A a \in Actions : /\ [action |-> a, trusting |-> TRUE] # None
                         /\ [action |-> a, trusting |-> TRUE].action = a
  <2> SUFFICES ASSUME NEW a \in Actions
               PROVE  [action |-> a, trusting |-> TRUE] # None
    OBVIOUS
  <2>1. [action |-> a, trusting |-> TRUE] \in Entry
    BY DEF Entry
  <2> QED BY <2>1, NoneIsNoAction
<1>7. (IF attached[r] # None THEN attached[r].action ELSE configured) =
        IF floored[r] # None THEN floored[r].action ELSE configured
  <2>1. floored[r] # None => floored[r].action \in Actions
    BY <1>1, <1>2, <1>3, NewEntryType
  <2> QED BY <2>1, <1>4, <1>5, <1>6
<1>8. Normalize(raw).rules = attached /\ Normalize(raw).families = raw.families
  BY DEF Normalize
<1>9. ActionFor(Normalize(raw), r) =
        IF floored[r] # None THEN floored[r].action ELSE configured
  BY <1>7, <1>8 DEF ActionFor
<1>10. CASE r \in FloorRules
  BY <1>10, <1>9, <1>3, <1>2, NewEntryType
<1>11. CASE r \notin FloorRules /\ raw.rules[r] # None
  BY <1>11, <1>9, <1>3, <1>1, NewEntryType
<1>12. CASE r \notin FloorRules /\ raw.rules[r] = None
  BY <1>12, <1>9, <1>3
<1> QED BY <1>10, <1>11, <1>12

(* No policy a daemon can be given lowers the floor.                       *)
LEMMA FloorOfPolicies ==
  ASSUME NEW r \in FloorRules
  PROVE  /\ \A raw \in Raw : ActionFor(Normalize(raw), r) = "deny"
         /\ ActionFor(BuiltIn, r) = "deny"
<1>1. r \in Rule /\ FamilyOf[r] \in Family /\ DefaultRule[r] = "deny"
  BY FloorAssumption, DefaultsAssumption
<1>2. \A raw \in Raw : ActionFor(Normalize(raw), r) = "deny"
  BY <1>1, NormalizedAction
<1>3. ActionFor(BuiltIn, r) = "deny"
  BY <1>1 DEF ActionFor, BuiltIn
<1> QED BY <1>2, <1>3

(* Trusting paths changes no action.                                       *)
LEMMA TrustChangesNoAction ==
  ASSUME NEW raw \in Raw, NEW r \in Rule, NEW trusting \in BOOLEAN
  PROVE  ActionFor(Normalize([raw EXCEPT !.trusting = trusting]), r)
           = ActionFor(Normalize(raw), r)
<1> DEFINE changed == [raw EXCEPT !.trusting = trusting]
<1>1. changed \in Raw /\ changed.rules = raw.rules /\ changed.families = raw.families
  BY DEF Raw
<1> HIDE DEF changed
<1>2. ActionFor(Normalize(changed), r) = ActionFor(Normalize(raw), r)
  BY <1>1, NormalizedAction
<1> QED BY <1>2 DEF changed

-----------------------------------------------------------------------------
(* Type correctness.                                                       *)

(* A configuration that can be read is one.                                *)
LEMMA ReadableType ==
  ASSUME TypeOK, Readable(file.content)
  PROVE  /\ file.content \in Content
         /\ RawOf[file.content] \in Raw
         /\ Setting[file.content] \in Settings
BY ContentAssumption DEF TypeOK, Readable

(* The configuration that stands for none is readable.                     *)
LEMMA DefaultReadable == Readable(Default) /\ RawOf[Default] \in Raw
BY ContentAssumption DEF Readable

(* What a hook has to have at each of its steps.                           *)
HookInv ==
  \A h \in Hook :
    /\ hook[h].step # "done" => /\ hook[h].harness \in Harness
                                /\ hook[h].setting \in Settings
                                /\ hook[h].answer = None
    /\ hook[h].step \in {"stat", "load", "judge"} <=> serving = h
    /\ hook[h].step = "load" => hook[h].stamp \in 0..edits
    /\ hook[h].step = "answer" => hook[h].decision \in {"allow", "need_approval", "deny"}

(* A request is handled by a daemon, and the file is in its window.        *)
ServingInv ==
  serving # None => daemon \in DaemonType /\ file.content \in window

(* A policy whose stamp is that of the file is the policy of the file.     *)
PolicyInv ==
  /\ file.stamp \in 0..edits
  /\ daemon # None => daemon.observed \in 0..edits
  /\ (lapses = {} /\ daemon # None /\ daemon.observed = file.stamp /\ Readable(file.content))
       => daemon.policy = Normalize(RawOf[file.content])

CheckInv ==
  /\ TypeOK /\ HookInv /\ ServingInv /\ PolicyInv
  /\ PolicyWasCurrent /\ AnswerIsJustified /\ FloorStands

(* The decision of the analysis is one of three.                           *)
LEMMA DecisionType ==
  ASSUME NEW policy, NEW issues
  PROVE  DecisionAssembly(policy, issues) \in {"allow", "need_approval", "deny"}
BY DEF DecisionAssembly

(* So are the answers.                                                     *)
LEMMA AnswerTypes ==
  ASSUME NEW harness, NEW x
  PROVE  /\ FallbackAnswer(harness, x) \in {"run", "ask", "deny"}
         /\ \A mode : Mapped(harness, mode, x) \in {"run", "ask", "deny"}
BY DEF FallbackAnswer, Mapped

(* Every variable has its type initially.                                  *)
LEMMA InitInv == Init => CheckInv
<1> SUFFICES ASSUME Init PROVE CheckInv
  OBVIOUS
<1> USE DEF Init, NewHook
<1>1. NewHook \in HookType
  BY DEF HookType, Optional
<1>2. TypeOK
  BY <1>1, ContentAssumption, MaxEditsAssumption DEF TypeOK, Optional, Stamp, Absent
<1>3. HookInv /\ ServingInv
  BY NoneIsNoHook DEF HookInv, ServingInv
<1>4. PolicyInv
  BY DEF PolicyInv, Absent
<1>5. PolicyWasCurrent /\ AnswerIsJustified /\ FloorStands
  <2>1. \A h \in Hook : hook[h] = NewHook
    OBVIOUS
  <2>2. AnswerIsJustified
    BY <2>1, NoneIsNoHook DEF AnswerIsJustified
  <2> QED BY <2>1, <2>2 DEF PolicyWasCurrent, FloorStands
<1> QED BY <1>2, <1>3, <1>4, <1>5 DEF CheckInv

(* The updates of a hook keep its type.                                    *)
LEMMA HookUpdates ==
  ASSUME NEW k \in HookType,
         NEW step \in {"judge", "load", "answer", "done"},
         NEW stamp \in Optional(Stamp)
  PROVE  /\ [k EXCEPT !.stamp = stamp, !.step = step] \in HookType
         /\ \A decision \in Optional({"allow", "need_approval", "deny"}) :
              /\ [k EXCEPT !.step = step, !.stamp = stamp, !.decision = decision] \in HookType
              /\ \A answer \in Optional({"run", "ask", "deny", "failed"}) :
                   [k EXCEPT !.step = step, !.answer = answer, !.stamp = stamp,
                             !.decision = decision] \in HookType
BY DEF HookType

(* A hook begins with a setting, a harness and a command.                  *)
LEMMA Configured ==
  ASSUME TypeOK, NEW h \in Hook, Configure(h)
  PROVE  \E setting \in Settings, harness \in Harness, issues \in IssueSets :
           hook' = [hook EXCEPT ![h] = [NewHook EXCEPT !.step = "ready", !.harness = harness,
                                                       !.setting = setting, !.issues = issues]]
<1>1. (IF Readable(file.content) THEN {Setting[file.content]}
       ELSE kept \union {Setting[Default]}) \subseteq Settings
  BY ReadableType, ContentAssumption DEF TypeOK
<1> QED BY <1>1 DEF Configure

(* Every step keeps the types.                                             *)
LEMMA StepTypeOK ==
  ASSUME CheckInv, Next
  PROVE  TypeOK'
<1>0. TypeOK /\ HookInv /\ ServingInv /\ PolicyInv
  BY DEF CheckInv
<1>h. \A h \in Hook : hook[h] \in HookType
  BY <1>0 DEF TypeOK
<1>1. ASSUME Edit PROVE TypeOK'
  <2>1. edits' \in 0..MaxEdits /\ edits' = edits + 1 /\ edits \in Nat
    BY <1>1, <1>0, MaxEditsAssumption DEF Edit, TypeOK
  <2>2. file' \in [content : Content \union {Unreadable}, stamp : Stamp]
    BY <1>1, <2>1, ContentAssumption, MaxEditsAssumption DEF Edit, Stamp, Absent
  <2>3. window' \subseteq Content \union {Unreadable} /\ lapses' \subseteq {"stamp", "removed"}
    BY <1>1, <2>2, <1>0 DEF Edit, TypeOK
  <2> QED BY <1>1, <1>0, <2>1, <2>2, <2>3 DEF Edit, TypeOK
<1>2. ASSUME StartDaemon PROVE TypeOK'
  <2>1. daemon' \in DaemonType
    <3>1. Readable(file.content) => Normalize(RawOf[file.content]) \in RulePolicy
      BY <1>0, ReadableType, NormalizeType
    <3>2. Absent \in Stamp
      BY MaxEditsAssumption DEF Stamp, Absent
    <3> QED BY <1>2, <3>1, <3>2, BuiltInType DEF StartDaemon, DaemonType
  <2> QED BY <1>2, <1>0, <2>1 DEF StartDaemon, TypeOK, Optional
<1>3. ASSUME CrashDaemon PROVE TypeOK'
  <2>1. hook' \in [Hook -> HookType]
    <3>1. \A h \in Hook : [hook[h] EXCEPT !.step = "lost"] \in HookType
      BY <1>0 DEF TypeOK, HookType
    <3> QED BY <1>3, <3>1, <1>0 DEF CrashDaemon, TypeOK
  <2> QED BY <1>3, <1>0, <2>1 DEF CrashDaemon, TypeOK, Optional
<1>4. ASSUME NEW h \in Hook, Configure(h) PROVE TypeOK'
  <2>1. PICK setting \in Settings, harness \in Harness, issues \in IssueSets :
          hook' = [hook EXCEPT ![h] = [NewHook EXCEPT !.step = "ready", !.harness = harness,
                                                      !.setting = setting, !.issues = issues]]
    BY <1>4, <1>0, Configured
  <2>2. [NewHook EXCEPT !.step = "ready", !.harness = harness, !.setting = setting,
                        !.issues = issues] \in HookType
    BY DEF NewHook, HookType, Optional
  <2>3. kept' \subseteq Settings
    BY <1>4, <1>0, ReadableType DEF Configure, TypeOK
  <2> QED BY <1>4, <1>0, <2>1, <2>2, <2>3 DEF Configure, TypeOK
<1>5. ASSUME NEW h \in Hook, Receive(h) PROVE TypeOK'
  <2>1. [hook[h] EXCEPT !.step = "stat"] \in HookType
    BY <1>0 DEF TypeOK, HookType
  <2>2. file.content \in Content \union {Unreadable}
    BY <1>0 DEF TypeOK
  <2> QED BY <1>5, <1>0, <2>1, <2>2 DEF Receive, SetHook, TypeOK, Optional
<1>6. ASSUME NEW h \in Hook, Stat(h) PROVE TypeOK'
  <2>1. [hook[h] EXCEPT !.stamp = file.stamp,
                        !.step = IF file.stamp = daemon.observed THEN "judge" ELSE "load"]
          \in HookType
    <3> DEFINE step == IF file.stamp = daemon.observed THEN "judge" ELSE "load"
    <3>1. file.stamp \in Optional(Stamp) /\ step \in {"judge", "load"}
      BY <1>0 DEF TypeOK, Optional
    <3> HIDE DEF step
    <3>2. [hook[h] EXCEPT !.stamp = file.stamp, !.step = step] \in HookType
      BY <1>h, <3>1, HookUpdates
    <3> QED BY <3>2 DEF step
  <2> QED BY <1>6, <1>0, <2>1 DEF Stat, TypeOK
<1>7. ASSUME NEW h \in Hook, Load(h) PROVE TypeOK'
  <2>1. [hook[h] EXCEPT !.step = "judge"] \in HookType
    BY <1>0 DEF TypeOK, HookType
  <2>2. hook[h].stamp \in Stamp
    BY <1>7, <1>0, MaxEditsAssumption DEF Load, HookInv, TypeOK, Stamp
  <2>3. daemon \in DaemonType
    BY <1>7, <1>0, NoneIsNoHook DEF Load, HookInv, ServingInv, TypeOK, Optional
  <2>4. daemon' \in DaemonType
    <3>1. Readable(file.content) => Normalize(RawOf[file.content]) \in RulePolicy
      BY <1>0, ReadableType, NormalizeType
    <3> QED BY <1>7, <2>2, <2>3, <3>1 DEF Load, DaemonType
  <2> QED BY <1>7, <1>0, <2>1, <2>4 DEF Load, SetHook, TypeOK, Optional
<1>8. ASSUME NEW h \in Hook, Judge(h) PROVE TypeOK'
  <2>1. [hook[h] EXCEPT !.step = "answer", !.stamp = None,
                        !.decision = DecisionAssembly(daemon.policy, hook[h].issues)]
          \in HookType
    <3> DEFINE decision == DecisionAssembly(daemon.policy, hook[h].issues)
    <3>1. /\ decision \in Optional({"allow", "need_approval", "deny"})
          /\ None \in Optional(Stamp)
      BY DecisionType DEF Optional
    <3> HIDE DEF decision
    <3>2. [hook[h] EXCEPT !.step = "answer", !.stamp = None, !.decision = decision] \in HookType
      BY <1>h, <3>1, HookUpdates
    <3> QED BY <3>2 DEF decision
  <2> QED BY <1>8, <1>0, <2>1 DEF Judge, TypeOK, Optional
<1>9. ASSUME NEW h \in Hook, Answer(h) \/ Fallback(h) PROVE TypeOK'
  <2>1. PICK a \in {"run", "ask", "deny", "failed"},
             decision \in {None, "allow", "need_approval", "deny"} :
          hook' = [hook EXCEPT ![h] = [@ EXCEPT !.step = "done", !.answer = a, !.stamp = None,
                                                !.decision = decision]]
    <3>1. CASE Answer(h)
      <4>1. hook[h].decision \in {"allow", "need_approval", "deny"}
        BY <3>1, <1>0 DEF Answer, HookInv
      <4>2. Mapped(hook[h].harness, hook[h].setting.mode, hook[h].decision)
              \in {"run", "ask", "deny"}
        BY AnswerTypes
      <4> QED BY <3>1, <4>1, <4>2 DEF Answer, Finish
    <3>2. CASE Fallback(h)
      <4>1. FallbackAnswer(hook[h].harness, hook[h].setting.failureAction)
              \in {"run", "ask", "deny"}
        BY AnswerTypes
      <4> QED BY <3>2, <4>1 DEF Fallback, Finish
    <3> QED BY <1>9, <3>1, <3>2
  <2>2. [hook[h] EXCEPT !.step = "done", !.answer = a, !.stamp = None, !.decision = decision]
          \in HookType
    <3>1. /\ decision \in Optional({"allow", "need_approval", "deny"})
          /\ a \in Optional({"run", "ask", "deny", "failed"})
          /\ None \in Optional(Stamp)
      BY DEF Optional
    <3> QED BY <1>h, <3>1, HookUpdates
  <2> QED BY <1>9, <1>0, <2>1, <2>2 DEF Answer, Fallback, TypeOK
<1> QED BY <1>1, <1>2, <1>3, <1>4, <1>5, <1>6, <1>7, <1>8, <1>9 DEF Next

-----------------------------------------------------------------------------
(* The other parts of the invariant, step by step.                         *)

(* A hook has what its steps need, and only the one that is served is in   *)
(* the daemon.                                                             *)
LEMMA StepHookInv ==
  ASSUME CheckInv, Next
  PROVE  HookInv' /\ ServingInv'
<1>0. TypeOK /\ HookInv /\ ServingInv /\ PolicyInv
  BY DEF CheckInv
<1>n. edits \in Nat
  BY <1>0, MaxEditsAssumption DEF TypeOK
<1>1. ASSUME Edit PROVE HookInv' /\ ServingInv'
  BY <1>1, <1>0, <1>n DEF Edit, HookInv, ServingInv
<1>2. ASSUME StartDaemon PROVE HookInv' /\ ServingInv'
  BY <1>2, <1>0, NoneIsNoDaemon DEF StartDaemon, HookInv, ServingInv
<1>3. ASSUME CrashDaemon PROVE HookInv' /\ ServingInv'
  <2>1. \A h \in Hook : hook'[h] = IF h = serving THEN [hook[h] EXCEPT !.step = "lost"]
                                   ELSE hook[h]
    BY <1>3 DEF CrashDaemon
  <2>2. \A h \in Hook : [hook[h] EXCEPT !.step = "lost"] =
          [step |-> "lost", harness |-> hook[h].harness, setting |-> hook[h].setting,
           issues |-> hook[h].issues, stamp |-> hook[h].stamp,
           decision |-> hook[h].decision, answer |-> hook[h].answer]
    BY <1>0 DEF TypeOK, HookType
  <2> QED BY <1>3, <1>0, <2>1, <2>2, NoneIsNoHook DEF CrashDaemon, HookInv, ServingInv
<1>4. ASSUME NEW h \in Hook, Configure(h) PROVE HookInv' /\ ServingInv'
  <2>1. PICK setting \in Settings, harness \in Harness, issues \in IssueSets :
          hook' = [hook EXCEPT ![h] = [NewHook EXCEPT !.step = "ready", !.harness = harness,
                                                      !.setting = setting, !.issues = issues]]
    BY <1>4, <1>0, Configured
  <2> QED BY <1>4, <1>0, <2>1 DEF Configure, HookInv, ServingInv, NewHook, TypeOK
<1>5. ASSUME NEW h \in Hook, Receive(h) PROVE HookInv' /\ ServingInv'
  <2>1. \A g \in Hook : hook[g].step \notin {"stat", "load", "judge"}
    BY <1>5, <1>0, NoneIsNoHook DEF Receive, HookInv
  <2>2. daemon \in DaemonType
    BY <1>5, <1>0 DEF Receive, TypeOK, Optional
  <2> QED BY <1>5, <1>0, <2>1, <2>2 DEF Receive, SetHook, HookInv, ServingInv, TypeOK
<1>6. ASSUME NEW h \in Hook, Stat(h) PROVE HookInv' /\ ServingInv'
  BY <1>6, <1>0 DEF Stat, HookInv, ServingInv, PolicyInv, TypeOK
<1>7. ASSUME NEW h \in Hook, Load(h) PROVE HookInv' /\ ServingInv'
  <2>1. daemon' \in DaemonType
    <3>1. daemon \in DaemonType /\ hook[h].stamp \in Stamp
      BY <1>7, <1>0, NoneIsNoHook, MaxEditsAssumption
      DEF Load, HookInv, ServingInv, TypeOK, Stamp
    <3>2. Readable(file.content) => Normalize(RawOf[file.content]) \in RulePolicy
      BY <1>0, ReadableType, NormalizeType
    <3> QED BY <1>7, <3>1, <3>2 DEF Load, DaemonType
  <2>2. HookInv'
    BY <1>7, <1>0 DEF Load, SetHook, HookInv, TypeOK
  <2> QED BY <1>7, <1>0, <2>1, <2>2 DEF Load, ServingInv
<1>8. ASSUME NEW h \in Hook, Judge(h) PROVE HookInv' /\ ServingInv'
  <2>1. \A g \in Hook : g # h => hook[g].step \notin {"stat", "load", "judge"}
    BY <1>8, <1>0 DEF Judge, HookInv
  <2>2. DecisionAssembly(daemon.policy, hook[h].issues) \in {"allow", "need_approval", "deny"}
    BY DecisionType
  <2> QED BY <1>8, <1>0, <2>1, <2>2, NoneIsNoHook DEF Judge, HookInv, ServingInv, TypeOK
<1>9. ASSUME NEW h \in Hook, Answer(h) \/ Fallback(h) PROVE HookInv' /\ ServingInv'
  <2>1. PICK a, decision :
          hook' = [hook EXCEPT ![h] = [@ EXCEPT !.step = "done", !.answer = a, !.stamp = None,
                                                !.decision = decision]]
    BY <1>9 DEF Answer, Fallback, Finish
  <2>2. hook'[h].step = "done" /\ \A g \in Hook : g # h => hook'[g] = hook[g]
    BY <2>1, <1>0 DEF TypeOK, HookType
  <2>3. /\ hook[h].step \in {"ready", "lost", "answer"}
        /\ UNCHANGED <<edits, serving, daemon, file, window>>
    BY <1>9 DEF Answer, Fallback
  <2> QED BY <1>0, <2>2, <2>3 DEF HookInv, ServingInv
<1> QED BY <1>1, <1>2, <1>3, <1>4, <1>5, <1>6, <1>7, <1>8, <1>9 DEF Next

(* Unless a change was missed, a policy with the file's stamp is the       *)
(* file's: new stamps are new, and the stamp of no file is remembered only *)
(* with the default policy or until the next look.                         *)
LEMMA StepPolicyInv ==
  ASSUME CheckInv, Next
  PROVE  PolicyInv'
<1>0. TypeOK /\ HookInv /\ ServingInv /\ PolicyInv
  BY DEF CheckInv
<1>n. edits \in Nat
  BY <1>0, MaxEditsAssumption DEF TypeOK
<1>1. ASSUME Edit PROVE PolicyInv'
  <2>1. edits' = edits + 1 /\ UNCHANGED daemon
    BY <1>1 DEF Edit
  <2>2. CASE /\ file' \in [content : Content \union {Unreadable}, stamp : 1..edits']
             /\ lapses' = IF file'.stamp = edits' THEN lapses ELSE lapses \union {"stamp"}
    <3>1. file'.stamp \in 0..edits' /\ (lapses' = {} => file'.stamp = edits')
      BY <2>2, <2>1, <1>n
    <3>2. daemon # None => daemon.observed \in 0..edits
      BY <1>0 DEF PolicyInv
    <3>3. daemon # None => daemon.observed \in 0..edits' /\ daemon.observed # edits'
      BY <3>2, <2>1, <1>n
    <3> QED BY <3>1, <3>3, <2>1 DEF PolicyInv
  <2>3. CASE /\ file' = [content |-> Default, stamp |-> Absent]
             /\ lapses' = IF daemon # None /\ daemon.observed = Absent
                              /\ daemon.policy # Normalize(RawOf[Default])
                           THEN lapses \union {"removed"} ELSE lapses
    <3>1. file'.stamp = Absent /\ file'.content = Default /\ Absent \in 0..edits'
      BY <2>3, <2>1, <1>n DEF Absent
    <3>2. (lapses' = {} /\ daemon # None /\ daemon.observed = Absent)
            => daemon.policy = Normalize(RawOf[Default])
      BY <2>3
    <3>3. daemon # None => daemon.observed \in 0..edits'
      BY <1>0, <2>1, <1>n DEF PolicyInv
    <3> QED BY <3>1, <3>2, <3>3, <2>1 DEF PolicyInv
  <2> QED BY <1>1, <2>2, <2>3 DEF Edit
<1>2. ASSUME StartDaemon PROVE PolicyInv'
  <2>1. daemon'.observed = Absent
        /\ (Readable(file.content) => daemon'.policy = Normalize(RawOf[file.content]))
    BY <1>2 DEF StartDaemon
  <2> QED BY <1>2, <1>0, <1>n, <2>1 DEF StartDaemon, PolicyInv, Absent, Readable
<1>3. ASSUME CrashDaemon PROVE PolicyInv'
  BY <1>3, <1>0 DEF CrashDaemon, PolicyInv, Readable
<1>4. ASSUME NEW h \in Hook, Load(h) PROVE PolicyInv'
  <2>1. daemon \in DaemonType /\ hook[h].stamp \in 0..edits
    BY <1>4, <1>0, NoneIsNoHook DEF Load, HookInv, ServingInv
  <2>2. daemon'.observed = hook[h].stamp
        /\ (Readable(file.content) => daemon'.policy = Normalize(RawOf[file.content]))
    BY <1>4, <2>1 DEF Load, DaemonType
  <2> QED BY <1>4, <1>0, <2>1, <2>2 DEF Load, PolicyInv, Readable
<1>5. ASSUME UNCHANGED <<file, edits, daemon, lapses>> PROVE PolicyInv'
  BY <1>5, <1>0 DEF PolicyInv, Readable
<1> QED BY <1>1, <1>2, <1>3, <1>4, <1>5
        DEF Next, Configure, Receive, Stat, Judge, Answer, Fallback

(* A request that is about to be judged has a policy of its window.        *)
LEMMA StepPolicyWasCurrent ==
  ASSUME CheckInv, Next
  PROVE  PolicyWasCurrent'
<1>0. TypeOK /\ HookInv /\ ServingInv /\ PolicyInv /\ PolicyWasCurrent
  BY DEF CheckInv
<1> SUFFICES ASSUME NEW h \in Hook, (hook[h].step = "judge")', (lapses = {})',
                    \A c \in window' : Readable(c)
             PROVE  \E c \in window' : daemon'.policy = Normalize(RawOf[c])
  BY DEF PolicyWasCurrent, Readable
<1>1. ASSUME Edit PROVE \E c \in window' : daemon'.policy = Normalize(RawOf[c])
  <2>1. hook[h].step = "judge" /\ daemon' = daemon /\ window \subseteq window'
    BY <1>1 DEF Edit
  <2>2. lapses = {}
    BY <1>1 DEF Edit
  <2> QED BY <2>1, <2>2, <1>0 DEF PolicyWasCurrent
<1>2. ASSUME StartDaemon PROVE FALSE
  <2>1. hook[h].step = "judge" /\ daemon = None
    BY <1>2 DEF StartDaemon
  <2> QED BY <2>1, <1>0, NoneIsNoHook, NoneIsNoDaemon DEF HookInv, ServingInv
<1>3. ASSUME CrashDaemon PROVE FALSE
  <2>1. hook'[h] = IF h = serving THEN [hook[h] EXCEPT !.step = "lost"] ELSE hook[h]
    BY <1>3 DEF CrashDaemon
  <2>2. [hook[h] EXCEPT !.step = "lost"].step = "lost"
    BY <1>0 DEF TypeOK, HookType
  <2> QED BY <2>1, <2>2, <1>0 DEF HookInv
<1>4. ASSUME NEW g \in Hook, Stat(g)
      PROVE  \E c \in window' : daemon'.policy = Normalize(RawOf[c])
  <2>1. serving = g /\ daemon \in DaemonType /\ file.content \in window
    BY <1>4, <1>0, NoneIsNoHook DEF Stat, HookInv, ServingInv
  <2>2. CASE g = h
    <3>1. file.stamp = daemon.observed
      BY <2>2, <1>4, <1>0 DEF Stat, TypeOK, HookType
    <3>2. Readable(file.content) /\ lapses = {} /\ UNCHANGED <<daemon, window>>
      BY <1>4, <2>1 DEF Stat
    <3> QED BY <3>1, <3>2, <2>1, <1>0, NoneIsNoDaemon DEF PolicyInv
  <2>3. CASE g # h
    <3>1. hook'[h] = hook[h]
      BY <2>3, <1>4, <1>0 DEF Stat, TypeOK
    <3> QED BY <3>1, <2>1, <2>3, <1>0 DEF HookInv
  <2> QED BY <2>2, <2>3
<1>5. ASSUME NEW g \in Hook, Load(g)
      PROVE  \E c \in window' : daemon'.policy = Normalize(RawOf[c])
  <2>1. file.content \in window /\ window' = window
    BY <1>5, <1>0, NoneIsNoHook DEF Load, HookInv, ServingInv
  <2>2. Readable(file.content)
    BY <2>1
  <2> QED BY <1>5, <2>1, <2>2 DEF Load
<1>6. ASSUME NEW g \in Hook, Receive(g) PROVE FALSE
  <2>1. hook[h].step = "judge"
    BY <1>6, <1>0 DEF Receive, SetHook, TypeOK, HookType
  <2> QED BY <2>1, <1>6, <1>0, NoneIsNoHook DEF Receive, HookInv
<1>7. ASSUME NEW g \in Hook, Judge(g) PROVE FALSE
  <2>1. hook[h].step = "judge" /\ g # h
    BY <1>7, <1>0 DEF Judge, TypeOK, HookType
  <2> QED BY <2>1, <1>7, <1>0 DEF Judge, HookInv
<1>8. ASSUME NEW g \in Hook, Configure(g) \/ Answer(g) \/ Fallback(g)
      PROVE  \E c \in window' : daemon'.policy = Normalize(RawOf[c])
  <2>1. hook[h].step = "judge"
    <3>1. CASE Configure(g)
      <4>1. PICK setting \in Settings, harness \in Harness, issues \in IssueSets :
              hook' = [hook EXCEPT ![g] = [NewHook EXCEPT !.step = "ready",
                         !.harness = harness, !.setting = setting, !.issues = issues]]
        BY <3>1, <1>0, Configured
      <4>2. hook'[g].step = "ready"
        BY <4>1, <1>0 DEF TypeOK, NewHook
      <4> QED BY <4>1, <4>2, <1>0 DEF TypeOK
    <3>2. CASE Answer(g) \/ Fallback(g)
      <4>1. PICK a, decision :
              hook' = [hook EXCEPT ![g] = [@ EXCEPT !.step = "done", !.answer = a,
                                                    !.stamp = None, !.decision = decision]]
        BY <3>2 DEF Answer, Fallback, Finish
      <4>2. hook'[g].step = "done"
        BY <4>1, <1>0 DEF TypeOK, HookType
      <4> QED BY <4>1, <4>2, <1>0 DEF TypeOK
    <3> QED BY <1>8, <3>1, <3>2
  <2>2. UNCHANGED <<daemon, window, lapses>>
    BY <1>8 DEF Configure, Answer, Fallback
  <2> QED BY <2>1, <2>2, <1>0 DEF PolicyWasCurrent
<1> QED BY <1>1, <1>2, <1>3, <1>4, <1>5, <1>6, <1>7, <1>8 DEF Next

(* Only the last step of a hook gives an answer, and Configure takes it    *)
(* back.                                                                   *)
LEMMA StepAnswerIsJustified ==
  ASSUME CheckInv, Next
  PROVE  AnswerIsJustified'
<1>0. TypeOK /\ HookInv /\ ServingInv /\ AnswerIsJustified
  BY DEF CheckInv
<1> DEFINE justified(k) ==
      CASE k.decision = "allow" -> TRUE
        [] k.decision = "need_approval" -> k.harness = "codex" /\ k.setting.mode = "observe"
        [] k.decision = "deny" -> FALSE
        [] OTHER -> k.setting.failureAction = "allow"
           good(k) == k.answer = "run" => justified(k)
<1>1. \A h \in Hook : good(hook[h])
  BY <1>0 DEF AnswerIsJustified
<1>2. SUFFICES \A h \in Hook : good(hook'[h])
  BY DEF AnswerIsJustified
<1> SUFFICES ASSUME NEW h \in Hook PROVE good(hook'[h])
  OBVIOUS
<1>3. CASE hook'[h] = hook[h]
  BY <1>3, <1>1
<1>4. ASSUME NEW g \in Hook, Configure(g), hook'[h] # hook[h] PROVE good(hook'[h])
  <2>1. hook'[h].answer = None
    BY <1>4, <1>0 DEF Configure, NewHook, TypeOK
  <2> QED BY <2>1, NoneIsNoHook
<1>5. ASSUME hook'[h].answer = hook[h].answer, hook'[h].decision = hook[h].decision,
             hook'[h].harness = hook[h].harness, hook'[h].setting = hook[h].setting
      PROVE  good(hook'[h])
  BY <1>5, <1>1
<1>6. ASSUME CrashDaemon PROVE good(hook'[h])
  <2>1. hook'[h] = IF h = serving THEN [hook[h] EXCEPT !.step = "lost"] ELSE hook[h]
    BY <1>6 DEF CrashDaemon
  <2> QED BY <2>1, <1>5, <1>0 DEF TypeOK, HookType
<1>7. ASSUME NEW g \in Hook, Receive(g) \/ Stat(g) \/ Load(g) PROVE good(hook'[h])
  BY <1>7, <1>5, <1>0 DEF Receive, Stat, Load, SetHook, TypeOK, HookType
<1>8. ASSUME NEW g \in Hook, Judge(g), hook'[h] # hook[h] PROVE good(hook'[h])
  <2>1. g = h /\ hook[h].step = "judge" /\ hook'[h].answer = hook[h].answer
    BY <1>8, <1>0 DEF Judge, TypeOK, HookType
  <2>2. hook[h].answer = None
    BY <2>1, <1>0 DEF HookInv
  <2> QED BY <2>1, <2>2, NoneIsNoHook
<1>9. ASSUME NEW g \in Hook, Answer(g), hook'[h] # hook[h] PROVE good(hook'[h])
  <2> DEFINE a == Mapped(hook[h].harness, hook[h].setting.mode, hook[h].decision)
  <2>1. g = h /\ hook'[h].decision = hook[h].decision /\ hook'[h].harness = hook[h].harness
        /\ hook'[h].setting = hook[h].setting /\ hook'[h].answer \in {a, "failed"}
        /\ hook[h].step = "answer"
    BY <1>9, <1>0 DEF Answer, Finish, TypeOK, HookType
  <2>2. hook[h].decision \in {"allow", "need_approval", "deny"}
        /\ hook[h].harness \in Harness /\ hook[h].setting \in Settings
    BY <2>1, <1>0 DEF HookInv
  <2>3. a = "run" => \/ hook[h].decision = "allow"
                     \/ /\ hook[h].decision = "need_approval"
                        /\ hook[h].harness = "codex" /\ hook[h].setting.mode = "observe"
    BY <2>2 DEF Mapped, Harness
  <2> QED BY <2>1, <2>2, <2>3
<1>10. ASSUME NEW g \in Hook, Fallback(g), hook'[h] # hook[h] PROVE good(hook'[h])
  <2> DEFINE a == FallbackAnswer(hook[h].harness, hook[h].setting.failureAction)
  <2>1. g = h /\ hook'[h].decision = None
        /\ hook'[h].setting = hook[h].setting /\ hook'[h].answer \in {a, "failed"}
        /\ hook[h].step \in {"ready", "lost", "answer"}
    BY <1>10, <1>0 DEF Fallback, Finish, TypeOK, HookType
  <2>2. a = "run" => hook[h].setting.failureAction = "allow"
    BY DEF FallbackAnswer
  <2>3. None \notin {"need_approval", "deny"}
    BY NoneIsNoAction DEF Actions
  <2> QED BY <2>1, <2>2, <2>3
<1>11. ASSUME Edit \/ StartDaemon PROVE good(hook'[h])
  BY <1>11, <1>1 DEF Edit, StartDaemon
<1> QED BY <1>3, <1>4, <1>6, <1>7, <1>8, <1>9, <1>10, <1>11 DEF Next

(* The floor is in every policy a daemon gets, and a finding of the floor  *)
(* decides.                                                                *)
LEMMA StepFloorStands ==
  ASSUME CheckInv, Next
  PROVE  FloorStands'
<1>0. TypeOK /\ HookInv /\ ServingInv /\ FloorStands
  BY DEF CheckInv
<1>1. daemon' # None => \A r \in FloorRules : ActionFor(daemon'.policy, r) = "deny"
  <2> SUFFICES ASSUME daemon' # None, NEW r \in FloorRules
               PROVE  ActionFor(daemon'.policy, r) = "deny"
    OBVIOUS
  <2>1. Readable(file.content) => RawOf[file.content] \in Raw
    BY <1>0, ReadableType
  <2>2. CASE UNCHANGED daemon
    BY <2>2, <1>0 DEF FloorStands
  <2>3. CASE StartDaemon
    BY <2>3, <2>1, FloorOfPolicies DEF StartDaemon
  <2>4. ASSUME NEW h \in Hook, Load(h) PROVE ActionFor(daemon'.policy, r) = "deny"
    <3>1. daemon \in DaemonType /\ daemon # None
      BY <2>4, <1>0, NoneIsNoHook, NoneIsNoDaemon DEF Load, HookInv, ServingInv
    <3>2. CASE Readable(file.content)
      BY <3>2, <2>4, <2>1, FloorOfPolicies DEF Load
    <3>3. CASE ~Readable(file.content)
      BY <3>3, <3>1, <2>4, <1>0 DEF Load, FloorStands, DaemonType
    <3> QED BY <3>2, <3>3
  <2>5. CASE CrashDaemon
    BY <2>5 DEF CrashDaemon
  <2> QED BY <2>2, <2>3, <2>4, <2>5
          DEF Next, Edit, Configure, Receive, Stat, Judge, Answer, Fallback
<1>2. ASSUME NEW h \in Hook, \E i \in hook'[h].issues : i.kind = "floor"
      PROVE  hook'[h].decision \in {None, "deny"}
  <2>1. ASSUME hook'[h].issues = hook[h].issues,
               hook'[h].decision \in {hook[h].decision, None}
        PROVE  hook'[h].decision \in {None, "deny"}
    BY <2>1, <1>2, <1>0 DEF FloorStands
  <2>2. ASSUME NEW g \in Hook, Configure(g), hook'[h] # hook[h]
        PROVE  hook'[h].decision = None
    BY <2>2, <1>0 DEF Configure, NewHook, TypeOK
  <2>3. ASSUME NEW g \in Hook, Judge(g), hook'[h] # hook[h]
        PROVE  hook'[h].decision = "deny"
    <3>1. hook'[h].issues = hook[h].issues
          /\ hook'[h].decision = DecisionAssembly(daemon.policy, hook[h].issues)
      BY <2>3, <1>0 DEF Judge, TypeOK, HookType
    <3> QED BY <3>1, <1>2 DEF DecisionAssembly
  <2>4. ASSUME CrashDaemon
        PROVE  hook'[h].issues = hook[h].issues /\ hook'[h].decision = hook[h].decision
    <3>1. hook'[h] = IF h = serving THEN [hook[h] EXCEPT !.step = "lost"] ELSE hook[h]
      BY <2>4 DEF CrashDaemon
    <3> QED BY <3>1, <1>0 DEF TypeOK, HookType
  <2>5. ASSUME NEW g \in Hook, Receive(g) \/ Stat(g) \/ Load(g)
        PROVE  hook'[h].issues = hook[h].issues /\ hook'[h].decision = hook[h].decision
    BY <2>5, <1>0 DEF Receive, Stat, Load, SetHook, TypeOK, HookType
  <2>6. ASSUME NEW g \in Hook, Answer(g) \/ Fallback(g)
        PROVE  hook'[h].issues = hook[h].issues
               /\ hook'[h].decision \in {hook[h].decision, None}
    <3> DEFINE Ended(a, decision) ==
                 hook' = [hook EXCEPT ![g] = [@ EXCEPT !.step = "done", !.answer = a, !.stamp = None,
                                                       !.decision = decision]]
    <3>1. PICK a \in {"run", "ask", "deny", "failed"}, decision \in {hook[g].decision, None} :
            Ended(a, decision)
      <4>1. CASE Answer(g)
        <5>1. Mapped(hook[g].harness, hook[g].setting.mode, hook[g].decision) \in {"run", "ask", "deny"}
          BY DEF Mapped
        <5>2. PICK a \in {"run", "ask", "deny", "failed"} : Ended(a, hook[g].decision)
          BY <4>1, <5>1 DEF Answer, Finish
        <5> HIDE DEF Ended
        <5> QED BY <5>2
      <4>2. CASE Fallback(g)
        <5>1. FallbackAnswer(hook[g].harness, hook[g].setting.failureAction) \in {"run", "ask", "deny"}
          BY DEF FallbackAnswer
        <5>2. PICK a \in {"run", "ask", "deny", "failed"} : Ended(a, None)
          BY <4>2, <5>1 DEF Fallback, Finish
        <5> HIDE DEF Ended
        <5> QED BY <5>2
      <4> HIDE DEF Ended
      <4> QED BY <2>6, <4>1, <4>2
    <3>2. hook'[g].issues = hook[g].issues /\ hook'[g].decision = decision
      BY <3>1, <1>0 DEF TypeOK, HookType
    <3>3. g # h => hook'[h] = hook[h]
      BY <3>1, <1>0 DEF TypeOK
    <3> QED BY <3>1, <3>2, <3>3
  <2>7. ASSUME hook' = hook PROVE hook'[h].decision \in {None, "deny"}
    BY <2>7, <2>1
  <2> QED BY <2>1, <2>2, <2>3, <2>4, <2>5, <2>6, <2>7 DEF Next, Edit, StartDaemon
<1> QED BY <1>1, <1>2 DEF FloorStands

-----------------------------------------------------------------------------
(* The theorems.                                                           *)

(* Every step keeps the invariant, and so does every stutter.              *)
LEMMA StepInv == CheckInv /\ [Next]_vars => CheckInv'
<1> SUFFICES ASSUME CheckInv, [Next]_vars PROVE CheckInv'
  OBVIOUS
<1>1. CASE Next
  BY <1>1, StepTypeOK, StepHookInv, StepPolicyInv, StepPolicyWasCurrent,
     StepAnswerIsJustified, StepFloorStands DEF CheckInv
<1>2. CASE UNCHANGED vars
  BY <1>2 DEF vars, CheckInv, TypeOK, HookInv, ServingInv, PolicyInv, PolicyWasCurrent,
             AnswerIsJustified, FloorStands, Readable
<1> QED BY <1>1, <1>2

(* The invariant holds in every state.                                     *)
THEOREM CheckCorrect == Spec => []CheckInv
<1> QED BY InitInv, StepInv, PTL DEF Spec

(* Every variable keeps its type.                                          *)
THEOREM CheckTypeCorrect == Spec => []TypeOK
<1>1. CheckInv => TypeOK
  BY DEF CheckInv
<1> QED BY <1>1, CheckCorrect, PTL

(* refresh_config: a request is judged by a policy that the file held      *)
(* while it was handled, unless one of the two named lapses happened.      *)
THEOREM PolicyWasCurrentHolds == Spec => []PolicyWasCurrent
<1>1. CheckInv => PolicyWasCurrent
  BY DEF CheckInv
<1> QED BY <1>1, CheckCorrect, PTL

(* Hooks and adapters: what runs was allowed, or let through by a setting. *)
THEOREM AnswerIsJustifiedHolds == Spec => []AnswerIsJustified
<1>1. CheckInv => AnswerIsJustified
  BY DEF CheckInv
<1> QED BY <1>1, CheckCorrect, PTL

(* enforce_hard_deny_floor and DecisionAssemblyPass: no configuration and  *)
(* no edit lowers the hard deny floor.                                     *)
THEOREM FloorStandsHolds == Spec => []FloorStands
<1>1. CheckInv => FloorStands
  BY DEF CheckInv
<1> QED BY <1>1, CheckCorrect, PTL

(* attach_trusted_paths: trusting paths changes the action of no rule.     *)
THEOREM TrustKeepsActionsHolds == Spec => []TrustKeepsActions
<1>1. TypeOK => TrustKeepsActions
  BY ReadableType, TrustChangesNoAction DEF TrustKeepsActions
<1> QED BY <1>1, CheckTypeCorrect, PTL

-----------------------------------------------------------------------------
(***************************************************************************)
(* Tightening a configuration.  Every key is left out by both or written   *)
(* by both, and no action is laxer than it was; no roots become trusted.   *)
(* An action for unknown commands stands above that for the gap they are,  *)
(* so that writing need_approval there can be laxer than not to write it:  *)
(* only deny, or what it was, is sure to tighten.                          *)
(***************************************************************************)
NoLaxer(action, stricter) == action = stricter \/ action = "observe" \/ stricter = "deny"

Kept(action, stricter) ==
  action = stricter \/ (action # None /\ stricter # None /\ NoLaxer(action, stricter))

Tightens(raw, strict) ==
  /\ \A r \in Rule : Kept(raw.rules[r], strict.rules[r])
  /\ \A f \in Family : Kept(raw.families[f], strict.families[f])
  /\ \A g \in Gap : Kept(raw.gaps[g], strict.gaps[g])
  /\ \A p \in Payload : Kept(raw.payloads[p], strict.payloads[p])
  /\ \A n \in Name : Kept(raw.names[n], strict.names[n])
  /\ strict.unknown \in {raw.unknown, "deny"}
  /\ strict.trusting => raw.trusting

NoWeaker(decision, stricter) ==
  decision = stricter \/ decision = "allow" \/ stricter = "deny"

(* What a normalised configuration says of each key.                       *)
LEMMA NormalizedPolicy ==
  ASSUME NEW raw \in Raw
  PROVE  /\ \A r \in Rule : Trusts(Normalize(raw), r) <=> raw.trusting /\ r \in TrustedRules
         /\ Normalize(raw).gaps = raw.gaps
         /\ Normalize(raw).payloads = raw.payloads
         /\ Normalize(raw).unknown = raw.unknown
         /\ Normalize(raw).names = raw.names
<1> DEFINE written == [q \in Rule |-> IF raw.rules[q] = None THEN None
                                      ELSE NewEntry(raw.rules[q])]
           floored == EnforceHardDenyFloor(written)
           attached == AttachTrustedPaths(floored, raw.families, raw.trusting)
<1>1. ASSUME NEW r \in Rule
      PROVE  attached[r] # None /\ attached[r].trusting <=> raw.trusting /\ r \in TrustedRules
  <2>1. raw.rules[r] = None \/ raw.rules[r] \in Actions
    BY DEF Raw, Optional
  <2>2. \/ floored[r] = None
        \/ floored[r] \in Entry /\ floored[r].trusting = FALSE
           /\ floored[r].action \in Actions
    BY <2>1 DEF EnforceHardDenyFloor, NewEntry, Entry, Actions
  <2>3. CASE ~(raw.trusting /\ r \in TrustedRules)
    BY <2>2, <2>3 DEF AttachTrustedPaths
  <2>4. CASE raw.trusting /\ r \in TrustedRules
    <3> DEFINE action == IF floored[r] # None THEN floored[r].action
                         ELSE IF raw.families[FamilyOf[r]] # None THEN raw.families[FamilyOf[r]]
                         ELSE DefaultRule[r]
    <3>1. action \in Actions
      BY <2>2, DefaultsAssumption DEF Raw, Optional
    <3>2. attached[r] = [action |-> action, trusting |-> TRUE]
      BY <2>4 DEF AttachTrustedPaths
    <3> HIDE DEF action, attached
    <3>3. attached[r] \in Entry
      BY <3>1, <3>2 DEF Entry
    <3>4. attached[r] # None
      BY <3>3, NoneIsNoAction
    <3>5. attached[r].trusting = TRUE
      BY <3>2
    <3> QED BY <2>4, <3>4, <3>5
  <2> QED BY <2>3, <2>4
<1>2. /\ Normalize(raw).rules = attached
      /\ Normalize(raw).gaps = raw.gaps
      /\ Normalize(raw).payloads = raw.payloads
      /\ Normalize(raw).unknown = raw.unknown
      /\ Normalize(raw).names = raw.names
  BY DEF Normalize
<1> HIDE DEF attached
<1> QED BY <1>1, <1>2 DEF Trusts

(* No action gets laxer.                                                   *)
LEMMA ActionsTighten ==
  ASSUME NEW raw \in Raw, NEW strict \in Raw, Tightens(raw, strict)
  PROVE  LET old == Normalize(raw)
             new == Normalize(strict)
         IN  /\ \A r \in Rule : NoLaxer(ActionFor(old, r), ActionFor(new, r))
             /\ \A r \in Rule : Trusts(new, r) => Trusts(old, r)
             /\ \A g \in Gap : NoLaxer(ActionForGap(old, g), ActionForGap(new, g))
             /\ \A p \in Payload : NoLaxer(ActionForPayload(old, p), ActionForPayload(new, p))
             /\ \A n \in Name, g \in Gap :
                  NoLaxer(ActionForUnknown(old, n, g), ActionForUnknown(new, n, g))
<1> DEFINE old == Normalize(raw)
           new == Normalize(strict)
<1>1. /\ old.gaps = raw.gaps /\ new.gaps = strict.gaps
      /\ old.payloads = raw.payloads /\ new.payloads = strict.payloads
      /\ old.unknown = raw.unknown /\ new.unknown = strict.unknown
      /\ old.names = raw.names /\ new.names = strict.names
      /\ \A r \in Rule : Trusts(old, r) <=> raw.trusting /\ r \in TrustedRules
      /\ \A r \in Rule : Trusts(new, r) <=> strict.trusting /\ r \in TrustedRules
  BY NormalizedPolicy
<1>2. ASSUME NEW r \in Rule
      PROVE  NoLaxer(ActionFor(old, r), ActionFor(new, r))
  <2>1. FamilyOf[r] \in Family
    BY DefaultsAssumption
  <2>2. /\ Kept(raw.rules[r], strict.rules[r])
        /\ Kept(raw.families[FamilyOf[r]], strict.families[FamilyOf[r]])
    BY <2>1 DEF Tightens
  <2>3. /\ ActionFor(old, r) =
             IF r \in FloorRules THEN "deny"
             ELSE IF raw.rules[r] # None THEN raw.rules[r]
             ELSE IF raw.families[FamilyOf[r]] # None THEN raw.families[FamilyOf[r]]
             ELSE DefaultRule[r]
        /\ ActionFor(new, r) =
             IF r \in FloorRules THEN "deny"
             ELSE IF strict.rules[r] # None THEN strict.rules[r]
             ELSE IF strict.families[FamilyOf[r]] # None THEN strict.families[FamilyOf[r]]
             ELSE DefaultRule[r]
    BY NormalizedAction
  <2> HIDE DEF old, new
  <2> QED BY <2>2, <2>3 DEF Kept, NoLaxer
<1> HIDE DEF old, new
<1>3. \A g \in Gap : NoLaxer(ActionForGap(old, g), ActionForGap(new, g))
  BY <1>1 DEF ActionForGap, OrElse, Tightens, Kept, NoLaxer
<1>4. \A p \in Payload : NoLaxer(ActionForPayload(old, p), ActionForPayload(new, p))
  BY <1>1 DEF ActionForPayload, OrElse, Tightens, Kept, NoLaxer
<1>5. ASSUME NEW n \in Name, NEW g \in Gap
      PROVE  NoLaxer(ActionForUnknown(old, n, g), ActionForUnknown(new, n, g))
  <2>1. NoLaxer(ActionForGap(old, g), ActionForGap(new, g))
    BY <1>3
  <2>2. Kept(old.names[n], new.names[n]) /\ new.unknown \in {old.unknown, "deny"}
    BY <1>1 DEF Tightens
  <2> QED BY <2>1, <2>2 DEF ActionForUnknown, OrElse, Kept, NoLaxer
<1>6. \A r \in Rule : Trusts(new, r) => Trusts(old, r)
  BY <1>1 DEF Tightens
<1> QED BY <1>2, <1>3, <1>4, <1>5, <1>6 DEF old, new

(* A stricter configuration, or a longer list of findings, never leads to  *)
(* a weaker decision, whichever keys the two configurations write and      *)
(* however rules, families and trusted paths overlap (normalize_config,    *)
(* action_for_no_profile_gap, DecisionAssemblyPass).                       *)
THEOREM TighteningNeverWeakens ==
  ASSUME NEW raw \in Raw, NEW strict \in Raw, Tightens(raw, strict),
         NEW issues \in SUBSET Issue, NEW more \in SUBSET Issue, issues \subseteq more
  PROVE  NoWeaker(DecisionAssembly(Normalize(raw), issues),
                  DecisionAssembly(Normalize(strict), more))
<1> DEFINE old == Normalize(raw)
           new == Normalize(strict)
<1>1. /\ \A r \in Rule : NoLaxer(ActionFor(old, r), ActionFor(new, r))
      /\ \A r \in Rule : Trusts(new, r) => Trusts(old, r)
      /\ \A g \in Gap : NoLaxer(ActionForGap(old, g), ActionForGap(new, g))
      /\ \A p \in Payload : NoLaxer(ActionForPayload(old, p), ActionForPayload(new, p))
      /\ \A n \in Name, g \in Gap :
           NoLaxer(ActionForUnknown(old, n, g), ActionForUnknown(new, n, g))
  BY ActionsTighten
<1> HIDE DEF old, new
<1>2. ASSUME NEW action \in Proposals(old, issues)
      PROVE  \E stricter \in Proposals(new, more) : NoLaxer(action, stricter)
  <2>1. CASE \E i \in issues : i.kind = "rule" /\ ~(i.trusted /\ Trusts(old, i.of))
                               /\ action = ActionFor(old, i.of)
    <3>1. PICK i \in issues : i.kind = "rule" /\ ~(i.trusted /\ Trusts(old, i.of))
                              /\ action = ActionFor(old, i.of)
      BY <2>1
    <3>2. i \in more /\ i.of \in Rule
      BY <3>1, FloorAssumption DEF Issue
    <3>3. ActionFor(new, i.of) \in Proposals(new, more)
      BY <1>1, <3>1, <3>2 DEF Proposals
    <3> QED BY <1>1, <3>1, <3>2, <3>3
  <2>2. CASE \E i \in issues : i.kind = "gap" /\ action = ActionForGap(old, i.of)
    <3>1. PICK i \in issues : i.kind = "gap" /\ action = ActionForGap(old, i.of)
      BY <2>2
    <3>2. i \in more /\ i.of \in Gap
      BY <3>1 DEF Issue
    <3>3. ActionForGap(new, i.of) \in Proposals(new, more)
      BY <3>1, <3>2 DEF Proposals
    <3> QED BY <1>1, <3>1, <3>2, <3>3
  <2>3. CASE \E i \in issues : i.kind = "payload" /\ action = ActionForPayload(old, i.of)
    <3>1. PICK i \in issues : i.kind = "payload" /\ action = ActionForPayload(old, i.of)
      BY <2>3
    <3>2. i \in more /\ i.of \in Payload
      BY <3>1 DEF Issue
    <3>3. ActionForPayload(new, i.of) \in Proposals(new, more)
      BY <3>1, <3>2 DEF Proposals
    <3> QED BY <1>1, <3>1, <3>2, <3>3
  <2>4. CASE \E i \in issues : i.kind = "unknown" /\ action = ActionForUnknown(old, i.of, i.gap)
    <3>1. PICK i \in issues : i.kind = "unknown" /\ action = ActionForUnknown(old, i.of, i.gap)
      BY <2>4
    <3>2. i \in more /\ i.of \in Name /\ i.gap \in Gap
      BY <3>1 DEF Issue
    <3>3. ActionForUnknown(new, i.of, i.gap) \in Proposals(new, more)
      BY <3>1, <3>2 DEF Proposals
    <3> QED BY <1>1, <3>1, <3>2, <3>3
  <2> QED BY <2>1, <2>2, <2>3, <2>4 DEF Proposals
<1>3. "deny" \in Proposals(old, issues) => "deny" \in Proposals(new, more)
  BY <1>2 DEF NoLaxer
<1>4. "need_approval" \in Proposals(old, issues) =>
        "need_approval" \in Proposals(new, more) \/ "deny" \in Proposals(new, more)
  BY <1>2 DEF NoLaxer
<1>5. (\E i \in issues : i.kind = "floor") => \E i \in more : i.kind = "floor"
  OBVIOUS
<1>6. NoWeaker(DecisionAssembly(old, issues), DecisionAssembly(new, more))
  BY <1>3, <1>4, <1>5 DEF DecisionAssembly, NoWeaker
<1> QED BY <1>6 DEF old, new
=============================================================================
