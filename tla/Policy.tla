-------------------------------- MODULE Policy --------------------------------
(***************************************************************************)
(* The policy of a configuration file and the decision it makes of what    *)
(* the analysis of a command reports.  A raw configuration is what the     *)
(* user wrote; None stands for a key that is absent.                       *)
(***************************************************************************)

CONSTANTS
  Rule, Family, Gap, Payload, Name,
  FamilyOf,        \* the family of each rule
  DefaultRule,     \* the built-in action of each rule,
  DefaultGap,      \* each kind of resolve gap
  DefaultPayload,  \* and each kind of unresolved payload
  FloorRules,      \* HARD_DENY_FLOOR_RULES
  TrustedRules,    \* TRUSTED_PATH_RULES
  None

Actions == {"observe", "need_approval", "deny"}

ASSUME DefaultsAssumption ==
  /\ FamilyOf \in [Rule -> Family]
  /\ DefaultRule \in [Rule -> Actions]
  /\ DefaultGap \in [Gap -> Actions]
  /\ DefaultPayload \in [Payload -> Actions]
ASSUME FloorAssumption ==
  /\ FloorRules \subseteq Rule /\ TrustedRules \subseteq Rule
  /\ FloorRules \cap TrustedRules = {}
  /\ \A r \in FloorRules : DefaultRule[r] = "deny"

Optional(S) == S \union {None}

(* sound: the version, the analysis depth, the names of unknown commands   *)
(* and the trusted paths are acceptable.  trusting: there are trusted paths. *)
Raw == [rules : [Rule -> Optional(Actions)], families : [Family -> Optional(Actions)],
        gaps : [Gap -> Optional(Actions)], payloads : [Payload -> Optional(Actions)],
        unknown : Actions, names : [Name -> Optional(Actions)],
        trusting : BOOLEAN, sound : BOOLEAN]

Entry == [action : Actions, trusting : BOOLEAN]

ASSUME NoneIsNoAction == None \notin Actions /\ None \notin Entry

RulePolicy == [rules : [Rule -> Optional(Entry)], families : [Family -> Optional(Actions)],
               gaps : [Gap -> Optional(Actions)], payloads : [Payload -> Optional(Actions)],
               unknown : Actions, names : [Name -> Optional(Actions)]]

-----------------------------------------------------------------------------
(***************************************************************************)
(* normalize_config                                                        *)
(***************************************************************************)
Valid(raw) ==
  raw.sound /\ \A r \in FloorRules : raw.rules[r] \in {None, "deny"}

NewEntry(action) == [action |-> action, trusting |-> FALSE]

(* Deliberately wrong: absent floor rules are left to their family. *)
EnforceHardDenyFloor_WrittenOnly(rules) == rules

EnforceHardDenyFloor(rules) ==
  [r \in Rule |-> IF r \in FloorRules THEN NewEntry("deny") ELSE rules[r]]

(* Deliberately wrong: an entry made for trusted paths forgets the family. *)
AttachTrustedPaths_ForgetsFamily(rules, families, trusting) ==
  [r \in Rule |->
     IF ~trusting \/ r \notin TrustedRules THEN rules[r]
     ELSE [action |-> IF rules[r] # None THEN rules[r].action ELSE DefaultRule[r],
           trusting |-> TRUE]]

(* A rule that only its family or nothing configures gets an entry of its  *)
(* own, which from then on decides for it.                                 *)
AttachTrustedPaths(rules, families, trusting) ==
  [r \in Rule |->
     IF ~trusting \/ r \notin TrustedRules THEN rules[r]
     ELSE [action |-> IF rules[r] # None THEN rules[r].action
                      ELSE IF families[FamilyOf[r]] # None THEN families[FamilyOf[r]]
                      ELSE DefaultRule[r],
           trusting |-> TRUE]]

Normalize(raw) ==
  LET written == [r \in Rule |-> IF raw.rules[r] = None THEN None ELSE NewEntry(raw.rules[r])]
  IN  [rules |-> AttachTrustedPaths(EnforceHardDenyFloor(written), raw.families, raw.trusting),
       families |-> raw.families, gaps |-> raw.gaps, payloads |-> raw.payloads,
       unknown |-> raw.unknown, names |-> raw.names]

(* The policy of a daemon that knows no configuration.                     *)
BuiltIn ==
  [rules |-> [r \in Rule |-> None], families |-> [f \in Family |-> None],
   gaps |-> [g \in Gap |-> None], payloads |-> [p \in Payload |-> None],
   unknown |-> "observe", names |-> [n \in Name |-> None]]

-----------------------------------------------------------------------------
(***************************************************************************)
(* What the policy says.                                                   *)
(***************************************************************************)
ActionFor(policy, r) ==
  IF policy.rules[r] # None THEN policy.rules[r].action
  ELSE IF policy.families[FamilyOf[r]] # None THEN policy.families[FamilyOf[r]]
  ELSE DefaultRule[r]

Trusts(policy, r) == policy.rules[r] # None /\ policy.rules[r].trusting

OrElse(action, default) == IF action = None THEN default ELSE action

ActionForGap(policy, g) == OrElse(policy.gaps[g], DefaultGap[g])

ActionForPayload(policy, p) == OrElse(policy.payloads[p], DefaultPayload[p])

(* A gap of kind NoProfile, for a command of the given name.               *)
ActionForUnknown(policy, n, g) ==
  OrElse(policy.names[n],
         IF policy.unknown # "observe" THEN policy.unknown ELSE ActionForGap(policy, g))

-----------------------------------------------------------------------------
(***************************************************************************)
(* The decision.  What the passes report is a set of issues: a rule that   *)
(* matched (perhaps only on paths under a trusted root), a gap, a payload  *)
(* or an unknown command, or a finding of the hard deny floor, which       *)
(* proposes nothing.                                                       *)
(***************************************************************************)
Issue ==
  [kind : {"rule"}, of : Rule, trusted : BOOLEAN]
    \union [kind : {"gap"}, of : Gap]
    \union [kind : {"payload"}, of : Payload]
    \union [kind : {"unknown"}, of : Name, gap : Gap]
    \union [kind : {"floor"}, of : FloorRules]

Proposals(policy, issues) ==
  {ActionFor(policy, i.of) : i \in {j \in issues : j.kind = "rule"
                                      /\ ~(j.trusted /\ Trusts(policy, j.of))}}
    \union {ActionForGap(policy, i.of) : i \in {j \in issues : j.kind = "gap"}}
    \union {ActionForPayload(policy, i.of) : i \in {j \in issues : j.kind = "payload"}}
    \union {ActionForUnknown(policy, i.of, i.gap) : i \in {j \in issues : j.kind = "unknown"}}

DecisionAssembly(policy, issues) ==
  IF "deny" \in Proposals(policy, issues) \/ \E i \in issues : i.kind = "floor" THEN "deny"
  ELSE IF "need_approval" \in Proposals(policy, issues) THEN "need_approval"
  ELSE "allow"
===============================================================================
