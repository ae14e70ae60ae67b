---------------------------- MODULE MCCheckAnswer ----------------------------
(***************************************************************************)
(* An instance of CheckAnswer for TLC: a rule of the hard deny floor, one  *)
(* of trusted paths and an ordinary one, and four configurations that a    *)
(* user may write one after the other.                                     *)
(***************************************************************************)
EXTENDS CheckAnswer

MCFamilyOf == [delete |-> "host_safety", script |-> "path", taint |-> "taint"]
MCDefaultRule == [delete |-> "deny", script |-> "observe", taint |-> "need_approval"]
MCDefaultGap == [no_profile |-> "observe", missing_name |-> "need_approval"]
MCDefaultPayload == [static |-> "observe", dynamic |-> "need_approval"]

Plain ==
  [rules |-> [r \in Rule |-> None], families |-> [f \in Family |-> None],
   gaps |-> [g \in Gap |-> None], payloads |-> [p \in Payload |-> None],
   unknown |-> "observe", names |-> [n \in Name |-> None],
   trusting |-> FALSE, sound |-> TRUE]

(* lax: whole families are allowed, the floor's among them.  strict: path  *)
(* rules deny, but for trusted roots.  lowered: asks for what is refused.  *)
MCRawOf ==
  [plain |-> Plain,
   lax |-> [Plain EXCEPT !.families["host_safety"] = "observe",
                         !.families["taint"] = "observe",
                         !.gaps["missing_name"] = "observe"],
   strict |-> [Plain EXCEPT !.families["path"] = "deny", !.unknown = "deny",
                            !.names["make"] = "observe", !.trusting = TRUE],
   lowered |-> [Plain EXCEPT !.rules["delete"] = "observe"]]

MCSetting ==
  [plain |-> [failureAction |-> "need_approval", mode |-> "block"],
   lax |-> [failureAction |-> "allow", mode |-> "observe"],
   strict |-> [failureAction |-> "deny", mode |-> "block"],
   lowered |-> [failureAction |-> "allow", mode |-> "observe"]]

MCIssueSets ==
  LET matched(r, trusted) == [kind |-> "rule", of |-> r, trusted |-> trusted]
      floor == [kind |-> "floor", of |-> "delete"]
      unknown == [kind |-> "unknown", of |-> "make", gap |-> "no_profile"]
  IN  {{matched("taint", FALSE), floor},
       {matched("taint", FALSE), matched("script", TRUE)},
       {matched("script", FALSE), unknown,
        [kind |-> "gap", of |-> "missing_name"], [kind |-> "payload", of |-> "dynamic"]}}
==============================================================================
