------------------------------- MODULE CallGate -------------------------------
(***************************************************************************)
(* What a plugin between a harness and its tool calls promises, without    *)
(* processes, request ids or events: a call runs only once it has been     *)
(* decided, a decision is never taken back, and a call that nobody has     *)
(* looked at is let through only if that is what failures are to come to.  *)
(***************************************************************************)
CONSTANT Call

VARIABLES
  gate,     \* of each call: new, held, its verdict, or how it ended
  failure   \* the verdict of calls that cannot be checked

gateVars == <<gate, failure>>

Verdict == {"allow", "ask", "deny"}
Undecided == {"new", "held"}

Init ==
  /\ gate = [c \in Call |-> "new"]
  /\ failure \in Verdict

Decide(S, verdict) == gate' = [c \in Call |-> IF c \in S THEN verdict ELSE gate[c]]

Hold(c) ==
  /\ gate[c] = "new"
  /\ gate' = [gate EXCEPT ![c] = "held"]

(* Only a call that was held is judged; any may be refused at once.        *)
Judge(c) ==
  /\ gate[c] = "held"
  /\ \E verdict \in Verdict : Decide({c}, verdict)

Refuse(c) ==
  /\ gate[c] \in Undecided
  /\ Decide({c}, "deny")

(* Any number of calls fail together, all with the same verdict.           *)
Fail ==
  \E S \in SUBSET {c \in Call : gate[c] \in Undecided} : Decide(S, failure)

(* A call that is not denied may run, or run with the user's approval.     *)
Leave(c) ==
  /\ gate[c] \in Verdict
  /\ \E end \in IF gate[c] = "deny" THEN {"stopped"} ELSE {"ran", "approved", "stopped"} :
       gate' = [gate EXCEPT ![c] = end]

(* Every step settles something. *)
Next ==
  /\ gate' # gate
  /\ \/ \E c \in Call : Hold(c) \/ Judge(c) \/ Refuse(c) \/ Leave(c)
     \/ Fail
  /\ UNCHANGED failure

Spec == Init /\ [][Next]_gateVars
===============================================================================
