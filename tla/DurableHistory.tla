--------------------------- MODULE DurableHistory ---------------------------
(***************************************************************************)
(* What the persistence of a session promises, without queues, snapshots,  *)
(* compaction or workers: a session has a history of events, of which an   *)
(* initial segment is durable.  Events are accepted at its end, become     *)
(* durable one by one in order, and a restart loses those that are not yet *)
(* durable and only those.                                                 *)
(***************************************************************************)
EXTENDS EventLog

CONSTANT Session      (* the sessions                                      *)

VARIABLES
  durable,            (* the events of each session a restart would find   *)
  pending             (* those accepted and not durable                    *)

historyVars == <<durable, pending>>

History(s) == durable[s] \union pending[s]

Whole(events) == \E n \in 0..MaxIndex : WholeUpTo(events, n)

Init ==
  /\ durable = [s \in Session |-> {}]
  /\ pending = [s \in Session |-> {}]

(* The request of session s adds new events after all the others.          *)
Accept(s) ==
  /\ pending[s] \subseteq pending'[s]
  /\ pending' = [pending EXCEPT ![s] = pending'[s]]
  /\ \A e \in pending'[s] \ pending[s], f \in History(s) : f.ix < e.ix
  /\ Whole(durable[s] \union pending'[s])
  /\ UNCHANGED durable

(* The oldest pending event of session s becomes durable.                  *)
Persist(s) ==
  \E e \in pending[s] :
    /\ \A f \in pending[s] : e.ix <= f.ix
    /\ durable' = [durable EXCEPT ![s] = @ \union {e}]
    /\ pending' = [pending EXCEPT ![s] = @ \ {e}]

(* The daemon ends, and with it every pending event.                       *)
Lose ==
  /\ pending' = [s \in Session |-> {}]
  /\ UNCHANGED durable

Next ==
  \/ \E s \in Session : Accept(s) \/ Persist(s)
  \/ Lose

Spec == Init /\ [][Next]_historyVars
=============================================================================
