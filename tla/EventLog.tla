------------------------------ MODULE EventLog ------------------------------
(***************************************************************************)
(* The on-disk representation of one session: its JSONL event log and its  *)
(* snapshot row, with the operations of caushell-store/src/store.rs and    *)
(* the restore procedure of caushell/src/lib.rs.                           *)
(*                                                                         *)
(* An event is reduced to its event_index and the daemon run that observed *)
(* it (the code stamps observed_at_ms, which no two runs share).  Every    *)
(* path that applies events to a session state applies them in increasing  *)
(* event_index, so a session state is represented by the set of the events *)
(* applied to it.                                                          *)
(*                                                                         *)
(* A log file is a record:                                                 *)
(*   lines    the events a reader decodes from it                          *)
(*   tail     "closed" if the file ends with a newline, "bare" if its last *)
(*            event has been written without the newline, "torn" if it     *)
(*            ends with an unterminated line that does not decode          *)
(*   junk     whether a terminated line does not decode                    *)
(*   unsynced the events appended since the last sync_data                 *)
(***************************************************************************)
EXTENDS Naturals, FiniteSets, FiniteSetsExt

CONSTANT MaxIndex     (* bound: no event gets a larger index               *)

ASSUME IndexAssumption == MaxIndex \in Nat

Event == [ix : 1..MaxIndex, run : Nat]

LastLine == {"closed", "bare", "torn"}

LogFile == [lines : SUBSET Event, tail : LastLine, junk : BOOLEAN,
            unsynced : SUBSET Event]

EmptyLog == [lines |-> {}, tail |-> "closed", junk |-> FALSE, unsynced |-> {}]

Snapshot == [last : Nat, state : SUBSET Event]

NoSnapshot == [last |-> 0, state |-> {}]

Indices(events) == {e.ix : e \in events}

LastIndex(events) == Max(Indices(events))

(* Deliberately wrong: a subtraction that does not saturate. *)
PlainSub(m, n) == m - n

SaturatingSub(m, n) == IF m >= n THEN m - n ELSE 0

(***************************************************************************)
(* Appending: the JSON text and the newline are two writes.  out is how    *)
(* far the writer got: "torn" part of the text, "bare" all of it but no    *)
(* newline, "done" both.  Whatever is written continues the last line of   *)
(* the file when that one is not terminated.                               *)
(***************************************************************************)
Unmerged(file) ==
  IF file.tail = "bare"
    THEN {e \in file.lines : e.ix # LastIndex(file.lines)}
    ELSE file.lines

(* Deliberately wrong: the file is opened for truncation, not for append.  *)
WriteRecord_Truncating(file, e, out) ==
  [file EXCEPT !.lines = {e}, !.tail = "closed", !.unsynced = {e}]

WriteRecord(file, e, out) ==
  IF file.tail = "closed"
    THEN IF out = "torn"
           THEN [file EXCEPT !.tail = "torn"]
           ELSE [file EXCEPT !.lines = @ \union {e},
                             !.tail = IF out = "bare" THEN "bare" ELSE "closed",
                             !.unsynced = @ \union {e}]
    ELSE [file EXCEPT !.lines = Unmerged(file),
                      !.tail = IF out = "done" THEN "closed" ELSE "torn",
                      !.junk = @ \/ out = "done",
                      !.unsynced = @ \intersect Unmerged(file)]

Synced(file) == [file EXCEPT !.unsynced = {}]

(* A power loss takes away the appended events from some index on of those *)
(* that are not synced.                                                    *)
Surviving(file, from) ==
  LET lost == {e \in file.unsynced : e.ix >= from}
  IN  [file EXCEPT !.lines = @ \ lost,
                   !.tail = IF lost = {} THEN @ ELSE "closed",
                   !.unsynced = {}]

(***************************************************************************)
(* Reading and compacting.  A terminated line that does not decode fails   *)
(* every read of the file; an unterminated one is passed over, and is gone *)
(* once the file has been rewritten.                                       *)
(***************************************************************************)
Readable(file) == ~file.junk

EventsAfter(file, index) == {e \in file.lines : e.ix > index}

(* Deliberately wrong: one event too many is dropped. *)
CompactUpTo_OffByOne(file, through) ==
  [lines |-> EventsAfter(file, through + 1), tail |-> "closed",
   junk |-> FALSE, unsynced |-> {}]

CompactUpTo(file, through) ==
  IF through = 0
    THEN file
    ELSE [lines |-> EventsAfter(file, through), tail |-> "closed",
          junk |-> FALSE, unsynced |-> {}]

(***************************************************************************)
(* Restoring: the snapshot, then the events after it in the log.  Two      *)
(* different events with one event_index make the log corrupt; a gap       *)
(* between event indices is not looked for.                                *)
(***************************************************************************)
Conflicting(events) == \E e, f \in events : e # f /\ e.ix = f.ix

(* Deliberately wrong: lines that do not decode are skipped over. *)
Restorable_SkippingJunk(file, snap) ==
  ~Conflicting(EventsAfter(file, snap.last))

Restorable(file, snap) ==
  /\ Readable(file)
  /\ ~Conflicting(EventsAfter(file, snap.last))

RestoredState(file, snap) == snap.state \union EventsAfter(file, snap.last)

(* Deliberately wrong: the events replayed after the snapshot not counted. *)
AppliedIndex_SnapshotOnly(file, snap) == snap.last

AppliedIndex(file, snap) ==
  IF EventsAfter(file, snap.last) = {}
    THEN snap.last
    ELSE LastIndex(EventsAfter(file, snap.last))

-----------------------------------------------------------------------------
(* A state is whole when it holds exactly one event for every index from 1 *)
(* to its length: no event is missing and none is counted twice.           *)
WholeUpTo(events, n) ==
  /\ Indices(events) = 1..n
  /\ ~Conflicting(events)

(* The snapshot holds every event up to its last index, and with the log   *)
(* after it every event up to some index, of which the file holds a part;  *)
(* the events that are not synced are the newest of the file, and one      *)
(* written without its newline is the newest of all.                       *)
Recoverable(file, snap) ==
  /\ WholeUpTo(snap.state, snap.last)
  /\ Readable(file) =>
       /\ \E n \in 0..MaxIndex : WholeUpTo(RestoredState(file, snap), n)
       /\ file.lines \subseteq RestoredState(file, snap)
       /\ \E m \in 0..MaxIndex : file.unsynced = EventsAfter(file, m)
       /\ file.tail = "bare" =>
            \E e \in file.lines : WholeUpTo(RestoredState(file, snap), e.ix)
=============================================================================
