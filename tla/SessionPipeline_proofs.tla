----------------------- MODULE SessionPipeline_proofs -----------------------
(***************************************************************************)
(* Proofs about the persistence pipeline, for any number of sessions, any  *)
(* intervals and any number of events and restarts.                        *)
(***************************************************************************)
EXTENDS SessionPipelineInvariant, WellFoundedInduction, TLAPS

-----------------------------------------------------------------------------
(***************************************************************************)
(* The operations on one session's log and snapshot, for every file and    *)
(* every snapshot.                                                         *)
(***************************************************************************)

(* Max returns the greatest element of a set that has one. *)
LEMMA MaxIsGreatest ==
  ASSUME NEW S \in SUBSET Nat, NEW m \in S, \A x \in S : x <= m
  PROVE  Max(S) = m
<1>1. \A x \in S : m >= x
  OBVIOUS
<1>2. \A x \in S : (\A y \in S : x >= y) => x = m
  OBVIOUS
<1> QED
  BY <1>1, <1>2, Zenon DEF Max

(* A set of natural numbers that is not empty has a least element.         *)
LEMMA LeastExists ==
  ASSUME NEW S \in SUBSET Nat, S # {}
  PROVE  \E m \in S : \A x \in S : m <= x
<1> DEFINE R == OpToRel(<, Nat)
<1>1. IsWellFoundedOn(R, Nat)
  BY NatLessThanWellFounded
<1>2. \A x, y \in Nat : x < y => <<x, y>> \in R
  BY DEF OpToRel
<1> HIDE DEF R
<1>3. PICK m \in S : \A x \in S : ~(<<x, m>> \in R)
  BY <1>1, WFMin, S \subseteq Nat, Zenon
<1>4. \A x \in S : ~(x < m)
  BY <1>2, <1>3
<1> QED
  BY <1>4

(* A bounded one has a greatest element.                                   *)
LEMMA GreatestExists ==
  ASSUME NEW max \in Nat, NEW S \in SUBSET (0..max), S # {}
  PROVE  \E m \in S : \A x \in S : x <= m
<1> DEFINE T == {n \in Nat : max - n \in S}
<1>1. T \in SUBSET Nat /\ T # {}
  <2>1. PICK x \in S : TRUE
    OBVIOUS
  <2>2. max - x \in T
    BY <2>1
  <2> QED
    BY <2>2
<1>2. PICK k \in T : \A x \in T : k <= x
  BY <1>1, LeastExists
<1>3. \A x \in S : max - x \in T
  OBVIOUS
<1> QED
  BY <1>2, <1>3

(* A set of events that is whole up to n has an event for each index from  *)
(* 1 to n, and no other.                                                   *)
LEMMA WholeHas ==
  ASSUME NEW E \in SUBSET Event, NEW n \in Nat, WholeUpTo(E, n)
  PROVE  /\ \A i \in 1..n : \E e \in E : e.ix = i
         /\ \A e \in E : e.ix \in 1..n
         /\ \A e, f \in E : e.ix = f.ix => e = f
BY DEF WholeUpTo, Indices, Conflicting

(* The converse of WholeHas. *)
LEMMA WholeIf ==
  ASSUME NEW E \in SUBSET Event, NEW n \in Nat,
         \A i \in 1..n : \E e \in E : e.ix = i,
         \A e \in E : e.ix \in 1..n,
         \A e, f \in E : e.ix = f.ix => e = f
  PROVE  WholeUpTo(E, n)
BY DEF WholeUpTo, Indices, Conflicting

(* The length of a whole state is unique. *)
LEMMA WholeLength ==
  ASSUME NEW E \in SUBSET Event, NEW m \in Nat, NEW n \in Nat,
         WholeUpTo(E, m), WholeUpTo(E, n)
  PROVE  m = n
<1>1. 1..m = 1..n
  BY DEF WholeUpTo
<1>2. m <= n
  <2>1. CASE m = 0
    BY <2>1
  <2>2. CASE m > 0
    BY <2>2, <1>1, m \in 1..m
  <2> QED
    BY <2>1, <2>2
<1>3. n <= m
  <2>1. CASE n = 0
    BY <2>1
  <2>2. CASE n > 0
    BY <2>2, <1>1, n \in 1..n
  <2> QED
    BY <2>1, <2>2
<1> QED
  BY <1>2, <1>3

(* The next event makes a whole state whole again. *)
LEMMA WholeExtend ==
  ASSUME NEW E \in SUBSET Event, NEW n \in Nat, WholeUpTo(E, n),
         NEW e \in Event, e.ix = n + 1
  PROVE  WholeUpTo(E \union {e}, n + 1)
<1> DEFINE F == E \union {e}
<1>1. \A i \in 1..(n + 1) : \E f \in F : f.ix = i
  <2> SUFFICES ASSUME NEW i \in 1..(n + 1)
               PROVE  \E f \in F : f.ix = i
    OBVIOUS
  <2>1. CASE i = n + 1
    BY <2>1
  <2>2. CASE i \in 1..n
    BY <2>2, WholeHas
  <2> QED
    BY <2>1, <2>2
<1>2. \A f \in F : f.ix \in 1..(n + 1)
  BY WholeHas DEF Event
<1>3. \A f, g \in F : f.ix = g.ix => f = g
  BY WholeHas
<1> QED
  BY <1>1, <1>2, <1>3, WholeIf

-----------------------------------------------------------------------------
(* What restoring finds when the log with the snapshot is whole up to n:   *)
(* n is the index it counts as applied, whatever part of the events before *)
(* the snapshot is still in the file.                                      *)
LEMMA RestoredLength ==
  ASSUME NEW file \in LogFile, NEW snap \in Snapshot, NEW n \in Nat,
         WholeUpTo(snap.state, snap.last),
         WholeUpTo(RestoredState(file, snap), n)
  PROVE  /\ snap.last <= n
         /\ AppliedIndex(file, snap) = n
         /\ \A e \in RestoredState(file, snap) : e.ix <= snap.last => e \in snap.state
<1> DEFINE R == RestoredState(file, snap)
           A == EventsAfter(file, snap.last)
<1>1. /\ snap.state \in SUBSET Event
      /\ snap.last \in Nat
      /\ A \in SUBSET Event
      /\ R = snap.state \union A
      /\ \A e \in A : e.ix > snap.last
  BY DEF Snapshot, LogFile, EventsAfter, RestoredState
<1> HIDE DEF A, R
<1>2. \A e \in R : e.ix \in 1..n
  BY <1>1, WholeHas DEF R
<1>3. snap.last <= n
  <2>1. CASE snap.last = 0
    BY <2>1
  <2>2. CASE snap.last > 0
    <3>1. PICK e \in snap.state : e.ix = snap.last
      BY <1>1, <2>2, WholeHas
    <3> QED
      BY <3>1, <1>1, <1>2
  <2> QED
    BY <1>1, <2>1, <2>2
<1>4. AppliedIndex(file, snap) = n
  <2>1. CASE A = {}
    <3>1. WholeUpTo(snap.state, n)
      BY <1>1, <2>1 DEF R
    <3>2. snap.last = n
      BY <1>1, <3>1, WholeLength
    <3> QED
      BY <2>1, <3>2 DEF AppliedIndex, A
  <2>2. CASE A # {}
    <3>1. PICK a \in A : TRUE
      BY <2>2
    <3>2. a.ix \in 1..n /\ a.ix > snap.last
      BY <1>1, <1>2
    <3>3. PICK e \in R : e.ix = n
      BY <1>1, <3>2, WholeHas DEF R
    <3>4. e \in A
      <4>1. \A f \in snap.state : f.ix \in 1..snap.last
        BY <1>1, WholeHas
      <4> QED
        BY <1>1, <3>2, <3>3, <4>1
    <3>5. Indices(A) \subseteq Nat /\ n \in Indices(A) /\ \A x \in Indices(A) : x <= n
      BY <1>1, <1>2, <3>3, <3>4 DEF Indices
    <3>6. LastIndex(A) = n
      BY <3>5, MaxIsGreatest DEF LastIndex
    <3> QED
      BY <2>2, <3>6 DEF AppliedIndex, A
  <2> QED
    BY <2>1, <2>2
<1>5. ASSUME NEW e \in R, e.ix <= snap.last
      PROVE  e \in snap.state
  BY <1>1, <1>5 DEF Event
<1> QED
  BY <1>3, <1>4, <1>5 DEF R

(* Compacting no further than the snapshot restores the same state.        *)
LEMMA CompactionKeeps ==
  ASSUME NEW file \in LogFile, NEW snap \in Snapshot,
         NEW through \in Nat, through <= snap.last,
         Recoverable(file, snap), Readable(file)
  PROVE  LET compacted == CompactUpTo(file, through)
         IN  /\ RestoredState(compacted, snap) = RestoredState(file, snap)
             /\ Recoverable(compacted, snap)
             /\ Readable(compacted)
             /\ file.tail = "closed" => compacted.tail = "closed"
<1> DEFINE compacted == CompactUpTo(file, through)
<1>1. CASE through = 0
  BY <1>1 DEF CompactUpTo
<1>2. CASE through > 0
  <2>1. /\ compacted.lines = EventsAfter(file, through)
        /\ compacted.tail = "closed"
        /\ compacted.unsynced = {}
        /\ Readable(compacted)
    BY <1>2 DEF CompactUpTo, Readable
  <2>2. EventsAfter(compacted, snap.last) = EventsAfter(file, snap.last)
    BY <2>1 DEF EventsAfter, LogFile, Snapshot, Event
  <2>3. RestoredState(compacted, snap) = RestoredState(file, snap)
    BY <2>2 DEF RestoredState
  <2>4. PICK n \in 0..MaxIndex : WholeUpTo(RestoredState(file, snap), n)
    BY DEF Recoverable
  <2>5. compacted.lines \subseteq file.lines
    BY <2>1 DEF EventsAfter
  <2>6. \A e \in file.lines : e.ix <= n
    <3>1. file.lines \subseteq RestoredState(file, snap)
      BY DEF Recoverable
    <3>2. RestoredState(file, snap) \in SUBSET Event
      BY DEF RestoredState, EventsAfter, LogFile, Snapshot
    <3> QED
      BY <2>4, <3>1, <3>2, WholeHas
  <2>7. compacted.unsynced = EventsAfter(compacted, n)
    BY <2>1, <2>5, <2>6 DEF EventsAfter, LogFile, Event
  <2> HIDE DEF compacted
  <2>8. Recoverable(compacted, snap)
    BY <2>1, <2>3, <2>4, <2>5, <2>7 DEF Recoverable
  <2> QED
    BY <2>1, <2>3, <2>8 DEF compacted
<1> QED
  BY <1>1, <1>2

(* Appending the next event to a file whose last line is terminated adds   *)
(* it to what restoring finds; a file with an unterminated last line is    *)
(* not readable any more.                                                  *)
LEMMA AppendAdds ==
  ASSUME NEW file \in LogFile, NEW snap \in Snapshot,
         NEW e \in Event, NEW n \in 0..MaxIndex, e.ix = n + 1,
         Recoverable(file, snap), Readable(file),
         WholeUpTo(RestoredState(file, snap), n), file.tail = "closed",
         NEW out \in {"bare", "done"}
  PROVE  LET written == WriteRecord(file, e, out)
         IN  /\ RestoredState(written, snap) = RestoredState(file, snap) \union {e}
             /\ Recoverable(written, snap)
             /\ Readable(written)
<1> DEFINE written == WriteRecord(file, e, out)
           R == RestoredState(file, snap)
<1>1. /\ written.lines = file.lines \union {e}
      /\ written.tail \in {"closed", "bare"}
      /\ written.unsynced = file.unsynced \union {e}
      /\ Readable(written)
  BY DEF WriteRecord, LogFile, Readable
<1>2. /\ file.lines \in SUBSET Event
      /\ file.lines \subseteq R
      /\ R \in SUBSET Event
      /\ WholeUpTo(snap.state, snap.last)
      /\ snap.last \in Nat
  BY DEF LogFile, Snapshot, RestoredState, EventsAfter, Recoverable
<1>3. snap.last <= n
  BY <1>2, n \in Nat, RestoredLength
<1>4. RestoredState(written, snap) = R \union {e}
  BY <1>1, <1>2, <1>3 DEF RestoredState, EventsAfter, Event
<1>5. WholeUpTo(R \union {e}, n + 1)
  BY <1>2, WholeExtend
<1>6. \A f \in file.lines : f.ix \in 1..n
  BY <1>2, WholeHas
<1>7. PICK m \in 0..MaxIndex : file.unsynced = EventsAfter(file, m)
  BY DEF Recoverable
<1>8. \E k \in 0..MaxIndex : written.unsynced = EventsAfter(written, k)
  <2>1. CASE m <= n
    BY <1>1, <1>7, <2>1 DEF EventsAfter
  <2>2. CASE m > n
    <3>1. file.unsynced = {}
      BY <1>6, <1>7, <2>2 DEF EventsAfter
    <3>2. written.unsynced = EventsAfter(written, n)
      BY <1>1, <1>6, <3>1 DEF EventsAfter
    <3> QED
      BY <3>2
  <2> QED
    BY <2>1, <2>2
<1> HIDE DEF written, R
<1>9. Recoverable(written, snap)
  <2>1. WholeUpTo(RestoredState(written, snap), e.ix) /\ e \in written.lines
    BY <1>1, <1>4, <1>5
  <2>2. e.ix \in 0..MaxIndex
    BY DEF Event
  <2>3. written.lines \subseteq RestoredState(written, snap)
    BY <1>1, <1>2, <1>4
  <2> QED
    BY <1>1, <1>2, <1>8, <2>1, <2>2, <2>3 DEF Recoverable
<1> QED
  BY <1>1, <1>4, <1>9 DEF written, R

(* Syncing a file changes nothing a reader sees.                           *)
LEMMA SyncKeeps ==
  ASSUME NEW file \in LogFile, NEW snap \in Snapshot,
         Recoverable(file, snap)
  PROVE  /\ RestoredState(Synced(file), snap) = RestoredState(file, snap)
         /\ Recoverable(Synced(file), snap)
         /\ Readable(Synced(file)) <=> Readable(file)
         /\ Synced(file).tail = file.tail
         /\ Synced(file) \in LogFile
<1> DEFINE synced == Synced(file)
<1>1. /\ synced.lines = file.lines
      /\ synced.tail = file.tail
      /\ synced.unsynced = {}
      /\ Readable(synced) <=> Readable(file)
      /\ synced \in LogFile
  BY DEF Synced, LogFile, Readable
<1>2. RestoredState(synced, snap) = RestoredState(file, snap)
  BY <1>1 DEF RestoredState, EventsAfter
<1>3. ASSUME Readable(file)
      PROVE  \E m \in 0..MaxIndex : synced.unsynced = EventsAfter(synced, m)
  <2>1. PICK n \in 0..MaxIndex : WholeUpTo(RestoredState(file, snap), n)
    BY <1>3 DEF Recoverable
  <2>2. file.lines \subseteq RestoredState(file, snap)
    BY <1>3 DEF Recoverable
  <2>3. RestoredState(file, snap) \in SUBSET Event
    BY DEF RestoredState, EventsAfter, LogFile, Snapshot
  <2>4. \A f \in file.lines : f.ix \in 1..n
    BY <2>1, <2>2, <2>3, WholeHas
  <2>5. synced.unsynced = EventsAfter(synced, n)
    BY <1>1, <2>4 DEF EventsAfter
  <2> QED
    BY <2>5
<1> HIDE DEF synced
<1>4. Recoverable(synced, snap)
  BY <1>1, <1>2, <1>3 DEF Recoverable
<1> QED
  BY <1>1, <1>2, <1>4 DEF synced

(* An append cut short leaves what restoring finds as it was, adds the     *)
(* event whose newline is missing, or, behind an event without a newline,  *)
(* takes that event away.                                                  *)
LEMMA CutShortKeeps ==
  ASSUME NEW file \in LogFile, NEW snap \in Snapshot,
         NEW e \in Event, NEW n \in 0..MaxIndex, e.ix = n + 1,
         Recoverable(file, snap), Readable(file),
         WholeUpTo(RestoredState(file, snap), n),
         NEW out \in {"torn", "bare", "done"}, out = "done" => file.tail = "closed"
  PROVE  LET written == WriteRecord(file, e, out)
         IN  /\ RestoredState(written, snap) \subseteq RestoredState(file, snap) \union {e}
             /\ file.tail = "closed" =>
                  RestoredState(file, snap) \subseteq RestoredState(written, snap)
             /\ Recoverable(written, snap)
             /\ Readable(written)
<1> DEFINE written == WriteRecord(file, e, out)
           R == RestoredState(file, snap)
           W == RestoredState(written, snap)
<1>0. /\ file.lines \in SUBSET Event
      /\ file.lines \subseteq R
      /\ R \in SUBSET Event
      /\ WholeUpTo(snap.state, snap.last)
      /\ snap.last \in Nat
      /\ snap.state \in SUBSET Event
      /\ snap.state \subseteq R
      /\ file.unsynced \in SUBSET Event
  BY DEF LogFile, Snapshot, RestoredState, EventsAfter, Recoverable
<1>1. CASE file.tail = "closed" /\ out # "torn"
  <2>1. out \in {"bare", "done"}
    BY <1>1
  <2> QED
    BY <1>1, <2>1, AppendAdds
<1>2. CASE file.tail = "closed" /\ out = "torn"
  <2>1. /\ written.lines = file.lines
        /\ written.tail = "torn"
        /\ written.unsynced = file.unsynced
        /\ Readable(written)
    BY <1>2 DEF WriteRecord, LogFile, Readable
  <2>2. W = R
    BY <2>1 DEF RestoredState, EventsAfter
  <2>3. \A m \in 0..MaxIndex : EventsAfter(written, m) = EventsAfter(file, m)
    BY <2>1 DEF EventsAfter
  <2> HIDE DEF written
  <2>4. Recoverable(written, snap)
    BY <2>1, <2>2, <2>3 DEF Recoverable
  <2> QED
    BY <2>1, <2>2, <2>4 DEF written
<1>3. CASE file.tail # "closed"
  <2> DEFINE U == Unmerged(file)
  <2>1. /\ written.lines = U
        /\ written.tail = "torn"
        /\ written.unsynced = file.unsynced \intersect U
        /\ Readable(written)
    BY <1>3 DEF WriteRecord, LogFile, Readable
  <2>2. U \subseteq file.lines
    BY DEF Unmerged
  <2>3. W \subseteq R
    BY <2>1, <2>2 DEF RestoredState, EventsAfter
  <2>4. \A f \in R : f.ix <= snap.last => f \in snap.state
    BY <1>0, n \in Nat, RestoredLength
  <2>5. U \subseteq W
    <3> SUFFICES ASSUME NEW f \in U
                 PROVE  f \in W
      OBVIOUS
    <3>1. CASE f.ix <= snap.last
      BY <1>0, <2>2, <2>4, <3>1 DEF RestoredState
    <3>2. CASE f.ix > snap.last
      BY <2>1, <3>2 DEF RestoredState, EventsAfter
    <3> QED
      BY <1>0, <2>2, <3>1, <3>2 DEF Event
  <2>6. \E m \in 0..MaxIndex : written.unsynced = EventsAfter(written, m)
    <3>1. PICK m \in 0..MaxIndex : file.unsynced = EventsAfter(file, m)
      BY DEF Recoverable
    <3>2. written.unsynced = EventsAfter(written, m)
      BY <2>1, <2>2, <3>1 DEF EventsAfter
    <3> QED
      BY <3>2
  <2>7. \E k \in 0..MaxIndex : WholeUpTo(W, k)
    <3>1. CASE file.tail # "bare"
      <4>1. W = R
        BY <2>1, <3>1 DEF Unmerged, RestoredState, EventsAfter
      <4> QED
        BY <4>1
    <3>2. CASE file.tail = "bare"
      <4>1. PICK g \in file.lines : WholeUpTo(R, g.ix)
        BY <3>2 DEF Recoverable
      <4>2. g.ix = n
        BY <1>0, <4>1, WholeLength, n \in Nat DEF Event
      <4>3. n \in Indices(file.lines) /\ \A x \in Indices(file.lines) : x <= n
        BY <1>0, <4>1, <4>2, WholeHas DEF Indices
      <4>4. LastIndex(file.lines) = n
        <5>1. Indices(file.lines) \in SUBSET Nat
          BY <1>0 DEF Indices, Event
        <5> QED
          BY <4>3, <5>1, MaxIsGreatest DEF LastIndex
      <4>5. U = {f \in file.lines : f.ix # n}
        BY <3>2, <4>4 DEF Unmerged
      <4>6. CASE n <= snap.last
        <5>1. W = R
          BY <1>0, <2>1, <4>3, <4>5, <4>6 DEF RestoredState, EventsAfter, Indices, Event
        <5> QED
          BY <5>1
      <4>7. CASE n > snap.last
        <5>1. \A f \in R : f \in W <=> f.ix # n
          <6>1. \A f \in snap.state : f.ix \in 1..snap.last
            BY <1>0, WholeHas
          <6> QED
            BY <1>0, <2>1, <4>5, <4>7, <6>1 DEF RestoredState, EventsAfter
        <5>2. n - 1 \in 0..MaxIndex
          BY <1>0, <4>7, IndexAssumption
        <5>3. \A f \in W : f.ix \in 1..(n - 1)
          BY <1>0, <2>3, <5>1, n \in Nat, WholeHas
        <5>4. \A i \in 1..(n - 1) : \E f \in W : f.ix = i
          BY <1>0, <5>1, n \in Nat, WholeHas
        <5>5. \A f, h \in W : f.ix = h.ix => f = h
          BY <1>0, <2>3, n \in Nat, WholeHas
        <5>6. W \in SUBSET Event
          BY <1>0, <2>3
        <5> HIDE DEF W
        <5>7. WholeUpTo(W, n - 1)
          BY <5>2, <5>3, <5>4, <5>5, <5>6, WholeIf
        <5> QED
          BY <5>2, <5>7
      <4> QED
        BY <1>0, <4>6, <4>7
    <3> QED
      BY <3>1, <3>2
  <2> HIDE DEF written, U, W
  <2>8. Recoverable(written, snap)
    BY <1>0, <2>1, <2>5, <2>6, <2>7 DEF Recoverable, W
  <2> QED
    BY <1>3, <2>1, <2>3, <2>8 DEF written, W, R
<1> QED
  BY <1>1, <1>2, <1>3 DEF LogFile, LastLine

(* A power loss leaves an initial segment of what restoring found.         *)
LEMMA PowerLossKeeps ==
  ASSUME NEW file \in LogFile, NEW snap \in Snapshot,
         NEW from \in Nat \ {0}, Recoverable(file, snap)
  PROVE  LET left == Surviving(file, from)
         IN  /\ RestoredState(left, snap) \subseteq RestoredState(file, snap)
             /\ Recoverable(left, snap)
             /\ Readable(left) <=> Readable(file)
<1> DEFINE left == Surviving(file, from)
           lost == {e \in file.unsynced : e.ix >= from}
           R == RestoredState(file, snap)
           W == RestoredState(left, snap)
<1>1. /\ left.lines = file.lines \ lost
      /\ left.tail = IF lost = {} THEN file.tail ELSE "closed"
      /\ left.unsynced = {}
      /\ Readable(left) <=> Readable(file)
  BY DEF Surviving, LogFile, Readable
<1>2. /\ file.lines \in SUBSET Event
      /\ WholeUpTo(snap.state, snap.last)
      /\ snap.last \in Nat
      /\ snap.state \in SUBSET Event
      /\ R \in SUBSET Event
      /\ R = snap.state \union EventsAfter(file, snap.last)
      /\ \A e \in snap.state : e.ix \in 1..snap.last
  BY WholeHas DEF LogFile, Snapshot, RestoredState, EventsAfter, Recoverable
<1> HIDE DEF left
<1>3. W \subseteq R
  BY <1>1 DEF RestoredState, EventsAfter
<1>4. ASSUME Readable(file)
      PROVE  /\ \E k \in 0..MaxIndex : WholeUpTo(W, k)
             /\ left.lines \subseteq W
             /\ \E m \in 0..MaxIndex : left.unsynced = EventsAfter(left, m)
             /\ left.tail = "bare" => \E e \in left.lines : WholeUpTo(W, e.ix)
  <2>1. PICK n \in 0..MaxIndex : WholeUpTo(R, n)
    BY <1>4 DEF Recoverable
  <2>2. PICK m \in 0..MaxIndex : file.unsynced = EventsAfter(file, m)
    BY <1>4 DEF Recoverable
  <2>3. file.lines \subseteq R
    BY <1>4 DEF Recoverable
  <2>4. \A e \in R : e.ix \in 1..n
    BY <1>2, <2>1, WholeHas
  <2>5. snap.last <= n /\ \A e \in R : e.ix <= snap.last => e \in snap.state
    BY <1>2, <2>1, n \in Nat, RestoredLength
  <2>6. left.unsynced = EventsAfter(left, n)
    BY <1>1, <1>2, <2>3, <2>4 DEF EventsAfter
  <2>7. left.lines \subseteq W
    BY <1>1, <1>2, <2>3, <2>5 DEF RestoredState, EventsAfter, Event
  <2>8. CASE lost = {}
    <3>1. W = R
      BY <1>1, <2>8 DEF RestoredState, EventsAfter
    <3>2. left.tail = "bare" => \E e \in left.lines : WholeUpTo(W, e.ix)
      BY <1>1, <1>4, <2>8, <3>1 DEF Recoverable
    <3> QED
      BY <2>1, <2>6, <2>7, <3>1, <3>2
  <2>9. CASE lost # {}
    <3> DEFINE c == IF m >= from THEN m ELSE from - 1
               k == IF n <= c THEN n ELSE IF c <= snap.last THEN snap.last ELSE c
    <3>1. c \in Nat /\ k \in 0..MaxIndex
      BY <1>2, <2>5, IndexAssumption
    <3>2. \A e \in file.lines : e \in lost <=> e.ix > c
      BY <1>2, <2>2 DEF EventsAfter, Event
    <3>3. \A e \in R : e \in W <=> e.ix <= snap.last \/ e.ix <= c
      BY <1>1, <1>2, <2>3, <2>5, <3>1, <3>2 DEF RestoredState, EventsAfter, Event
    <3> HIDE DEF c
    <3>4. \A e \in R : e \in W <=> e.ix <= k
      BY <1>2, <2>4, <2>5, <3>1, <3>3
    <3> HIDE DEF k, W, R
    <3>5. \A e \in W : e.ix \in 1..k
      BY <1>2, <1>3, <2>4, <3>1, <3>4
    <3>6. k <= n
      BY <2>5, <3>1, <1>2 DEF k
    <3>7. \A i \in 1..k : \E e \in W : e.ix = i
      BY <1>2, <2>1, <3>1, <3>4, <3>6, n \in Nat, WholeHas
    <3>8. \A e, f \in W : e.ix = f.ix => e = f
      BY <1>2, <1>3, <2>1, n \in Nat, WholeHas
    <3>9. WholeUpTo(W, k)
      BY <1>2, <1>3, <3>1, <3>5, <3>7, <3>8, WholeIf
    <3> QED
      BY <1>1, <2>6, <2>7, <2>9, <3>1, <3>9
  <2> QED
    BY <2>8, <2>9
<1>5. Recoverable(left, snap)
  BY <1>1, <1>2, <1>4 DEF Recoverable
<1> QED
  BY <1>1, <1>3, <1>5 DEF left

(* A snapshot of any initial segment that reaches at least as far as the   *)
(* one on disk changes nothing that restoring finds.                       *)
LEMMA SnapshotKeeps ==
  ASSUME NEW file \in LogFile, NEW snap \in Snapshot,
         NEW state \in SUBSET Event, NEW last \in Nat,
         Recoverable(file, snap), Readable(file),
         WholeUpTo(state, last), state \subseteq RestoredState(file, snap),
         snap.last <= last
  PROVE  LET newer == [last |-> last, state |-> state]
         IN  /\ RestoredState(file, newer) = RestoredState(file, snap)
             /\ Recoverable(file, newer)
             /\ newer \in Snapshot
<1> DEFINE newer == [last |-> last, state |-> state]
           R == RestoredState(file, snap)
<1>1. /\ newer.last = last
      /\ newer.state = state
      /\ newer \in Snapshot
      /\ file.lines \in SUBSET Event
      /\ file.lines \subseteq R
      /\ R \in SUBSET Event
      /\ WholeUpTo(snap.state, snap.last)
      /\ snap.last \in Nat
      /\ R = snap.state \union EventsAfter(file, snap.last)
      /\ \A e \in snap.state : e.ix \in 1..snap.last
  BY WholeHas DEF LogFile, Snapshot, RestoredState, EventsAfter, Recoverable
<1>2. PICK n \in 0..MaxIndex : WholeUpTo(R, n)
  BY DEF Recoverable
<1>3. RestoredState(file, newer) \subseteq R
  BY <1>1 DEF RestoredState, EventsAfter
<1>4. \A e \in R : e.ix <= last => e \in state
  <2>1. \A e \in R : e.ix \in 1..n
    BY <1>1, <1>2, n \in Nat, WholeHas
  <2>2. \A e \in R : e.ix <= last => \E f \in state : f.ix = e.ix
    BY <1>1, <2>1, WholeHas
  <2>3. \A e, f \in R : e.ix = f.ix => e = f
    BY <1>1, <1>2, n \in Nat, WholeHas
  <2> QED
    BY <1>1, <2>2, <2>3
<1>5. \A e \in R : e.ix > last => e \in EventsAfter(file, last)
  BY <1>1 DEF EventsAfter, Event
<1>6. R \subseteq RestoredState(file, newer)
  BY <1>1, <1>4, <1>5 DEF RestoredState, Event
<1>7. RestoredState(file, newer) = R
  BY <1>3, <1>6
<1> HIDE DEF newer
<1>8. Recoverable(file, newer)
  BY <1>1, <1>7 DEF Recoverable
<1> QED
  BY <1>1, <1>7, <1>8 DEF newer

-----------------------------------------------------------------------------
(* A set of events that is not empty has a last index, one of them.        *)
LEMMA LastIndexIsOne ==
  ASSUME NEW E \in SUBSET Event, E # {}
  PROVE  LastIndex(E) \in Indices(E) /\ \A e \in E : e.ix <= LastIndex(E)
<1>1. Indices(E) \in SUBSET (0..MaxIndex) /\ Indices(E) # {} /\ Indices(E) \in SUBSET Nat
  BY DEF Indices, Event
<1>2. PICK m \in Indices(E) : \A x \in Indices(E) : x <= m
  BY <1>1, IndexAssumption, GreatestExists
<1>3. LastIndex(E) = m
  BY <1>1, <1>2, MaxIsGreatest DEF LastIndex
<1> QED
  BY <1>2, <1>3 DEF Indices

(* Every operation on a file returns a file, and restoring returns a state *)
(* and an index.                                                           *)
LEMMA FileTypes ==
  ASSUME NEW file \in LogFile, NEW snap \in Snapshot
  PROVE  /\ \A e \in Event, out \in {"torn", "bare", "done"} :
              WriteRecord(file, e, out) \in LogFile
         /\ Synced(file) \in LogFile
         /\ \A from \in Nat : Surviving(file, from) \in LogFile
         /\ \A through \in Nat : CompactUpTo(file, through) \in LogFile
         /\ RestoredState(file, snap) \in SUBSET Event
         /\ AppliedIndex(file, snap) \in Nat
         /\ Readable(file) \in BOOLEAN
<1>1. ASSUME NEW e \in Event, NEW out \in {"torn", "bare", "done"}
      PROVE  WriteRecord(file, e, out) \in LogFile
  <2>1. Unmerged(file) \in SUBSET Event
    BY DEF Unmerged, LogFile
  <2>2. CASE file.tail = "closed" /\ out = "torn"
    BY <2>2 DEF WriteRecord, LogFile, LastLine
  <2>3. CASE file.tail = "closed" /\ out # "torn"
    BY <2>3 DEF WriteRecord, LogFile, LastLine
  <2>4. CASE file.tail # "closed"
    BY <2>1, <2>4 DEF WriteRecord, LogFile, LastLine
  <2> QED
    BY <2>2, <2>3, <2>4
<1>2. Synced(file) \in LogFile
  BY DEF Synced, LogFile
<1>3. ASSUME NEW from \in Nat
      PROVE  Surviving(file, from) \in LogFile
  BY DEF Surviving, LogFile, LastLine
<1>4. ASSUME NEW through \in Nat
      PROVE  CompactUpTo(file, through) \in LogFile
  BY DEF CompactUpTo, EventsAfter, LogFile, LastLine
<1>5. RestoredState(file, snap) \in SUBSET Event
  BY DEF RestoredState, EventsAfter, LogFile, Snapshot
<1>6. AppliedIndex(file, snap) \in Nat
  <2>1. EventsAfter(file, snap.last) \in SUBSET Event /\ snap.last \in Nat
    BY DEF EventsAfter, LogFile, Snapshot
  <2>2. CASE EventsAfter(file, snap.last) = {}
    BY <2>1, <2>2 DEF AppliedIndex
  <2>3. CASE EventsAfter(file, snap.last) # {}
    BY <2>1, <2>3, LastIndexIsOne DEF AppliedIndex, Indices, Event
  <2> QED
    BY <2>2, <2>3
<1> QED
  BY <1>1, <1>2, <1>3, <1>4, <1>5, <1>6 DEF Readable, LogFile

-----------------------------------------------------------------------------
(* Type correctness.                                                       *)

(* Every variable has its type initially.                                  *)
LEMMA InitTypeOK == Init => TypeOK
<1> SUFFICES ASSUME Init PROVE TypeOK
  OBVIOUS
<1>1. EmptyLog \in LogFile /\ NoSnapshot \in Snapshot /\ NoCheckpoint \in CheckpointState
  BY DEF EmptyLog, LogFile, LastLine, NoSnapshot, Snapshot, NoCheckpoint, CheckpointState
<1>2. <<>> \in Seq(LogCommands) /\ <<>> \in Seq(WorkerCommands)
  OBVIOUS
<1> QED
  BY <1>1, <1>2 DEF Init, TypeOK, Phase

(* Taking the first command off a queue, and adding one.                   *)
LEMMA QueueTypes ==
  ASSUME NEW C, NEW q \in Seq(C)
  PROVE  /\ \A c \in C : Append(q, c) \in Seq(C)
         /\ q # <<>> => Head(q) \in C /\ Tail(q) \in Seq(C)
OBVIOUS

(* The commands sent to the workers are commands of their channels.        *)
LEMMA CommandTypes ==
  /\ Shutdown \in WorkerCommands /\ Shutdown \in LogCommands
  /\ \A s \in Session, e \in Event :
       EventCommand(s, e) \in WorkerCommands /\ EventCommand(s, e) \in LogCommands
  /\ \A s \in Session, n \in Nat : CompactCommand(s, n) \in LogCommands
  /\ \A c \in LogCommands :
       /\ c.op = "event" => c \in EventCommands /\ c \in WorkerCommands
       /\ c.op = "compact" => c \in CompactCommands
  /\ \A c \in WorkerCommands : c.op = "event" => c \in EventCommands
BY DEF Shutdown, WorkerCommands, LogCommands, EventCommand, CompactCommand,
       EventCommands, CompactCommands

(* A request observes events of the type Event.                            *)
LEMMA RequestTypes ==
  ASSUME TypeOK, NEW s \in Session
  PROVE  /\ LiveState(s) \in SUBSET Event
         /\ NextIndex(s) \in Nat \ {0}
         /\ \A i \in Nat :
              NextIndex(s) + i \in 1..MaxIndex => Observed(s, i) \in Event
<1>1. log[s] \in LogFile /\ snapshot[s] \in Snapshot /\ run \in Nat
      /\ next[s] \in Nat /\ (s \in loaded => next[s] # 0)
      /\ live[s] \in SUBSET Event
  BY DEF TypeOK
<1>2. RestoredState(log[s], snapshot[s]) \in SUBSET Event
      /\ AppliedIndex(log[s], snapshot[s]) \in Nat
  BY <1>1, FileTypes
<1> QED
  BY <1>1, <1>2 DEF LiveState, NextIndex, Observed, Event

(* The steps of a daemon's life: start, kill, power loss.                  *)
LEMMA LifeTypeOK ==
  ASSUME TypeOK, Start \/ Kill \/ LosePower
  PROVE  TypeOK'
<1>1. <<>> \in Seq(LogCommands) /\ <<>> \in Seq(WorkerCommands)
      /\ NoCheckpoint \in CheckpointState
  BY DEF NoCheckpoint, CheckpointState
<1>2. CASE Start
  BY <1>1, <1>2 DEF Start, Reset, TypeOK, Phase, diskVars
<1>3. CASE Kill
  <2>1. log' \in [Session -> LogFile]
    <3>1. CASE UNCHANGED log
      BY <3>1 DEF TypeOK
    <3>2. ASSUME NextLogCommand("event"), NEW out \in {"torn", "bare"},
                 log' = [log EXCEPT ![Head(logQueue).session] =
                           WriteRecord(@, Head(logQueue).event, out)]
          PROVE  log' \in [Session -> LogFile]
      <4>1. /\ Head(logQueue).session \in Session
            /\ Head(logQueue).event \in Event
            /\ log \in [Session -> LogFile]
            /\ snapshot \in [Session -> Snapshot]
        BY <3>2, QueueTypes, CommandTypes DEF TypeOK, NextLogCommand, EventCommands
      <4>2. WriteRecord(log[Head(logQueue).session], Head(logQueue).event, out) \in LogFile
        BY <4>1, FileTypes
      <4> QED
        BY <3>2, <4>1, <4>2
    <3> QED
      BY <1>3, <3>1, <3>2 DEF Kill
  <2> QED
    BY <1>1, <1>3, <2>1 DEF Kill, Reset, TypeOK, Phase
<1>4. CASE LosePower
  <2>1. log' \in [Session -> LogFile]
    <3>1. PICK from \in [Session -> 1..MaxIndex] :
                 log' = [s \in Session |-> Surviving(log[s], from[s])]
      BY <1>4 DEF LosePower
    <3>2. \A s \in Session : Surviving(log[s], from[s]) \in LogFile
      <4> SUFFICES ASSUME NEW s \in Session
                   PROVE  Surviving(log[s], from[s]) \in LogFile
        OBVIOUS
      <4>1. log[s] \in LogFile /\ snapshot[s] \in Snapshot /\ from[s] \in Nat
        BY <3>1 DEF TypeOK
      <4> QED
        BY <4>1, FileTypes
    <3> QED
      BY <3>1, <3>2
  <2> QED
    BY <1>1, <1>4, <2>1 DEF LosePower, Reset, TypeOK, Phase
<1> QED
  BY <1>2, <1>3, <1>4

(* Applying events to a live state keeps the types of what it changes.     *)
LEMMA ApplyTypes ==
  ASSUME TypeOK, NEW s \in Session, NEW applied \in 0..2, NEW sent \in 0..applied,
         Apply(s, applied, sent)
  PROVE  /\ loaded' \subseteq Session
         /\ next' \in [Session -> Nat] /\ \A t \in loaded' : next'[t] # 0
         /\ live' \in [Session -> SUBSET Event]
<1>1. NextIndex(s) \in Nat \ {0} /\ LiveState(s) \in SUBSET Event
  BY RequestTypes
<1>2. \A i \in 0..(applied - 1) : Observed(s, i) \in Event
  BY <1>1, RequestTypes, IndexAssumption DEF Apply
<1> QED
  BY <1>1, <1>2 DEF Apply, TypeOK

(* The request thread.                                                     *)
LEMMA RequestTypeOK ==
  ASSUME TypeOK, NEW s \in Session, Request(s)
  PROVE  TypeOK'
<1>1. EndServing => /\ phase' \in Phase
                    /\ logQueue' \in Seq(LogCommands)
  BY CommandTypes, QueueTypes DEF EndServing, TypeOK, Phase
<1>2. CASE HandleRequest(s)
  <2>1. PICK applied \in 1..2 :
          /\ Apply(s, applied, applied)
          /\ logQueue' = IF applied = 1
                           THEN Append(logQueue, EventCommand(s, Observed(s, 0)))
                           ELSE Append(Append(logQueue, EventCommand(s, Observed(s, 0))),
                                       EventCommand(s, Observed(s, 1)))
    <3>1. Apply(s, 1, 1) \/ Apply(s, 2, 2)
      BY <1>2 DEF HandleRequest
    <3> QED
      BY <1>2 DEF HandleRequest
  <2>2. \A i \in 0..(applied - 1) : Observed(s, i) \in Event
    <3>1. NextIndex(s) \in Nat \ {0}
      BY RequestTypes
    <3> QED
      BY <2>1, <3>1, RequestTypes, IndexAssumption DEF Apply
  <2>3. logQueue' \in Seq(LogCommands)
    <3>1. EventCommand(s, Observed(s, 0)) \in LogCommands
      BY <2>2, CommandTypes
    <3>2. applied = 2 => EventCommand(s, Observed(s, 1)) \in LogCommands
      BY <2>2, CommandTypes
    <3> QED
      BY <2>1, <3>1, <3>2, QueueTypes DEF TypeOK
  <2>4. /\ loaded' \subseteq Session
        /\ next' \in [Session -> Nat] /\ \A t \in loaded' : next'[t] # 0
        /\ live' \in [Session -> SUBSET Event]
    BY <2>1, ApplyTypes
  <2> QED
    BY <1>2, <2>3, <2>4
    DEF HandleRequest, TypeOK, materializerVars, checkpointVars, diskVars
<1>3. CASE HandleRequestUnpersisted(s)
  <2>1. PICK applied \in 1..2 : \E sent \in 0..(applied - 1) : Apply(s, applied, sent)
    BY <1>3 DEF HandleRequestUnpersisted
  <2>2. /\ loaded' \subseteq Session
        /\ next' \in [Session -> Nat] /\ \A t \in loaded' : next'[t] # 0
        /\ live' \in [Session -> SUBSET Event]
    BY <2>1, ApplyTypes
  <2> QED
    BY <1>1, <1>3, <2>2
    DEF HandleRequestUnpersisted, TypeOK, materializerVars, checkpointVars, diskVars
<1>4. CASE FailRequest(s)
  <2>1. /\ loaded' \subseteq Session
        /\ next' \in [Session -> Nat] /\ \A t \in loaded' : next'[t] # 0
        /\ live' \in [Session -> SUBSET Event]
    <3>1. CASE UNCHANGED <<loaded, next, live>>
      BY <3>1 DEF TypeOK
    <3>2. CASE \E applied \in 0..1 : Apply(s, applied, 0)
      BY <3>2, ApplyTypes
    <3> QED
      BY <1>4, <3>1, <3>2 DEF FailRequest
  <2> QED
    BY <1>1, <1>4, <2>1
    DEF FailRequest, TypeOK, materializerVars, checkpointVars, diskVars
<1> QED
  BY <1>2, <1>3, <1>4 DEF Request

(* The log worker.                                                         *)
LEMMA LogWorkerTypeOK ==
  ASSUME TypeOK, LogWorker
  PROVE  TypeOK'
<1>1. \A s \in Session : log[s] \in LogFile /\ snapshot[s] \in Snapshot
  BY DEF TypeOK
<1>2. ASSUME NEW f \in [Session -> LogFile], SyncAll(f)
      PROVE  log' \in [Session -> LogFile]
  <2>1. \A s \in Session : f[s] \in LogFile /\ Synced(f[s]) \in LogFile
    BY FileTypes, <1>1
  <2> QED
    BY <1>2, <2>1 DEF SyncAll
<1>3. ASSUME NextLogCommand("event")
      PROVE  /\ Head(logQueue).session \in Session
             /\ Head(logQueue).event \in Event
             /\ Head(logQueue) \in WorkerCommands
  BY <1>3, QueueTypes, CommandTypes DEF TypeOK, NextLogCommand, EventCommands
<1>4. ASSUME NextLogCommand("event"), NEW out \in {"torn", "bare", "done"}
      PROVE  WriteRecord(log[Head(logQueue).session], Head(logQueue).event, out) \in LogFile
  BY <1>1, <1>3, <1>4, FileTypes
<1>5. ASSUME NextLogCommand("compact")
      PROVE  /\ Head(logQueue).session \in Session
             /\ Head(logQueue).through \in Nat
  BY <1>5, QueueTypes, CommandTypes DEF TypeOK, NextLogCommand, CompactCommands
<1>6. LogWorkerExits => logAlive' \in BOOLEAN /\ logQueue' \in Seq(LogCommands)
  <2>1. <<>> \in Seq(LogCommands)
    OBVIOUS
  <2> QED
    BY <2>1 DEF LogWorkerExits
<1>7. CASE LogAppend
  <2> DEFINE s == Head(logQueue).session
             e == Head(logQueue).event
             written == WriteRecord(log[s], e, "done")
  <2>1. NextLogCommand("event")
    BY <1>7 DEF LogAppend
  <2>2. written \in LogFile /\ Synced(written) \in LogFile
    <3>1. written \in LogFile
      BY <1>4, <2>1
    <3> QED
      BY <1>1, <1>3, <2>1, <3>1, FileTypes
  <2>3. log' \in [Session -> LogFile]
    <3> HIDE DEF written
    <3> QED
      BY <1>7, <2>2 DEF LogAppend, TypeOK, written
  <2>4. unsyncedCount' \in [Session -> Nat]
    <3>1. unsyncedCount \in [Session -> Nat] /\ unsyncedCount[s] + 1 \in Nat
      BY <1>3, <2>1 DEF TypeOK
    <3>2. \E k \in Nat : unsyncedCount' = [unsyncedCount EXCEPT ![s] = k]
      BY <1>7, <3>1 DEF LogAppend
    <3> QED
      BY <3>1, <3>2
  <2>5. /\ materializerQueue' \in Seq(WorkerCommands)
        /\ checkpointQueue' \in Seq(WorkerCommands)
        /\ logQueue' \in Seq(LogCommands)
    BY <1>3, <1>7, <2>1, QueueTypes DEF LogAppend, TypeOK, NextLogCommand
  <2> QED
    BY <1>7, <2>3, <2>4, <2>5 DEF LogAppend, TypeOK, daemonVars
<1>8. CASE LogAppendFails
  <2>1. log' \in [Session -> LogFile]
    <3>1. CASE SyncAll(log)
      BY <1>2, <3>1 DEF TypeOK
    <3>2. ASSUME NEW out \in {"torn", "bare", "done"},
                 SyncAll([log EXCEPT ![Head(logQueue).session] =
                            WriteRecord(@, Head(logQueue).event, out)])
          PROVE  log' \in [Session -> LogFile]
      <4>1. NextLogCommand("event")
        BY <1>8 DEF LogAppendFails
      <4>2. [log EXCEPT ![Head(logQueue).session] =
               WriteRecord(@, Head(logQueue).event, out)] \in [Session -> LogFile]
        BY <1>3, <1>4, <4>1 DEF TypeOK
      <4> QED
        BY <1>2, <3>2, <4>2
    <3> QED
      BY <1>8, <3>1, <3>2 DEF LogAppendFails
  <2> QED
    BY <1>6, <1>8, <2>1 DEF LogAppendFails, TypeOK, daemonVars, materializerVars,
                            checkpointVars
<1>9. CASE LogCompact
  <2>1. log' \in [Session -> LogFile] /\ unsyncedCount' \in [Session -> Nat]
    <3>1. CompactUpTo(log[Head(logQueue).session], Head(logQueue).through) \in LogFile
      BY <1>1, <1>5, <1>9, FileTypes DEF LogCompact
    <3>2. /\ log \in [Session -> LogFile] /\ unsyncedCount \in [Session -> Nat]
          /\ Head(logQueue).session \in Session
      BY <1>5, <1>9 DEF LogCompact, TypeOK
    <3>3. CASE UNCHANGED <<log, unsyncedCount>>
      BY <3>2, <3>3
    <3>4. CASE /\ log' = [log EXCEPT ![Head(logQueue).session] =
                            CompactUpTo(@, Head(logQueue).through)]
               /\ unsyncedCount' = [unsyncedCount EXCEPT ![Head(logQueue).session] = 0]
      BY <3>1, <3>2, <3>4
    <3> QED
      BY <1>9, <3>3, <3>4 DEF LogCompact
  <2> QED
    BY <1>9, <2>1, QueueTypes DEF LogCompact, NextLogCommand, TypeOK, daemonVars,
                                  materializerVars, checkpointVars
<1>10. CASE LogCompactFails
  <2> DEFINE s == Head(logQueue).session
             compacted == [log EXCEPT ![s] = CompactUpTo(@, Head(logQueue).through)]
  <2>1. NextLogCommand("compact") /\ (SyncAll(log) \/ SyncAll(compacted))
    BY <1>10 DEF LogCompactFails
  <2>2. log \in [Session -> LogFile] /\ compacted \in [Session -> LogFile]
    <3>1. CompactUpTo(log[s], Head(logQueue).through) \in LogFile
      BY <1>1, <1>5, <2>1, FileTypes
    <3> QED
      BY <3>1 DEF TypeOK
  <2>3. log' \in [Session -> LogFile]
    BY <1>2, <2>1, <2>2
  <2> QED
    BY <1>6, <1>10, <2>3 DEF LogCompactFails, TypeOK, daemonVars, materializerVars,
                             checkpointVars
<1>11. CASE LogShutdown
  BY <1>2, <1>6, <1>11 DEF LogShutdown, TypeOK, daemonVars, materializerVars,
                           checkpointVars
<1> QED
  BY <1>7, <1>8, <1>9, <1>10, <1>11 DEF LogWorker

(* The materializer and the checkpoint worker.                             *)
LEMMA MaterializerTypeOK ==
  ASSUME TypeOK, Materializer
  PROVE  TypeOK'
<1>1. CASE Materialize
  <2>1. Head(materializerQueue) \in EventCommands
    BY <1>1, QueueTypes, CommandTypes DEF Materialize, TypeOK
  <2>2. Tail(materializerQueue) \in Seq(WorkerCommands)
    BY <1>1, QueueTypes DEF Materialize, TypeOK
  <2>3. rows' \in [Session -> SUBSET Event]
    <3>1. rows \in [Session -> SUBSET Event]
      BY DEF TypeOK
    <3>2. CASE UNCHANGED rows
      BY <3>1, <3>2
    <3>3. CASE rows' = [rows EXCEPT ![Head(materializerQueue).session] =
                          @ \union {Head(materializerQueue).event}]
      BY <2>1, <3>1, <3>3 DEF EventCommands
    <3> QED
      BY <1>1, <3>2, <3>3 DEF Materialize
  <2> QED
    BY <1>1, <2>2, <2>3 DEF Materialize, TypeOK, daemonVars, logVars, checkpointVars
<1>2. CASE MaterializerShutdown
  <2>1. <<>> \in Seq(WorkerCommands)
    OBVIOUS
  <2> QED
    BY <1>2, <2>1
    DEF MaterializerShutdown, TypeOK, daemonVars, logVars, checkpointVars, diskVars
<1> QED
  BY <1>1, <1>2 DEF Materializer

(* A checkpoint state, restored, updated or written, has its type.         *)
LEMMA CheckpointTypes ==
  ASSUME TypeOK, NEW s \in Session
  PROVE  /\ KnownCheckpoint(s) \in CheckpointState
         /\ \A e \in Event, state \in CheckpointState : Updated(state, e) \in CheckpointState
         /\ \A state \in CheckpointState :
              /\ SnapshotOf(state) \in Snapshot
              /\ Checkpointed(state) \in CheckpointState
              /\ SaturatingSub(state.applied, RetentionTail) \in Nat
<1>1. log[s] \in LogFile /\ snapshot[s] \in Snapshot /\ checkpoint[s] \in CheckpointState
  BY DEF TypeOK
<1>2. RestoredState(log[s], snapshot[s]) \in SUBSET Event
      /\ AppliedIndex(log[s], snapshot[s]) \in Nat
  BY <1>1, FileTypes
<1>3. KnownCheckpoint(s) \in CheckpointState
  BY <1>1, <1>2 DEF KnownCheckpoint, RestoredCheckpoint, CheckpointState, Snapshot
<1>4. ASSUME NEW e \in Event, NEW state \in CheckpointState
      PROVE  Updated(state, e) \in CheckpointState
  <2>1. e.ix \in Nat /\ state.state \union {e} \in SUBSET Event
    BY DEF CheckpointState, Event
  <2>2. [state EXCEPT !.applied = e.ix, !.state = @ \union {e}] \in CheckpointState
    BY <2>1 DEF CheckpointState
  <2> QED
    BY <2>2 DEF Updated
<1>5. ASSUME NEW state \in CheckpointState
      PROVE  /\ SnapshotOf(state) \in Snapshot
             /\ Checkpointed(state) \in CheckpointState
             /\ SaturatingSub(state.applied, RetentionTail) \in Nat
  BY IntervalAssumption DEF SnapshotOf, Checkpointed, SaturatingSub, CheckpointState, Snapshot
<1> QED
  BY <1>3, <1>4, <1>5

(* Every step of the checkpoint worker keeps the types.                    *)
LEMMA CheckpointWorkerTypeOK ==
  ASSUME TypeOK, CheckpointWorker
  PROVE  TypeOK'
<1>1. NextUpdate => /\ Head(checkpointQueue) \in EventCommands
                    /\ Tail(checkpointQueue) \in Seq(WorkerCommands)
  BY QueueTypes, CommandTypes DEF NextUpdate, TypeOK
<1>2. CASE CheckpointUpdate
  <2> DEFINE s == Head(checkpointQueue).session
             e == Head(checkpointQueue).event
             state == Updated(KnownCheckpoint(s), e)
             compact == CompactCommand(s, SaturatingSub(state.applied, RetentionTail))
  <2>1. s \in Session /\ e \in Event /\ checkpointQueue' \in Seq(WorkerCommands)
    BY <1>1, <1>2 DEF CheckpointUpdate, EventCommands
  <2>2. state \in CheckpointState
    BY <2>1, CheckpointTypes
  <2>3. compact \in LogCommands /\ SnapshotOf(state) \in Snapshot
        /\ Checkpointed(state) \in CheckpointState
    BY <2>1, <2>2, CheckpointTypes, CommandTypes
  <2>4. /\ known' = known \union {s}
        /\ \/ checkpoint' = [checkpoint EXCEPT ![s] = state]
           \/ checkpoint' = [checkpoint EXCEPT ![s] = Checkpointed(state)]
        /\ \/ UNCHANGED snapshot
           \/ snapshot' = [snapshot EXCEPT ![s] = SnapshotOf(state)]
        /\ \/ UNCHANGED logQueue
           \/ logQueue' = Append(logQueue, compact)
    BY <1>2 DEF CheckpointUpdate
  <2> HIDE DEF s, e, state, compact
  <2>5. logQueue' \in Seq(LogCommands)
    <3>1. logQueue \in Seq(LogCommands)
      BY DEF TypeOK
    <3> QED
      BY <2>3, <2>4, <3>1, QueueTypes
  <2>6. checkpoint' \in [Session -> CheckpointState] /\ snapshot' \in [Session -> Snapshot]
    BY <2>1, <2>2, <2>3, <2>4 DEF TypeOK
  <2> QED
    BY <1>2, <2>1, <2>4, <2>5, <2>6
    DEF CheckpointUpdate, TypeOK, daemonVars, materializerVars
<1>3. CASE CheckpointUpdateDropped
  BY <1>1, <1>3 DEF CheckpointUpdateDropped, TypeOK, daemonVars, logVars,
                    materializerVars, diskVars
<1>4. CASE CheckpointShutdown
  <2>1. <<>> \in Seq(WorkerCommands)
    OBVIOUS
  <2>2. snapshot' \in [Session -> Snapshot]
    <3>1. PICK written \in SUBSET Session :
            snapshot' = [s \in Session |-> IF s \in written
                                             THEN SnapshotOf(checkpoint[s])
                                             ELSE snapshot[s]]
      BY <1>4 DEF CheckpointShutdown, TypeOK
    <3>2. \A s \in Session : SnapshotOf(checkpoint[s]) \in Snapshot
      BY CheckpointTypes DEF TypeOK
    <3> QED
      BY <3>1, <3>2 DEF TypeOK
  <2> QED
    BY <1>4, <2>1, <2>2
    DEF CheckpointShutdown, TypeOK, daemonVars, logVars, materializerVars
<1> QED
  BY <1>2, <1>3, <1>4 DEF CheckpointWorker

(* Dropping the runtime.                                                   *)
LEMMA DropTypeOK ==
  ASSUME TypeOK, Drop
  PROVE  TypeOK'
<1>1. CASE DropJoinLog
  BY <1>1, CommandTypes, QueueTypes
  DEF DropJoinLog, TypeOK, Phase, logVars, checkpointVars, diskVars
<1>2. CASE DropJoinMaterializer
  BY <1>2, CommandTypes, QueueTypes
  DEF DropJoinMaterializer, TypeOK, Phase, logVars, materializerVars, diskVars
<1>3. CASE DropJoinCheckpoint
  <2>1. log' \in [Session -> LogFile]
    <3>1. PICK failed :
            log' = [s \in Session |->
                      IF s \in loaded \ failed /\ Readable(log[s])
                        THEN CompactUpTo(log[s],
                               SaturatingSub(snapshot[s].last, RetentionTail))
                        ELSE log[s]]
      BY <1>3 DEF DropJoinCheckpoint
    <3>2. \A s \in Session :
            CompactUpTo(log[s], SaturatingSub(snapshot[s].last, RetentionTail)) \in LogFile
      <4> SUFFICES ASSUME NEW s \in Session
                   PROVE  CompactUpTo(log[s], SaturatingSub(snapshot[s].last, RetentionTail))
                            \in LogFile
        OBVIOUS
      <4>1. log[s] \in LogFile /\ snapshot[s] \in Snapshot
        BY DEF TypeOK
      <4>2. SaturatingSub(snapshot[s].last, RetentionTail) \in Nat
        BY <4>1, IntervalAssumption DEF SaturatingSub, Snapshot
      <4> QED
        BY <4>1, <4>2, FileTypes
    <3> QED
      BY <3>1, <3>2 DEF TypeOK
  <2> QED
    BY <1>3, <2>1
    DEF DropJoinCheckpoint, TypeOK, Phase, logVars, materializerVars, checkpointVars
<1> QED
  BY <1>1, <1>2, <1>3 DEF Drop

(* Every step keeps the types.                                             *)
LEMMA NextTypeOK == TypeOK /\ [Next]_vars => TypeOK'
<1> SUFFICES ASSUME TypeOK, [Next]_vars PROVE TypeOK'
  OBVIOUS
<1>1. CASE UNCHANGED vars
  BY <1>1 DEF TypeOK, vars, daemonVars, logVars, materializerVars, checkpointVars, diskVars
<1>2. CASE Next
  BY <1>2, LifeTypeOK, RequestTypeOK, LogWorkerTypeOK, MaterializerTypeOK,
     CheckpointWorkerTypeOK, DropTypeOK DEF Next
<1> QED
  BY <1>1, <1>2

(* Whatever fails, every variable of the pipeline keeps its type: no event *)
(* gets an index outside its range, and no subtraction underflows.         *)
THEOREM TypeCorrect == Spec => []TypeOK
BY InitTypeOK, NextTypeOK, PTL DEF Spec

-----------------------------------------------------------------------------
(* The events and the compactions a queue carries, as commands are added   *)
(* to and taken from it.                                                   *)

(* An empty queue carries no event, asks for no compaction, and is in      *)
(* order.                                                                  *)
LEMMA NothingQueued ==
  ASSUME NEW s
  PROVE  Carried(<<>>, s) = {} /\ Compactions(<<>>, s) = {} /\ InOrder(<<>>, s)
BY DEF Carried, Compactions, InOrder

(* What a queue carries, and asks to compact, after a command is added at  *)
(* its end.                                                                *)
LEMMA AddToQueue ==
  ASSUME NEW C, NEW q \in Seq(C), NEW c \in C, NEW s
  PROVE  LET longer == Append(q, c)
             carries == c.op = "event" /\ c.session = s
             compacts == c.op = "compact" /\ c.session = s
         IN  /\ carries => Carried(longer, s) = Carried(q, s) \union {c.event}
             /\ ~carries => Carried(longer, s) = Carried(q, s)
             /\ compacts => Compactions(longer, s) = Compactions(q, s) \union {c.through}
             /\ ~compacts => Compactions(longer, s) = Compactions(q, s)
             /\ InOrder(q, s)
                /\ (carries => \A e \in Carried(q, s) : e.ix < c.event.ix)
                => InOrder(longer, s)
<1> DEFINE longer == Append(q, c)
           carries == c.op = "event" /\ c.session = s
           compacts == c.op = "compact" /\ c.session = s
           n == Len(q)
<1>1. /\ n \in Nat
      /\ DOMAIN q = 1..n
      /\ DOMAIN longer = 1..(n + 1)
      /\ longer[n + 1] = c
      /\ \A i \in 1..n : longer[i] = q[i]
  OBVIOUS
<1> HIDE DEF longer, n
<1>2. \A i \in 1..n : Carries(longer, i, s) <=> Carries(q, i, s)
  BY <1>1 DEF Carries
<1>3. Carries(longer, n + 1, s) <=> carries
  BY <1>1 DEF Carries
<1>4. carries => Carried(longer, s) = Carried(q, s) \union {c.event}
  <2> SUFFICES ASSUME carries
               PROVE  Carried(longer, s) = Carried(q, s) \union {c.event}
    OBVIOUS
  <2>1. ASSUME NEW e \in Carried(longer, s)
        PROVE  e \in Carried(q, s) \union {c.event}
    <3>1. PICK i \in 1..(n + 1) : Carries(longer, i, s) /\ e = longer[i].event
      BY <1>1 DEF Carried
    <3>2. CASE i = n + 1
      BY <1>1, <3>1, <3>2
    <3>3. CASE i \in 1..n
      BY <1>1, <1>2, <3>1, <3>3 DEF Carried
    <3> QED
      BY <1>1, <3>2, <3>3
  <2>2. ASSUME NEW e \in Carried(q, s)
        PROVE  e \in Carried(longer, s)
    <3>1. PICK i \in 1..n : Carries(q, i, s) /\ e = q[i].event
      BY <1>1 DEF Carried
    <3> QED
      BY <1>1, <1>2, <3>1 DEF Carried
  <2>3. c.event \in Carried(longer, s)
    BY <1>1, <1>3 DEF Carried
  <2> QED
    BY <2>1, <2>2, <2>3
<1>5. ~carries => Carried(longer, s) = Carried(q, s)
  <2> SUFFICES ASSUME ~carries
               PROVE  Carried(longer, s) = Carried(q, s)
    OBVIOUS
  <2>1. \A i \in 1..(n + 1) : Carries(longer, i, s) => i \in 1..n
    BY <1>1, <1>3
  <2> QED
    BY <1>1, <1>2, <2>1 DEF Carried
<1>6. compacts => Compactions(longer, s) = Compactions(q, s) \union {c.through}
  BY <1>1 DEF Compactions
<1>7. ~compacts => Compactions(longer, s) = Compactions(q, s)
  BY <1>1 DEF Compactions
<1>8. ASSUME InOrder(q, s), carries => \A e \in Carried(q, s) : e.ix < c.event.ix
      PROVE  InOrder(longer, s)
  <2> SUFFICES ASSUME NEW i \in 1..(n + 1), NEW j \in 1..(n + 1), i < j,
                      Carries(longer, i, s), Carries(longer, j, s)
               PROVE  longer[i].event.ix < longer[j].event.ix
    BY <1>1 DEF InOrder
  <2>1. i \in 1..n
    BY <1>1
  <2>2. CASE j \in 1..n
    BY <1>1, <1>2, <1>8, <2>1, <2>2 DEF InOrder
  <2>3. CASE j = n + 1
    <3>1. carries /\ longer[j] = c
      BY <1>1, <1>3, <2>3
    <3>2. longer[i].event \in Carried(q, s)
      BY <1>1, <1>2, <2>1 DEF Carried
    <3> QED
      BY <1>8, <3>1, <3>2
  <2> QED
    BY <1>1, <2>2, <2>3
<1> QED
  BY <1>4, <1>5, <1>6, <1>7, <1>8 DEF longer

(* What a queue carries, and asks to compact, after its head is taken.     *)
LEMMA TakeFromQueue ==
  ASSUME NEW C, NEW q \in Seq(C), q # <<>>, NEW s
  PROVE  LET first == Head(q)
             rest == Tail(q)
             carries == first.op = "event" /\ first.session = s
             compacts == first.op = "compact" /\ first.session = s
         IN  /\ carries => Carried(q, s) = Carried(rest, s) \union {first.event}
             /\ ~carries => Carried(rest, s) = Carried(q, s)
             /\ Compactions(rest, s) \subseteq Compactions(q, s)
             /\ compacts => first.through \in Compactions(q, s)
             /\ InOrder(q, s) =>
                  /\ InOrder(rest, s)
                  /\ carries => \A e \in Carried(rest, s) : first.event.ix < e.ix
<1> DEFINE first == Head(q)
           rest == Tail(q)
           carries == first.op = "event" /\ first.session = s
           compacts == first.op = "compact" /\ first.session = s
           n == Len(rest)
<1>1. /\ n \in Nat
      /\ DOMAIN rest = 1..n
      /\ DOMAIN q = 1..(n + 1)
      /\ q[1] = first
      /\ \A i \in 1..n : rest[i] = q[i + 1]
  OBVIOUS
<1> HIDE DEF first, rest, n
<1>2. \A i \in 1..n : Carries(q, i + 1, s) <=> Carries(rest, i, s)
  BY <1>1 DEF Carries
<1>3. Carries(q, 1, s) <=> carries
  BY <1>1 DEF Carries
<1>4. Carried(rest, s) \subseteq Carried(q, s)
  <2> SUFFICES ASSUME NEW e \in Carried(rest, s)
               PROVE  e \in Carried(q, s)
    OBVIOUS
  <2>1. PICK i \in 1..n : Carries(rest, i, s) /\ e = rest[i].event
    BY <1>1 DEF Carried
  <2>2. i + 1 \in 1..(n + 1) /\ Carries(q, i + 1, s) /\ e = q[i + 1].event
    BY <1>1, <1>2, <2>1
  <2> QED
    BY <1>1, <2>2 DEF Carried
<1>5. \A e \in Carried(q, s) : e \in Carried(rest, s) \/ (carries /\ e = first.event)
  <2> SUFFICES ASSUME NEW e \in Carried(q, s)
               PROVE  e \in Carried(rest, s) \/ (carries /\ e = first.event)
    OBVIOUS
  <2>1. PICK i \in 1..(n + 1) : Carries(q, i, s) /\ e = q[i].event
    BY <1>1 DEF Carried
  <2>2. CASE i = 1
    BY <1>1, <1>3, <2>1, <2>2
  <2>3. CASE i # 1
    <3>1. i - 1 \in 1..n /\ (i - 1) + 1 = i
      BY <1>1, <2>3
    <3>2. Carries(rest, i - 1, s) /\ e = rest[i - 1].event
      BY <1>1, <1>2, <2>1, <3>1
    <3> QED
      BY <1>1, <3>1, <3>2 DEF Carried
  <2> QED
    BY <2>2, <2>3
<1>6. carries => first.event \in Carried(q, s)
  BY <1>1, <1>3 DEF Carried
<1>7. Compactions(rest, s) \subseteq Compactions(q, s)
  <2> SUFFICES ASSUME NEW m \in Compactions(rest, s)
               PROVE  m \in Compactions(q, s)
    OBVIOUS
  <2>1. PICK i \in 1..n : rest[i].op = "compact" /\ rest[i].session = s /\ m = rest[i].through
    BY <1>1 DEF Compactions
  <2>2. i + 1 \in 1..(n + 1) /\ q[i + 1] = rest[i]
    BY <1>1
  <2> QED
    BY <1>1, <2>1, <2>2 DEF Compactions
<1>8. compacts => first.through \in Compactions(q, s)
  BY <1>1 DEF Compactions
<1>9. ASSUME InOrder(q, s)
      PROVE  InOrder(rest, s)
  <2> SUFFICES ASSUME NEW i \in 1..n, NEW j \in 1..n, i < j,
                      Carries(rest, i, s), Carries(rest, j, s)
               PROVE  rest[i].event.ix < rest[j].event.ix
    BY <1>1 DEF InOrder
  <2>1. i + 1 \in 1..(n + 1) /\ j + 1 \in 1..(n + 1) /\ i + 1 < j + 1
    BY <1>1
  <2>2. Carries(q, i + 1, s) /\ Carries(q, j + 1, s)
    BY <1>2
  <2> QED
    BY <1>1, <1>9, <2>1, <2>2 DEF InOrder
<1>10. ASSUME InOrder(q, s), carries, NEW e \in Carried(rest, s)
       PROVE  first.event.ix < e.ix
  <2>1. PICK i \in 1..n : Carries(rest, i, s) /\ e = rest[i].event
    BY <1>1 DEF Carried
  <2>2. /\ 1 \in 1..(n + 1) /\ i + 1 \in 1..(n + 1) /\ 1 < i + 1
        /\ Carries(q, 1, s) /\ Carries(q, i + 1, s)
    BY <1>1, <1>2, <1>3, <1>10, <2>1
  <2> QED
    BY <1>1, <1>10, <2>1, <2>2 DEF InOrder
<1> QED
  BY <1>4, <1>5, <1>6, <1>7, <1>8, <1>9, <1>10 DEF first, rest
=============================================================================
