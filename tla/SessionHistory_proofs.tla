------------------------ MODULE SessionHistory_proofs ------------------------
(***************************************************************************)
(* Proofs about the history of a session, for any commands, reports and    *)
(* client deltas, any capabilities of the runtime's shell, and any number  *)
(* of checks, events, kills and restarts.                                  *)
(***************************************************************************)
EXTENDS SessionHistoryProperties, FiniteSetTheorems, WellFoundedInduction, TLAPS

-----------------------------------------------------------------------------
(* Induction.                                                              *)

(* A set of natural numbers that is not empty has a least element.         *)
LEMMA LeastExists ==
  ASSUME NEW S \in SUBSET Nat, S # {}
  PROVE  \E m \in S : \A x \in S : m <= x
<1> DEFINE R == OpToRel(<, Nat)
<1>1. IsWellFoundedOn(R, Nat)
  BY NatLessThanWellFounded
<1>2. \A x, y \in Nat : x < y => <<x, y>> \in R
  BY DEF OpToRel
<1> HIDE DEF R
<1>3. PICK m \in S : \A x \in S : ~(<<x, m>> \in R)
  BY <1>1, WFMin, S \subseteq Nat, Zenon
<1>4. \A x \in S : ~(x < m)
  BY <1>2, <1>3
<1> QED
  BY <1>4

(* What holds of 0, and of i if it holds of i - 1, holds up to n.          *)
LEMMA IntervalInduction ==
  ASSUME NEW S \in SUBSET Nat, NEW n \in Nat, 0 \in S,
         \A i \in 1..n : i - 1 \in S => i \in S
  PROVE  \A i \in 0..n : i \in S
<1> DEFINE T == {i \in 0..n : i \notin S}
<1> SUFFICES ASSUME T # {} PROVE FALSE
  OBVIOUS
<1>1. PICK m \in T : \A x \in T : m <= x
  BY LeastExists, T \in SUBSET Nat
<1>2. m \in 1..n /\ m - 1 \in 0..n /\ m - 1 \notin T
  BY <1>1
<1> QED
  BY <1>2

-----------------------------------------------------------------------------
(* The folds of the session state, as runs.                                *)

(* The greatest element of an interval, and of a set that reaches its end. *)
LEMMA MaxOfInterval ==
  ASSUME NEW k \in Nat, NEW t \in SUBSET (1..k), k \in t
  PROVE  Max(t) = k
<1>1. \A x \in t : k >= x
  OBVIOUS
<1>2. \A x \in t : (\A y \in t : x >= y) => x = k
  OBVIOUS
<1> QED
  BY <1>1, <1>2, Zenon DEF Max

(* A finite set of positive numbers has a greatest one.                    *)
LEMMA MaxInInterval ==
  ASSUME NEW k \in Nat, NEW t \in SUBSET (1..k), t # {}
  PROVE  Max(t) \in t /\ \A x \in t : x <= Max(t)
<1> DEFINE T == {n \in Nat : k - n \in t}
<1>1. T \in SUBSET Nat /\ T # {}
  <2>1. PICK x \in t : TRUE
    OBVIOUS
  <2>2. k - x \in T
    BY <2>1
  <2> QED
    BY <2>2
<1>2. PICK n \in T : \A x \in T : n <= x
  BY <1>1, LeastExists
<1>3. \A x \in t : k - x \in T
  OBVIOUS
<1>4. k - n \in t /\ \A x \in t : k - n >= x
  BY <1>2, <1>3
<1> HIDE DEF T
<1> QED
  BY <1>4, Zenon DEF Max

(* The summary after a batch is the end of a run, one mutation after the   *)
(* other.                                                                  *)
SummaryFold(f, k, s, ms, n) ==
  f = [t \in SUBSET (1..k) |->
         IF t = {} THEN s ELSE MutateSummary(f[t \ {Max(t)}], ms[Max(t)], n)]

LEMMA SummaryFoldExists ==
  ASSUME NEW s, NEW ms \in Seq(Mutation), NEW n
  PROVE  \E f : SummaryFold(f, Len(ms), s, ms, n)
<1> DEFINE T == {k \in Nat : \E f : SummaryFold(f, k, s, ms, n)}
<1>1. 0 \in T
  <2>1. SummaryFold([t \in SUBSET (1..0) |-> s], 0, s, ms, n)
    <3>1. \A t \in SUBSET (1..0) : t = {}
      OBVIOUS
    <3> QED
      BY <3>1 DEF SummaryFold
  <2> QED
    BY <2>1
<1>2. ASSUME NEW k \in 1..Len(ms), k - 1 \in T
      PROVE  k \in T
  <2>1. PICK f : SummaryFold(f, k - 1, s, ms, n)
    BY <1>2
  <2> DEFINE g == [t \in SUBSET (1..k) |->
                     IF k \in t THEN MutateSummary(f[t \ {k}], ms[k], n) ELSE f[t]]
  <2>2. ASSUME NEW t \in SUBSET (1..k)
        PROVE  g[t] = IF t = {} THEN s ELSE MutateSummary(g[t \ {Max(t)}], ms[Max(t)], n)
    <3>1. CASE k \in t
      <4>1. Max(t) = k
        BY <3>1, MaxOfInterval
      <4>2. g[t] = MutateSummary(f[t \ {k}], ms[k], n)
        BY <3>1
      <4>3. t \ {k} \in SUBSET (1..k) /\ g[t \ {k}] = f[t \ {k}]
        OBVIOUS
      <4> HIDE DEF g
      <4> QED
        BY <3>1, <4>1, <4>2, <4>3
    <3>2. CASE k \notin t
      <4>1. t \in SUBSET (1..(k - 1)) /\ g[t] = f[t]
        BY <3>2
      <4>2. f[t] = IF t = {} THEN s ELSE MutateSummary(f[t \ {Max(t)}], ms[Max(t)], n)
        BY <2>1, <4>1 DEF SummaryFold
      <4>3. t # {} => g[t \ {Max(t)}] = f[t \ {Max(t)}]
        BY <3>2
      <4> HIDE DEF g
      <4> QED
        BY <4>1, <4>2, <4>3
    <3> QED
      BY <3>1, <3>2
  <2>3. g = [t \in SUBSET (1..k) |-> g[t]]
    OBVIOUS
  <2> HIDE DEF g
  <2>4. SummaryFold(g, k, s, ms, n)
    BY <2>2, <2>3 DEF SummaryFold
  <2> QED
    BY <2>4
<1>3. Len(ms) \in Nat /\ T \in SUBSET Nat
  OBVIOUS
<1> HIDE DEF T
<1>4. \A k \in 0..Len(ms) : k \in T
  BY <1>1, <1>2, <1>3, IntervalInduction
<1> QED
  BY <1>3, <1>4 DEF T

SummaryRun(r, s, ms, n) ==
  /\ r[0] = s
  /\ \A i \in 1..Len(ms) : r[i] = MutateSummary(r[i - 1], ms[i], n)

LEMMA MutatedSummaryRun ==
  ASSUME NEW s, NEW ms \in Seq(Mutation), NEW n
  PROVE  \E r : SummaryRun(r, s, ms, n) /\ MutatedSummary(s, ms, n) = r[Len(ms)]
<1> DEFINE it == CHOOSE f : SummaryFold(f, Len(ms), s, ms, n)
           r == [i \in 0..Len(ms) |-> it[1..i]]
<1>1. SummaryFold(it, Len(ms), s, ms, n)
  BY SummaryFoldExists
<1>2. MutatedSummary(s, ms, n) = it[1..Len(ms)]
  <2>1. DOMAIN ms = 1..Len(ms)
    OBVIOUS
  <2> QED
    BY <2>1 DEF MutatedSummary, FoldLeft, MapThenFoldSet, SummaryFold
<1> HIDE DEF it
<1>3. r[0] = s
  <2>1. 1..0 = {} /\ {} \in SUBSET (1..Len(ms))
    OBVIOUS
  <2> QED
    BY <1>1, <2>1 DEF SummaryFold
<1>4. ASSUME NEW i \in 1..Len(ms)
      PROVE  r[i] = MutateSummary(r[i - 1], ms[i], n)
  <2>1. Max(1..i) = i /\ (1..i) \ {i} = 1..(i - 1) /\ 1..i # {} /\ 1..i \in SUBSET (1..Len(ms))
    BY MaxOfInterval
  <2>2. it[1..i] = MutateSummary(it[1..(i - 1)], ms[i], n)
    BY <1>1, <2>1 DEF SummaryFold
  <2> QED
    BY <2>2
<1>5. r[Len(ms)] = it[1..Len(ms)]
  OBVIOUS
<1> HIDE DEF r
<1> QED
  BY <1>2, <1>3, <1>4, <1>5 DEF SummaryRun

(* So is the graph.                                                        *)
GraphFold(f, k, s, ms, n) ==
  f = [t \in SUBSET (1..k) |->
         IF t = {} THEN s ELSE MutateGraph(f[t \ {Max(t)}], ms[Max(t)], n)]

LEMMA GraphFoldExists ==
  ASSUME NEW s, NEW ms \in Seq(Mutation), NEW n
  PROVE  \E f : GraphFold(f, Len(ms), s, ms, n)
<1> DEFINE T == {k \in Nat : \E f : GraphFold(f, k, s, ms, n)}
<1>1. 0 \in T
  <2>1. GraphFold([t \in SUBSET (1..0) |-> s], 0, s, ms, n)
    <3>1. \A t \in SUBSET (1..0) : t = {}
      OBVIOUS
    <3> QED
      BY <3>1 DEF GraphFold
  <2> QED
    BY <2>1
<1>2. ASSUME NEW k \in 1..Len(ms), k - 1 \in T
      PROVE  k \in T
  <2>1. PICK f : GraphFold(f, k - 1, s, ms, n)
    BY <1>2
  <2> DEFINE g == [t \in SUBSET (1..k) |->
                     IF k \in t THEN MutateGraph(f[t \ {k}], ms[k], n) ELSE f[t]]
  <2>2. ASSUME NEW t \in SUBSET (1..k)
        PROVE  g[t] = IF t = {} THEN s ELSE MutateGraph(g[t \ {Max(t)}], ms[Max(t)], n)
    <3>1. CASE k \in t
      <4>1. Max(t) = k
        BY <3>1, MaxOfInterval
      <4>2. g[t] = MutateGraph(f[t \ {k}], ms[k], n)
        BY <3>1
      <4>3. t \ {k} \in SUBSET (1..k) /\ g[t \ {k}] = f[t \ {k}]
        OBVIOUS
      <4> HIDE DEF g
      <4> QED
        BY <3>1, <4>1, <4>2, <4>3
    <3>2. CASE k \notin t
      <4>1. t \in SUBSET (1..(k - 1)) /\ g[t] = f[t]
        BY <3>2
      <4>2. f[t] = IF t = {} THEN s ELSE MutateGraph(f[t \ {Max(t)}], ms[Max(t)], n)
        BY <2>1, <4>1 DEF GraphFold
      <4>3. t # {} => g[t \ {Max(t)}] = f[t \ {Max(t)}]
        BY <3>2
      <4> HIDE DEF g
      <4> QED
        BY <4>1, <4>2, <4>3
    <3> QED
      BY <3>1, <3>2
  <2>3. g = [t \in SUBSET (1..k) |-> g[t]]
    OBVIOUS
  <2> HIDE DEF g
  <2>4. GraphFold(g, k, s, ms, n)
    BY <2>2, <2>3 DEF GraphFold
  <2> QED
    BY <2>4
<1>3. Len(ms) \in Nat /\ T \in SUBSET Nat
  OBVIOUS
<1> HIDE DEF T
<1>4. \A k \in 0..Len(ms) : k \in T
  BY <1>1, <1>2, <1>3, IntervalInduction
<1> QED
  BY <1>3, <1>4 DEF T

GraphRun(r, s, ms, n) ==
  /\ r[0] = s
  /\ \A i \in 1..Len(ms) : r[i] = MutateGraph(r[i - 1], ms[i], n)

LEMMA MutatedGraphRun ==
  ASSUME NEW s, NEW ms \in Seq(Mutation), NEW n
  PROVE  \E r : GraphRun(r, s, ms, n) /\ MutatedGraph(s, ms, n) = r[Len(ms)]
<1> DEFINE it == CHOOSE f : GraphFold(f, Len(ms), s, ms, n)
           r == [i \in 0..Len(ms) |-> it[1..i]]
<1>1. GraphFold(it, Len(ms), s, ms, n)
  BY GraphFoldExists
<1>2. MutatedGraph(s, ms, n) = it[1..Len(ms)]
  <2>1. DOMAIN ms = 1..Len(ms)
    OBVIOUS
  <2> QED
    BY <2>1 DEF MutatedGraph, FoldLeft, MapThenFoldSet, GraphFold
<1> HIDE DEF it
<1>3. r[0] = s
  <2>1. 1..0 = {} /\ {} \in SUBSET (1..Len(ms))
    OBVIOUS
  <2> QED
    BY <1>1, <2>1 DEF GraphFold
<1>4. ASSUME NEW i \in 1..Len(ms)
      PROVE  r[i] = MutateGraph(r[i - 1], ms[i], n)
  <2>1. Max(1..i) = i /\ (1..i) \ {i} = 1..(i - 1) /\ 1..i # {} /\ 1..i \in SUBSET (1..Len(ms))
    BY MaxOfInterval
  <2>2. it[1..i] = MutateGraph(it[1..(i - 1)], ms[i], n)
    BY <1>1, <2>1 DEF GraphFold
  <2> QED
    BY <2>2
<1>5. r[Len(ms)] = it[1..Len(ms)]
  OBVIOUS
<1> HIDE DEF r
<1> QED
  BY <1>2, <1>3, <1>4, <1>5 DEF GraphRun

-----------------------------------------------------------------------------
(* The summary.                                                            *)

(* Nothing is newer than the last command.                                 *)
Stamped(s) ==
  /\ s.cwd.at <= s.last
  /\ \A k \in Kind, x \in Name : s.bindings[k][x].at <= s.last

(* What a mutation leaves of the directory, and of a binding.              *)
Cwded(cwd, m, n) ==
  IF m.op = "cwd" /\ Capabilities.cwd /\ cwd.at <= n
    THEN [path |-> m.path, at |-> n, source |-> m.source] ELSE cwd

ChangesBinding(m, k, x) == m.op \in {"bind", "unbind"} /\ m.kind = k /\ m.name = x

Bound(binding, m, k, x, n) ==
  IF Capabilities[k] /\ ChangesBinding(m, k, x) /\ binding.at <= n
    THEN IF m.op = "bind" THEN [value |-> m.value, at |-> n] ELSE NoBinding
    ELSE binding

(* The forms of a mutation.                                                *)
LEMMA MutationForms ==
  ASSUME NEW m \in Mutation
  PROVE  \/ \E k \in Kind, x \in Name, v \in Value : m = Bind(k, x, v)
         \/ \E k \in Kind, x \in Name : m = Unbind(k, x)
         \/ \E d \in Directory, src \in Source : m = SetCwd(d, src)
         \/ m = Anchor
BY DEF Mutation, Change

(* The shape of a summary.                                                 *)
LEMMA SummaryParts ==
  ASSUME NEW s \in Summary
  PROVE  /\ s = [last |-> s.last, cwd |-> s.cwd, bindings |-> s.bindings]
         /\ s.last \in SequenceNo \union {Never} /\ s.last \in Int
         /\ s.cwd \in Cwd /\ s.cwd.at \in Int
         /\ s.bindings \in [Kind -> [Name -> Binding]]
         /\ \A k \in Kind, x \in Name : s.bindings[k][x] \in Binding /\ s.bindings[k][x].at \in Int
<1>1. SequenceNo \subseteq Int /\ Never \in Int
  BY MaxSequenceAssumption DEF SequenceNo, Never
<1>2. ASSUME NEW c \in Cwd PROVE c.at \in Int
  <2>1. NoCwd.at = Never
    BY DEF NoCwd
  <2>2. CASE c \in [path : Directory, at : SequenceNo, source : Source]
    BY <1>1, <2>2
  <2> QED
    BY <1>1, <2>1, <2>2 DEF Cwd
<1>3. ASSUME NEW b \in Binding PROVE b.at \in Int
  <2>1. NoBinding.at = Never
    BY DEF NoBinding
  <2>2. CASE b \in [value : Value, at : SequenceNo]
    BY <1>1, <2>2
  <2> QED
    BY <1>1, <2>1, <2>2 DEF Binding
<1> QED
  BY <1>1, <1>2, <1>3 DEF Summary

(* Observing a number raises the last one at most.                         *)
LEMMA ObserveSequenceStep ==
  ASSUME NEW s \in Summary, NEW n \in SequenceNo
  PROVE  LET t == ObserveSequence(s, n)
         IN  /\ t \in Summary
             /\ t.last \in {s.last, n} /\ s.last <= t.last /\ n <= t.last
             /\ t.cwd = s.cwd /\ t.bindings = s.bindings
<1>1. n \in Int /\ s.last \in Int /\ SequenceNo \subseteq Int
  BY SummaryParts, MaxSequenceAssumption DEF SequenceNo
<1>2. s \in [last : SequenceNo \union {Never}, cwd : Cwd, bindings : [Kind -> [Name -> Binding]]]
  BY DEF Summary
<1> QED
  BY <1>1, <1>2 DEF ObserveSequence, Summary

(* What one mutation does.                                                 *)
LEMMA SummaryStep ==
  ASSUME NEW s \in Summary, NEW m \in Mutation, NEW n \in SequenceNo
  PROVE  LET t == MutateSummary(s, m, n)
         IN  /\ t \in Summary
             /\ t.last \in {s.last, n} /\ s.last <= t.last
             /\ t.cwd = Cwded(s.cwd, m, n)
             /\ \A k \in Kind, x \in Name : t.bindings[k][x] = Bound(s.bindings[k][x], m, k, x, n)
             /\ (t.cwd # s.cwd \/ t.bindings # s.bindings) => n <= t.last
<1> DEFINE t == MutateSummary(s, m, n)
<1>0. s.last <= s.last /\ Capabilities \in [cwd : BOOLEAN, variable : BOOLEAN, function : BOOLEAN]
  BY SummaryParts, CapabilitiesAssumption
<1>1. CASE \E d \in Directory, src \in Source : m = SetCwd(d, src)
  <2>1. PICK d \in Directory, src \in Source : m = SetCwd(d, src)
    BY <1>1
  <2>2. m.op = "cwd" /\ m.path = d /\ m.source = src
    BY <2>1 DEF SetCwd
  <2>3. \A k \in Kind, x \in Name : Bound(s.bindings[k][x], m, k, x, n) = s.bindings[k][x]
    BY <2>2 DEF Bound, ChangesBinding
  <2>4. CASE Capabilities.cwd
    <3> DEFINE u == IF s.cwd.at <= n
                      THEN [s EXCEPT !.cwd = [path |-> d, at |-> n, source |-> src]]
                      ELSE s
    <3>1. u \in Summary /\ u.last = s.last /\ u.bindings = s.bindings /\ u.cwd = Cwded(s.cwd, m, n)
      <4>1. [path |-> d, at |-> n, source |-> src] \in Cwd
        BY DEF Cwd
      <4> QED
        BY <2>2, <2>4, <4>1 DEF Summary, Cwded
    <3>2. t = ObserveSequence(u, n)
      BY <2>2, <2>4 DEF MutateSummary, SetDirectory
    <3> HIDE DEF u, t
    <3> QED
      BY <2>3, <3>1, <3>2, ObserveSequenceStep DEF t
  <2>5. CASE ~Capabilities.cwd
    <3>1. t = s
      BY <2>2, <2>5 DEF MutateSummary
    <3>2. Cwded(s.cwd, m, n) = s.cwd
      BY <2>5 DEF Cwded
    <3> QED
      BY <1>0, <2>3, <3>1, <3>2
  <2> QED
    BY <2>4, <2>5
<1>2. CASE \E k \in Kind, x \in Name, v \in Value : m = Bind(k, x, v)
  <2>1. PICK k \in Kind, x \in Name, v \in Value : m = Bind(k, x, v)
    BY <1>2
  <2>2. m.op = "bind" /\ m.kind = k /\ m.name = x /\ m.value = v
    BY <2>1 DEF Bind
  <2>3. Cwded(s.cwd, m, n) = s.cwd
    BY <2>2 DEF Cwded
  <2>4. CASE Capabilities[k]
    <3> DEFINE new == [value |-> v, at |-> n]
               u == IF s.bindings[k][x].at <= n
                      THEN [s EXCEPT !.bindings[k][x] = new]
                      ELSE s
    <3>1. /\ u \in Summary /\ u.last = s.last /\ u.cwd = s.cwd
          /\ \A j \in Kind, y \in Name : u.bindings[j][y] = Bound(s.bindings[j][y], m, j, y, n)
      <4>1. new \in Binding
        BY DEF Binding
      <4>2. CASE s.bindings[k][x].at <= n
        <5> DEFINE b == [s.bindings EXCEPT ![k] = [s.bindings[k] EXCEPT ![x] = new]]
        <5>1. u = [s EXCEPT !.bindings = b]
          BY <4>2
        <5>2. b \in [Kind -> [Name -> Binding]]
          BY <4>1, SummaryParts
        <5>3. \A j \in Kind, y \in Name : b[j][y] = IF j = k /\ y = x THEN new ELSE s.bindings[j][y]
          BY SummaryParts
        <5>4. \A j \in Kind, y \in Name :
                Bound(s.bindings[j][y], m, j, y, n) = IF j = k /\ y = x THEN new ELSE s.bindings[j][y]
          BY <2>2, <2>4, <4>2 DEF Bound, ChangesBinding
        <5> HIDE DEF b, new
        <5>5. s \in [last : SequenceNo \union {Never}, cwd : Cwd, bindings : [Kind -> [Name -> Binding]]]
          BY DEF Summary
        <5>6. u \in Summary /\ u.last = s.last /\ u.cwd = s.cwd /\ u.bindings = b
          BY <5>1, <5>2, <5>5 DEF Summary
        <5> HIDE DEF u
        <5> QED
          BY <5>3, <5>4, <5>6
      <4>3. CASE ~(s.bindings[k][x].at <= n)
        BY <2>2, <4>3 DEF Bound, ChangesBinding
      <4> QED
        BY <4>2, <4>3
    <3>2. t = ObserveSequence(u, n)
      BY <2>2, <2>4 DEF MutateSummary, SetBinding
    <3> HIDE DEF u, t
    <3> QED
      BY <2>3, <3>1, <3>2, ObserveSequenceStep DEF t
  <2>5. CASE ~Capabilities[k]
    <3>1. t = s
      BY <2>2, <2>5 DEF MutateSummary
    <3>2. \A j \in Kind, y \in Name : Bound(s.bindings[j][y], m, j, y, n) = s.bindings[j][y]
      BY <2>2, <2>5 DEF Bound, ChangesBinding
    <3> QED
      BY <1>0, <2>3, <3>1, <3>2
  <2> QED
    BY <2>4, <2>5
<1>3. CASE \E k \in Kind, x \in Name : m = Unbind(k, x)
  <2>1. PICK k \in Kind, x \in Name : m = Unbind(k, x)
    BY <1>3
  <2>2. m.op = "unbind" /\ m.kind = k /\ m.name = x
    BY <2>1 DEF Unbind
  <2>3. Cwded(s.cwd, m, n) = s.cwd
    BY <2>2 DEF Cwded
  <2>4. CASE Capabilities[k]
    <3> DEFINE u == IF s.bindings[k][x].at <= n
                      THEN [s EXCEPT !.bindings[k][x] = NoBinding]
                      ELSE s
    <3>1. /\ u \in Summary /\ u.last = s.last /\ u.cwd = s.cwd
          /\ \A j \in Kind, y \in Name : u.bindings[j][y] = Bound(s.bindings[j][y], m, j, y, n)
      <4>1. NoBinding \in Binding
        BY DEF Binding
      <4>2. CASE s.bindings[k][x].at <= n
        <5> DEFINE b == [s.bindings EXCEPT ![k] = [s.bindings[k] EXCEPT ![x] = NoBinding]]
        <5>1. u = [s EXCEPT !.bindings = b]
          BY <4>2
        <5>2. b \in [Kind -> [Name -> Binding]]
          BY <4>1, SummaryParts
        <5>3. \A j \in Kind, y \in Name : b[j][y] = IF j = k /\ y = x THEN NoBinding ELSE s.bindings[j][y]
          BY SummaryParts
        <5>4. \A j \in Kind, y \in Name :
                Bound(s.bindings[j][y], m, j, y, n) = IF j = k /\ y = x THEN NoBinding ELSE s.bindings[j][y]
          BY <2>2, <2>4, <4>2 DEF Bound, ChangesBinding
        <5> HIDE DEF b
        <5>5. s \in [last : SequenceNo \union {Never}, cwd : Cwd, bindings : [Kind -> [Name -> Binding]]]
          BY DEF Summary
        <5>6. u \in Summary /\ u.last = s.last /\ u.cwd = s.cwd /\ u.bindings = b
          BY <5>1, <5>2, <5>5 DEF Summary
        <5> HIDE DEF u
        <5> QED
          BY <5>3, <5>4, <5>6
      <4>3. CASE ~(s.bindings[k][x].at <= n)
        BY <2>2, <4>3 DEF Bound, ChangesBinding
      <4> QED
        BY <4>2, <4>3
    <3>2. t = ObserveSequence(u, n)
      BY <2>2, <2>4 DEF MutateSummary, RemoveBinding
    <3> HIDE DEF u, t
    <3> QED
      BY <2>3, <3>1, <3>2, ObserveSequenceStep DEF t
  <2>5. CASE ~Capabilities[k]
    <3>1. t = s
      BY <2>2, <2>5 DEF MutateSummary
    <3>2. \A j \in Kind, y \in Name : Bound(s.bindings[j][y], m, j, y, n) = s.bindings[j][y]
      BY <2>2, <2>5 DEF Bound, ChangesBinding
    <3> QED
      BY <1>0, <2>3, <3>1, <3>2
  <2> QED
    BY <2>4, <2>5
<1>4. CASE m = Anchor
  <2>1. m.op = "anchor"
    BY <1>4 DEF Anchor
  <2>2. t = s /\ Cwded(s.cwd, m, n) = s.cwd
    BY <2>1 DEF MutateSummary, Cwded
  <2>3. \A j \in Kind, y \in Name : Bound(s.bindings[j][y], m, j, y, n) = s.bindings[j][y]
    BY <2>1 DEF Bound, ChangesBinding
  <2> QED
    BY <1>0, <2>2, <2>3
<1> QED
  BY <1>1, <1>2, <1>3, <1>4, MutationForms

(* A mutation stamps what it changes with the number it is made at.        *)
LEMMA StampedStep ==
  ASSUME NEW s \in Summary, NEW m \in Mutation, NEW n \in SequenceNo, Stamped(s)
  PROVE  Stamped(MutateSummary(s, m, n))
<1> DEFINE t == MutateSummary(s, m, n)
<1>1. /\ t \in Summary /\ s.last <= t.last
      /\ t.cwd = Cwded(s.cwd, m, n)
      /\ \A k \in Kind, x \in Name : t.bindings[k][x] = Bound(s.bindings[k][x], m, k, x, n)
      /\ (t.cwd # s.cwd \/ t.bindings # s.bindings) => n <= t.last
  BY SummaryStep
<1>2. s.last \in Int /\ t.last \in Int /\ n \in Int /\ -1 <= t.last
  BY <1>1, SummaryParts, MaxSequenceAssumption DEF SequenceNo, Never
<1> HIDE DEF t
<1>3. t.cwd.at <= t.last
  <2>1. CASE t.cwd = s.cwd
    BY <1>1, <1>2, <2>1, SummaryParts DEF Stamped
  <2>2. CASE t.cwd # s.cwd
    BY <1>1, <2>2 DEF Cwded
  <2> QED
    BY <2>1, <2>2
<1>4. ASSUME NEW k \in Kind, NEW x \in Name
      PROVE  t.bindings[k][x].at <= t.last
  <2>1. CASE t.bindings[k][x] = s.bindings[k][x]
    BY <1>1, <1>2, <2>1, SummaryParts DEF Stamped
  <2>2. CASE t.bindings[k][x] # s.bindings[k][x]
    <3>1. n <= t.last
      BY <1>1, <2>2
    <3>2. t.bindings[k][x] = NoBinding \/ t.bindings[k][x] = [value |-> m.value, at |-> n]
      BY <1>1, <2>2 DEF Bound
    <3> QED
      BY <1>2, <3>1, <3>2 DEF NoBinding, Never
  <2> QED
    BY <2>1, <2>2
<1> QED
  BY <1>3, <1>4 DEF Stamped, t

(* The directory of mutation m, observed at n.                             *)
CwdOf(m, n) == [path |-> m.path, at |-> n, source |-> m.source]

(* What a batch does, up to its mutation i.                                *)
LEMMA SummaryRunFacts ==
  ASSUME NEW s \in Summary, NEW ms \in Seq(Mutation), NEW n \in SequenceNo,
         NEW r, SummaryRun(r, s, ms, n)
  PROVE  \A i \in 0..Len(ms) :
           /\ r[i] \in Summary
           /\ r[i].last \in {s.last, n} /\ s.last <= r[i].last
           /\ Stamped(s) => Stamped(r[i])
           /\ r[i].cwd # s.cwd => \E j \in 1..i : ms[j].op = "cwd" /\ r[i].cwd = CwdOf(ms[j], n)
           /\ s.cwd.at <= n =>
                /\ r[i].cwd.at <= n
                /\ \A j \in 1..i : ms[j].op = "cwd" /\ Capabilities.cwd =>
                     \E l \in 1..i : ms[l].op = "cwd" /\ r[i].cwd = CwdOf(ms[l], n)
<1> DEFINE P(i) ==
             /\ r[i] \in Summary
             /\ r[i].last \in {s.last, n} /\ s.last <= r[i].last
             /\ Stamped(s) => Stamped(r[i])
             /\ r[i].cwd # s.cwd => \E j \in 1..i : ms[j].op = "cwd" /\ r[i].cwd = CwdOf(ms[j], n)
             /\ s.cwd.at <= n =>
                  /\ r[i].cwd.at <= n
                  /\ \A j \in 1..i : ms[j].op = "cwd" /\ Capabilities.cwd =>
                       \E l \in 1..i : ms[l].op = "cwd" /\ r[i].cwd = CwdOf(ms[l], n)
           T == {i \in Nat : P(i)}
<1>0. n \in Int /\ SequenceNo \subseteq Int /\ s.last \in Int
  BY SummaryParts, MaxSequenceAssumption DEF SequenceNo
<1>1. P(0)
  <2>1. r[0] = s
    BY DEF SummaryRun
  <2> QED
    BY <1>0, <2>1
<1>2. ASSUME NEW i \in 1..Len(ms), P(i - 1)
      PROVE  P(i)
  <2> DEFINE a == r[i - 1]
             m == ms[i]
  <2>1. m \in Mutation /\ r[i] = MutateSummary(a, m, n) /\ a \in Summary
    BY <1>2 DEF SummaryRun
  <2>2. /\ r[i] \in Summary
        /\ r[i].last \in {a.last, n} /\ a.last <= r[i].last
        /\ r[i].cwd = Cwded(a.cwd, m, n)
    BY <2>1, SummaryStep
  <2>3. Stamped(a) => Stamped(r[i])
    BY <2>1, StampedStep
  <2>4. a.last \in Int /\ r[i].last \in Int /\ a.cwd.at \in Int
    BY <2>1, <2>2, SummaryParts
  <2>5. i - 1 \in 0..Len(ms) /\ 1..i = 1..(i - 1) \union {i}
    OBVIOUS
  <2>6. /\ a.last \in {s.last, n} /\ s.last <= a.last
        /\ Stamped(s) => Stamped(a)
        /\ a.cwd # s.cwd => \E j \in 1..(i - 1) : ms[j].op = "cwd" /\ a.cwd = CwdOf(ms[j], n)
        /\ s.cwd.at <= n =>
             /\ a.cwd.at <= n
             /\ \A j \in 1..(i - 1) : ms[j].op = "cwd" /\ Capabilities.cwd =>
                  \E l \in 1..(i - 1) : ms[l].op = "cwd" /\ a.cwd = CwdOf(ms[l], n)
    BY <1>2
  <2> HIDE DEF a
  <2>7. CASE m.op = "cwd" /\ Capabilities.cwd /\ a.cwd.at <= n
    <3>1. r[i].cwd = CwdOf(ms[i], n) /\ ms[i].op = "cwd" /\ CwdOf(ms[i], n).at = n
      BY <2>2, <2>7 DEF Cwded, CwdOf
    <3> HIDE DEF m
    <3> QED
      BY <1>0, <2>2, <2>3, <2>4, <2>5, <2>6, <3>1
  <2>8. CASE ~(m.op = "cwd" /\ Capabilities.cwd /\ a.cwd.at <= n)
    <3>1. r[i].cwd = a.cwd
      BY <2>2, <2>8 DEF Cwded
    <3>2. r[i].last \in {s.last, n} /\ s.last <= r[i].last
      BY <1>0, <2>2, <2>4, <2>6
    <3>3. r[i].cwd # s.cwd => \E j \in 1..i : ms[j].op = "cwd" /\ r[i].cwd = CwdOf(ms[j], n)
      BY <2>5, <2>6, <3>1
    <3>4. ASSUME s.cwd.at <= n, NEW j \in 1..i, ms[j].op = "cwd", Capabilities.cwd
          PROVE  \E l \in 1..i : ms[l].op = "cwd" /\ r[i].cwd = CwdOf(ms[l], n)
      <4>1. j \in 1..(i - 1)
        BY <2>6, <2>8, <3>4
      <4> HIDE DEF m
      <4> QED
        BY <2>5, <2>6, <3>1, <3>4, <4>1
    <3>5. s.cwd.at <= n => r[i].cwd.at <= n
      BY <2>6, <3>1
    <3> HIDE DEF m
    <3> QED
      BY <2>2, <2>3, <2>6, <3>2, <3>3, <3>4, <3>5
  <2> QED
    BY <2>7, <2>8
<1> HIDE DEF P
<1>3. 0 \in T /\ Len(ms) \in Nat /\ T \in SUBSET Nat
  BY <1>1
<1>4. \A i \in 1..Len(ms) : i - 1 \in T => i \in T
  BY <1>2
<1> HIDE DEF T
<1>5. \A i \in 0..Len(ms) : i \in T
  BY <1>3, <1>4, IntervalInduction
<1> QED
  BY <1>5 DEF T, P

(* What becomes of a binding, up to mutation i: the last change of it      *)
(* counts.                                                                 *)
LEMMA BindingRunFacts ==
  ASSUME NEW s \in Summary, NEW ms \in Seq(Mutation), NEW n \in SequenceNo,
         NEW r, SummaryRun(r, s, ms, n),
         NEW k \in Kind, NEW x \in Name, Capabilities[k], s.bindings[k][x].at <= n
  PROVE  \A i \in 0..Len(ms) :
           /\ r[i].bindings[k][x].at <= n
           /\ \/ /\ \A j \in 1..i : ~ChangesBinding(ms[j], k, x)
                 /\ r[i].bindings[k][x] = s.bindings[k][x]
              \/ \E j \in 1..i :
                   /\ ChangesBinding(ms[j], k, x)
                   /\ \A l \in (j + 1)..i : ~ChangesBinding(ms[l], k, x)
                   /\ r[i].bindings[k][x].value = Outcome(ms[j])
<1> DEFINE P(i) ==
             /\ r[i].bindings[k][x].at <= n
             /\ \/ /\ \A j \in 1..i : ~ChangesBinding(ms[j], k, x)
                   /\ r[i].bindings[k][x] = s.bindings[k][x]
                \/ \E j \in 1..i :
                     /\ ChangesBinding(ms[j], k, x)
                     /\ \A l \in (j + 1)..i : ~ChangesBinding(ms[l], k, x)
                     /\ r[i].bindings[k][x].value = Outcome(ms[j])
           T == {i \in Nat : P(i)}
<1>1. P(0)
  <2>1. r[0] = s
    BY DEF SummaryRun
  <2> QED
    BY <2>1
<1>2. ASSUME NEW i \in 1..Len(ms), P(i - 1)
      PROVE  P(i)
  <2> DEFINE a == r[i - 1].bindings[k][x]
             b == r[i].bindings[k][x]
  <2>1. ms[i] \in Mutation /\ r[i] = MutateSummary(r[i - 1], ms[i], n) /\ r[i - 1] \in Summary
    BY <1>2, SummaryRunFacts, i - 1 \in 0..Len(ms) DEF SummaryRun
  <2>2. b = Bound(a, ms[i], k, x, n)
    BY <2>1, SummaryStep
  <2>3. n \in Int /\ n <= n /\ -1 <= n
    BY MaxSequenceAssumption DEF SequenceNo
  <2>4. /\ a.at <= n
        /\ \/ /\ \A j \in 1..(i - 1) : ~ChangesBinding(ms[j], k, x)
              /\ a = s.bindings[k][x]
           \/ \E j \in 1..(i - 1) :
                /\ ChangesBinding(ms[j], k, x)
                /\ \A l \in (j + 1)..(i - 1) : ~ChangesBinding(ms[l], k, x)
                /\ a.value = Outcome(ms[j])
    BY <1>2
  <2>5. 1..i = 1..(i - 1) \union {i} /\ (i + 1)..i = {} /\ i \in 1..i
    OBVIOUS
  <2> HIDE DEF a, b
  <2>6. CASE ChangesBinding(ms[i], k, x)
    <3>1. b = IF ms[i].op = "bind" THEN [value |-> ms[i].value, at |-> n] ELSE NoBinding
      BY <2>2, <2>4, <2>6 DEF Bound
    <3>2. b.at <= n /\ b.value = Outcome(ms[i])
      BY <2>3, <3>1 DEF NoBinding, Never, Outcome
    <3> QED
      BY <2>5, <2>6, <3>2 DEF b
  <2>7. CASE ~ChangesBinding(ms[i], k, x)
    <3>1. b = a
      BY <2>2, <2>7 DEF Bound
    <3>2. CASE /\ \A j \in 1..(i - 1) : ~ChangesBinding(ms[j], k, x)
               /\ a = s.bindings[k][x]
      BY <2>4, <2>5, <2>7, <3>1, <3>2 DEF b
    <3>3. CASE \E j \in 1..(i - 1) :
                 /\ ChangesBinding(ms[j], k, x)
                 /\ \A l \in (j + 1)..(i - 1) : ~ChangesBinding(ms[l], k, x)
                 /\ a.value = Outcome(ms[j])
      <4>1. PICK j \in 1..(i - 1) :
                 /\ ChangesBinding(ms[j], k, x)
                 /\ \A l \in (j + 1)..(i - 1) : ~ChangesBinding(ms[l], k, x)
                 /\ a.value = Outcome(ms[j])
        BY <3>3
      <4>2. j \in 1..i /\ \A l \in (j + 1)..i : l = i \/ l \in (j + 1)..(i - 1)
        OBVIOUS
      <4>3. \A l \in (j + 1)..i : ~ChangesBinding(ms[l], k, x)
        BY <2>7, <4>1, <4>2
      <4> QED
        BY <2>4, <3>1, <4>1, <4>2, <4>3 DEF b
    <3> QED
      BY <2>4, <3>2, <3>3
  <2> QED
    BY <2>6, <2>7
<1> HIDE DEF P
<1>3. 0 \in T /\ Len(ms) \in Nat /\ T \in SUBSET Nat
  BY <1>1
<1>4. \A i \in 1..Len(ms) : i - 1 \in T => i \in T
  BY <1>2
<1> HIDE DEF T
<1>5. \A i \in 0..Len(ms) : i \in T
  BY <1>3, <1>4, IntervalInduction
<1> QED
  BY <1>5 DEF T, P

-----------------------------------------------------------------------------
(* The graph.                                                              *)

(* The parts of a graph.                                                   *)
LEMMA GraphParts ==
  ASSUME NEW g \in Graph(Command)
  PROVE  /\ g.requests \in [SequenceNo -> Command \union {NoCommand}]
         /\ g.anchors \in SUBSET SequenceNo
         /\ g.directories \in [SequenceNo -> Directory \union {NoPath}]
         /\ g.functions \in [Name -> [SequenceNo -> Value \union {Unset}]]
BY DEF Graph

(* What one mutation adds: a node that is there stays as it is.            *)
AddedBy(m, n, g, h) ==
  /\ h \in Graph(Command)
  /\ h.requests = g.requests
  /\ h.anchors = IF m = Anchor THEN g.anchors \union {n} ELSE g.anchors
  /\ \A l \in SequenceNo :
       h.directories[l] = IF m.op = "cwd" /\ l = n /\ g.directories[l] = NoPath
                            THEN m.path ELSE g.directories[l]
  /\ \A x \in Name, l \in SequenceNo :
       h.functions[x][l] =
         IF /\ m.op = "bind" /\ m.kind = "function" /\ m.name = x
            /\ l = n /\ g.functions[x][l] = Unset
           THEN m.value ELSE g.functions[x][l]

LEMMA GraphStep ==
  ASSUME NEW g \in Graph(Command), NEW m \in Mutation, NEW n \in SequenceNo
  PROVE  AddedBy(m, n, g, MutateGraph(g, m, n))
<1> DEFINE h == MutateGraph(g, m, n)
<1> SUFFICES AddedBy(m, n, g, h)
  OBVIOUS
<1> USE DEF AddedBy
<1>0. g \in [requests    : [SequenceNo -> Command \union {NoCommand}],
             anchors     : SUBSET SequenceNo,
             directories : [SequenceNo -> Directory \union {NoPath}],
             functions   : [Name -> [SequenceNo -> Value \union {Unset}]]]
  BY DEF Graph
<1>1. CASE m = Anchor
  <2>1. m.op = "anchor"
    BY <1>1 DEF Anchor
  <2>2. h = [g EXCEPT !.anchors = g.anchors \union {n}]
    BY <2>1 DEF MutateGraph
  <2>3. h \in Graph(Command)
    BY <1>0, <2>2 DEF Graph
  <2>4. /\ h.requests = g.requests /\ h.directories = g.directories
        /\ h.functions = g.functions /\ h.anchors = g.anchors \union {n}
    BY <1>0, <2>2
  <2> QED
    BY <1>1, <2>1, <2>3, <2>4
<1>2. CASE \E d \in Directory, src \in Source : m = SetCwd(d, src)
  <2>1. PICK d \in Directory, src \in Source : m = SetCwd(d, src)
    BY <1>2
  <2>2. m.op = "cwd" /\ m.path = d /\ m # Anchor
    BY <2>1 DEF SetCwd, Anchor
  <2>3. CASE g.directories[n] = NoPath
    <3> DEFINE b == [g.directories EXCEPT ![n] = d]
    <3>1. h = [g EXCEPT !.directories = b]
      BY <2>2, <2>3 DEF MutateGraph
    <3>2. b \in [SequenceNo -> Directory \union {NoPath}]
      BY <1>0
    <3>3. \A l \in SequenceNo : b[l] = IF l = n THEN d ELSE g.directories[l]
      BY <1>0
    <3> HIDE DEF b
    <3>4. h \in Graph(Command) /\ h.directories = b /\ h.requests = g.requests
          /\ h.anchors = g.anchors /\ h.functions = g.functions
      BY <1>0, <3>1, <3>2 DEF Graph
    <3> QED
      BY <2>2, <2>3, <3>3, <3>4
  <2>4. CASE g.directories[n] # NoPath
    <3>1. h = g
      BY <2>2, <2>4 DEF MutateGraph, HasNode
    <3> QED
      BY <2>2, <2>4, <3>1
  <2> QED
    BY <2>3, <2>4
<1>3. CASE \E k \in Kind, x \in Name, v \in Value : m = Bind(k, x, v)
  <2>1. PICK k \in Kind, x \in Name, v \in Value : m = Bind(k, x, v)
    BY <1>3
  <2>2. m.op = "bind" /\ m.kind = k /\ m.name = x /\ m.value = v /\ m # Anchor
    BY <2>1 DEF Bind, Anchor
  <2>3. CASE k = "function" /\ g.functions[x][n] = Unset
    <3> DEFINE b == [g.functions EXCEPT ![x] = [g.functions[x] EXCEPT ![n] = v]]
    <3>1. h = [g EXCEPT !.functions = b]
      BY <2>2, <2>3 DEF MutateGraph, HasNode
    <3>2. b \in [Name -> [SequenceNo -> Value \union {Unset}]]
      BY <1>0
    <3>3. \A y \in Name, l \in SequenceNo :
            b[y][l] = IF y = x /\ l = n THEN v ELSE g.functions[y][l]
      BY <1>0
    <3> HIDE DEF b
    <3>4. h \in Graph(Command) /\ h.functions = b /\ h.requests = g.requests
          /\ h.anchors = g.anchors /\ h.directories = g.directories
      BY <1>0, <3>1, <3>2 DEF Graph
    <3> QED
      BY <2>2, <2>3, <3>3, <3>4
  <2>4. CASE ~(k = "function" /\ g.functions[x][n] = Unset)
    <3>1. h = g
      BY <2>2, <2>4 DEF MutateGraph, HasNode
    <3> QED
      BY <2>2, <2>4, <3>1
  <2> QED
    BY <2>3, <2>4
<1>4. CASE \E k \in Kind, x \in Name : m = Unbind(k, x)
  <2>1. m.op = "unbind" /\ m # Anchor
    BY <1>4 DEF Unbind, Anchor
  <2>2. h = g
    BY <2>1 DEF MutateGraph, HasNode
  <2> QED
    BY <2>1, <2>2
<1> QED
  BY <1>1, <1>2, <1>3, <1>4, MutationForms

(* What a batch adds, up to its mutation i.                                *)
LEMMA GraphRunFacts ==
  ASSUME NEW g \in Graph(Command), NEW ms \in Seq(Mutation), NEW n \in SequenceNo,
         NEW r, GraphRun(r, g, ms, n)
  PROVE  \A i \in 0..Len(ms) :
           /\ r[i] \in Graph(Command)
           /\ r[i].requests = g.requests
           /\ \A l \in r[i].anchors \ g.anchors : l = n /\ \E j \in 1..i : ms[j] = Anchor
           /\ \A l \in SequenceNo :
                r[i].directories[l] # g.directories[l] =>
                  /\ l = n
                  /\ \E j \in 1..i, src \in Source : ms[j] = SetCwd(r[i].directories[l], src)
           /\ \A j \in 1..i : ms[j].op = "cwd" => r[i].directories[n] # NoPath
           /\ g.directories[n] # NoPath => r[i].directories[n] = g.directories[n]
           /\ \A x \in Name, l \in SequenceNo :
                r[i].functions[x][l] # g.functions[x][l] =>
                  /\ l = n
                  /\ \E j \in 1..i : ms[j] = Bind("function", x, r[i].functions[x][l])
<1> DEFINE P(i) ==
           /\ r[i] \in Graph(Command)
           /\ r[i].requests = g.requests
           /\ \A l \in r[i].anchors \ g.anchors : l = n /\ \E j \in 1..i : ms[j] = Anchor
           /\ \A l \in SequenceNo :
                r[i].directories[l] # g.directories[l] =>
                  /\ l = n
                  /\ \E j \in 1..i, src \in Source : ms[j] = SetCwd(r[i].directories[l], src)
           /\ \A j \in 1..i : ms[j].op = "cwd" => r[i].directories[n] # NoPath
           /\ g.directories[n] # NoPath => r[i].directories[n] = g.directories[n]
           /\ \A x \in Name, l \in SequenceNo :
                r[i].functions[x][l] # g.functions[x][l] =>
                  /\ l = n
                  /\ \E j \in 1..i : ms[j] = Bind("function", x, r[i].functions[x][l])
           T == {i \in Nat : P(i)}
<1>1. P(0)
  <2>1. r[0] = g
    BY DEF GraphRun
  <2> QED
    BY <2>1
<1>2. ASSUME NEW i \in 1..Len(ms), P(i - 1)
      PROVE  P(i)
  <2> DEFINE a == r[i - 1]
             b == r[i]
             m == ms[i]
  <2>1. m \in Mutation /\ b = MutateGraph(a, m, n) /\ a \in Graph(Command)
    BY <1>2 DEF GraphRun
  <2>2. AddedBy(m, n, a, b)
    <3> HIDE DEF P, a, b, m
    <3> QED
      BY <2>1, GraphStep
  <2>3. /\ a.requests = g.requests
        /\ \A l \in a.anchors \ g.anchors : l = n /\ \E j \in 1..(i - 1) : ms[j] = Anchor
        /\ \A l \in SequenceNo :
             a.directories[l] # g.directories[l] =>
               /\ l = n
               /\ \E j \in 1..(i - 1), src \in Source : ms[j] = SetCwd(a.directories[l], src)
        /\ \A j \in 1..(i - 1) : ms[j].op = "cwd" => a.directories[n] # NoPath
        /\ g.directories[n] # NoPath => a.directories[n] = g.directories[n]
        /\ \A x \in Name, l \in SequenceNo :
             a.functions[x][l] # g.functions[x][l] =>
               /\ l = n
               /\ \E j \in 1..(i - 1) : ms[j] = Bind("function", x, a.functions[x][l])
    BY <1>2
  <2>4. 1..i = 1..(i - 1) \union {i} /\ i \in 1..i
    OBVIOUS
  <2>5. m.op = "cwd" => m.path \in Directory /\ \E src \in Source : m = SetCwd(m.path, src)
    <3>1. CASE \E d \in Directory, src \in Source : m = SetCwd(d, src)
      BY <3>1 DEF SetCwd
    <3>2. CASE ~\E d \in Directory, src \in Source : m = SetCwd(d, src)
      BY <2>1, <3>2, MutationForms DEF Bind, Unbind, Anchor
    <3> QED
      BY <3>1, <3>2
  <2>6. m.op = "bind" => m = Bind(m.kind, m.name, m.value)
    <3>1. CASE \E k \in Kind, x \in Name, v \in Value : m = Bind(k, x, v)
      BY <3>1 DEF Bind
    <3>2. CASE ~\E k \in Kind, x \in Name, v \in Value : m = Bind(k, x, v)
      BY <2>1, <3>2, MutationForms DEF SetCwd, Unbind, Anchor
    <3> QED
      BY <3>1, <3>2
  <2> HIDE DEF a, b
  <2> USE DEF AddedBy
  <2>7. \A l \in b.anchors \ g.anchors : l = n /\ \E j \in 1..i : ms[j] = Anchor
    BY <2>2, <2>3, <2>4
  <2>8. ASSUME NEW l \in SequenceNo, b.directories[l] # g.directories[l]
        PROVE  /\ l = n
               /\ \E j \in 1..i, src \in Source : ms[j] = SetCwd(b.directories[l], src)
    <3>1. CASE b.directories[l] = a.directories[l]
      BY <2>3, <2>4, <2>8, <3>1
    <3>2. CASE b.directories[l] # a.directories[l]
      BY <2>2, <2>4, <2>5, <3>2
    <3> QED
      BY <3>1, <3>2
  <2>9. \A j \in 1..i : ms[j].op = "cwd" => b.directories[n] # NoPath
    BY <2>2, <2>3, <2>4, <2>5, NonesAssumption
  <2>10. ASSUME NEW x \in Name, NEW l \in SequenceNo, b.functions[x][l] # g.functions[x][l]
         PROVE  /\ l = n
                /\ \E j \in 1..i : ms[j] = Bind("function", x, b.functions[x][l])
    <3>1. CASE b.functions[x][l] = a.functions[x][l]
      BY <2>3, <2>4, <2>10, <3>1
    <3>2. CASE b.functions[x][l] # a.functions[x][l]
      BY <2>2, <2>4, <2>6, <3>2
    <3> QED
      BY <3>1, <3>2
  <2>11. g.directories[n] # NoPath => b.directories[n] = g.directories[n]
    BY <2>2, <2>3
  <2> QED
    BY <2>2, <2>3, <2>7, <2>8, <2>9, <2>10, <2>11 DEF b
<1> HIDE DEF P
<1>3. 0 \in T /\ Len(ms) \in Nat /\ T \in SUBSET Nat
  BY <1>1
<1>4. \A i \in 1..Len(ms) : i - 1 \in T => i \in T
  BY <1>2
<1> HIDE DEF T
<1>5. \A i \in 0..Len(ms) : i \in T
  BY <1>3, <1>4, IntervalInduction
<1> QED
  BY <1>5 DEF T, P

-----------------------------------------------------------------------------
(* Replaying is a run over the events.                                     *)

Beginning == [ok |-> TRUE, state |-> NewSession]

ReplayFunction(f, k, events) ==
  f = [i \in 0..k |-> IF i = 0 THEN Beginning ELSE ApplyIfPossible(f[i - 1], events[i])]

LEMMA ReplayFunctionExists ==
  ASSUME NEW events \in Seq(Event)
  PROVE  \E f : ReplayFunction(f, Len(events), events)
<1> DEFINE T == {k \in Nat : \E f : ReplayFunction(f, k, events)}
<1>1. 0 \in T
  <2>1. ReplayFunction([i \in 0..0 |-> Beginning], 0, events)
    <3>1. \A i \in 0..0 : i = 0
      OBVIOUS
    <3> QED
      BY <3>1 DEF ReplayFunction
  <2> QED
    BY <2>1
<1>2. ASSUME NEW k \in 1..Len(events), k - 1 \in T
      PROVE  k \in T
  <2>1. PICK f : ReplayFunction(f, k - 1, events)
    BY <1>2
  <2> DEFINE g == [i \in 0..k |->
                     IF i = k THEN ApplyIfPossible(f[k - 1], events[k]) ELSE f[i]]
  <2>2. ASSUME NEW i \in 0..k
        PROVE  g[i] = IF i = 0 THEN Beginning ELSE ApplyIfPossible(g[i - 1], events[i])
    <3>1. CASE i = k
      <4>1. g[i] = ApplyIfPossible(f[k - 1], events[k]) /\ g[i - 1] = f[k - 1] /\ i # 0
        BY <3>1
      <4> HIDE DEF g
      <4> QED
        BY <3>1, <4>1
    <3>2. CASE i # k
      <4>1. g[i] = f[i] /\ i \in 0..(k - 1) /\ (i # 0 => g[i - 1] = f[i - 1])
        BY <3>2
      <4>2. f[i] = IF i = 0 THEN Beginning ELSE ApplyIfPossible(f[i - 1], events[i])
        BY <2>1, <4>1 DEF ReplayFunction
      <4> HIDE DEF g
      <4> QED
        BY <4>1, <4>2
    <3> QED
      BY <3>1, <3>2
  <2>3. g = [i \in 0..k |-> g[i]]
    OBVIOUS
  <2> HIDE DEF g
  <2>4. ReplayFunction(g, k, events)
    BY <2>2, <2>3 DEF ReplayFunction
  <2> QED
    BY <2>4
<1>3. Len(events) \in Nat /\ T \in SUBSET Nat
  OBVIOUS
<1> HIDE DEF T
<1>4. \A k \in 0..Len(events) : k \in T
  BY <1>1, <1>2, <1>3, IntervalInduction
<1> QED
  BY <1>3, <1>4 DEF T

ReplayRun(r, events) ==
  /\ r[0] = Beginning
  /\ \A i \in 1..Len(events) : r[i] = ApplyIfPossible(r[i - 1], events[i])

LEMMA ReplayIsRun ==
  ASSUME NEW events \in Seq(Event)
  PROVE  \E r : ReplayRun(r, events) /\ Replay(events) = r[Len(events)]
<1> DEFINE it == CHOOSE f : ReplayFunction(f, Len(events), events)
<1>1. ReplayFunction(it, Len(events), events)
  BY ReplayFunctionExists
<1>2. Replay(events) = it[Len(events)]
  BY DEF Replay, ReplayFunction, Beginning
<1> HIDE DEF it
<1>3. it[0] = Beginning
  BY <1>1 DEF ReplayFunction
<1>4. ASSUME NEW i \in 1..Len(events)
      PROVE  it[i] = ApplyIfPossible(it[i - 1], events[i])
  <2>1. i \in 0..Len(events) /\ i # 0
    OBVIOUS
  <2> QED
    BY <1>1, <2>1 DEF ReplayFunction
<1> QED
  BY <1>2, <1>3, <1>4 DEF ReplayRun

(* The run over more events goes on where the run over fewer ends.         *)
LEMMA ReplayRunPrefix ==
  ASSUME NEW a \in Seq(Event), NEW b \in Seq(Event), NEW r, NEW s,
         ReplayRun(r, a), ReplayRun(s, a \o b)
  PROVE  \A i \in 0..Len(a) : s[i] = r[i]
<1> DEFINE T == {i \in Nat : s[i] = r[i]}
<1>1. 0 \in T
  BY DEF ReplayRun
<1>2. ASSUME NEW i \in 1..Len(a), i - 1 \in T
      PROVE  i \in T
  <2>1. (a \o b)[i] = a[i] /\ i \in 1..Len(a \o b)
    OBVIOUS
  <2>2. s[i - 1] = r[i - 1]
    BY <1>2
  <2>3. s[i] = ApplyIfPossible(s[i - 1], a[i])
    BY <2>1 DEF ReplayRun
  <2>4. r[i] = ApplyIfPossible(r[i - 1], a[i])
    BY DEF ReplayRun
  <2> QED
    BY <2>2, <2>3, <2>4
<1>3. Len(a) \in Nat /\ T \in SUBSET Nat
  OBVIOUS
<1> HIDE DEF T
<1>4. \A i \in 0..Len(a) : i \in T
  BY <1>1, <1>2, <1>3, IntervalInduction
<1> QED
  BY <1>4 DEF T

LEMMA ReplayNil == Replay(<<>>) = Beginning
<1>1. <<>> \in Seq(Event) /\ Len(<<>>) = 0
  OBVIOUS
<1> QED
  BY <1>1, ReplayIsRun DEF ReplayRun

LEMMA ReplayAppend ==
  ASSUME NEW events \in Seq(Event), NEW e \in Event
  PROVE  Replay(Append(events, e)) = ApplyIfPossible(Replay(events), e)
<1>1. /\ <<e>> \in Seq(Event) /\ Append(events, e) = events \o <<e>>
      /\ Append(events, e) \in Seq(Event) /\ Len(Append(events, e)) = Len(events) + 1
      /\ Append(events, e)[Len(events) + 1] = e /\ Len(events) \in Nat
  OBVIOUS
<1>2. PICK r : ReplayRun(r, events) /\ Replay(events) = r[Len(events)]
  BY ReplayIsRun
<1>3. PICK s : ReplayRun(s, Append(events, e)) /\ Replay(Append(events, e)) = s[Len(events) + 1]
  BY <1>1, ReplayIsRun
<1>4. \A i \in 0..Len(events) : s[i] = r[i]
  <2> DEFINE b == <<e>>
  <2>1. ReplayRun(s, events \o b) /\ b \in Seq(Event)
    BY <1>1, <1>3
  <2> HIDE DEF b
  <2> QED
    BY <1>2, <2>1, ReplayRunPrefix
<1>5. s[Len(events)] = Replay(events)
  BY <1>1, <1>2, <1>4
<1>6. /\ Len(events) + 1 \in 1..Len(Append(events, e))
      /\ (Len(events) + 1) - 1 = Len(events)
  BY <1>1
<1> QED
  BY <1>1, <1>3, <1>5, <1>6 DEF ReplayRun

(* If all events can be applied, so can the first of them.                 *)
LEMMA ReplayOkPrefix ==
  ASSUME NEW a \in Seq(Event), NEW b \in Seq(Event), Replay(a \o b).ok
  PROVE  Replay(a).ok
<1>1. a \o b \in Seq(Event) /\ Len(a \o b) = Len(a) + Len(b) /\ Len(a) \in Nat /\ Len(b) \in Nat
  OBVIOUS
<1>2. PICK r : ReplayRun(r, a) /\ Replay(a) = r[Len(a)]
  BY ReplayIsRun
<1>3. PICK s : ReplayRun(s, a \o b) /\ Replay(a \o b) = s[Len(a \o b)]
  BY <1>1, ReplayIsRun
<1>4. \A i \in 0..Len(a) : s[i] = r[i]
  BY <1>2, <1>3, ReplayRunPrefix
<1> DEFINE T == {j \in Nat : s[Len(a \o b) - j].ok}
<1>5. 0 \in T
  BY <1>1, <1>3
<1>6. ASSUME NEW j \in 1..Len(b), j - 1 \in T
      PROVE  j \in T
  <2> DEFINE i == Len(a \o b) - (j - 1)
  <2>1. i \in 1..Len(a \o b) /\ i - 1 = Len(a \o b) - j /\ s[i].ok
    BY <1>1, <1>6
  <2>2. s[i] = ApplyIfPossible(s[i - 1], (a \o b)[i])
    BY <1>3, <2>1 DEF ReplayRun
  <2>3. s[i - 1].ok
    <3> DEFINE before == s[i - 1]
               event == (a \o b)[i]
    <3>1. CASE before.ok
      BY <3>1
    <3>2. CASE ~before.ok
      <4>1. s[i] = [before EXCEPT !.ok = FALSE]
        BY <2>2, <3>2 DEF ApplyIfPossible
      <4> QED
        BY <2>1, <3>2, <4>1
    <3> QED
      BY <3>1, <3>2
  <2> QED
    BY <2>1, <2>3
<1> HIDE DEF T
<1>7. \A j \in 0..Len(b) : j \in T
  BY <1>1, <1>5, <1>6, IntervalInduction, T \in SUBSET Nat DEF T
<1>8. s[Len(a)].ok
  BY <1>1, <1>7 DEF T
<1> QED
  BY <1>1, <1>2, <1>4, <1>8

-----------------------------------------------------------------------------
(* Types.                                                                  *)

(* SetToSeq lists exactly the elements of a finite set.                    *)
LEMMA SetToSeqFacts ==
  ASSUME NEW T, NEW S \in SUBSET T, IsFiniteSet(S)
  PROVE  /\ SetToSeq(S) \in Seq(T)
         /\ \A i \in DOMAIN SetToSeq(S) : SetToSeq(S)[i] \in S
         /\ \A x \in S : \E i \in DOMAIN SetToSeq(S) : SetToSeq(S)[i] = x
         /\ DOMAIN SetToSeq(S) = 1..Len(SetToSeq(S))
<1>1. PICK n \in Nat : ExistsBijection(1..n, S)
  BY FS_NatBijection
<1>2. Cardinality(S) = n
  BY <1>1, FS_CountingElements
<1>3. PICK g \in Bijection(1..n, S) : TRUE
  BY <1>1 DEF ExistsBijection
<1>4. g \in [1..n -> S] /\ IsInjective(g)
  BY <1>3 DEF Bijection, Injection, IsInjective
<1> DEFINE f == SetToSeq(S)
<1>5. f \in [1..n -> S] /\ IsInjective(f)
  BY <1>2, <1>4 DEF SetToSeq
<1> HIDE DEF f
<1>6. f \in Injection(1..n, S)
  BY <1>5 DEF Injection, IsInjective
<1>7. f \in Surjection(1..n, S)
  <2>1. IsFiniteSet(1..n) /\ Cardinality(1..n) = n
    BY FS_Interval
  <2> QED
    BY <1>2, <1>6, <2>1, FS_Injection
<1>8. \A x \in S : \E i \in 1..n : f[i] = x
  BY <1>7 DEF Surjection
<1>9. f \in Seq(T) /\ DOMAIN f = 1..n /\ Len(f) = n
  BY <1>5
<1> QED
  BY <1>5, <1>8, <1>9 DEF f

LEMMA EventParts ==
  ASSUME NEW e \in Event
  PROVE  /\ e.seq \in SequenceNo /\ e.mutations \in Seq(Mutation)
         /\ e.kind \in {"check", "delta"}
         /\ e.kind = "check" =>
              e.command \in Command /\ e.report \in ReportType /\ e.allowed \in BOOLEAN
BY ReportAssumption DEF Event

LEMMA ReportParts ==
  ASSUME NEW report \in ReportType
  PROVE  /\ report.cwd \in Directory
         /\ report.known \in BOOLEAN
         /\ report.values \in [Kind -> [Name -> Value \union {Unset}]]
         /\ \A k \in Kind, x \in Name : report.values[k][x] \in Value \union {Unset}
BY DEF ReportType

(* A report has finitely many bindings, each a possible mutation if it has *)
(* a value, and at most one of each variable and function.                 *)
LEMMA ReportIsFinite ==
  ASSUME NEW report \in ReportType
  PROVE  /\ IsFiniteSet(ReportedBindings(report))
         /\ \A b \in ReportedBindings(report) :
              /\ b.kind \in Kind /\ b.name \in Name /\ b.op = "bind"
              /\ Capabilities[b.kind] /\ report.known
              /\ b = Bind(b.kind, b.name, report.values[b.kind][b.name])
              /\ b.value = report.values[b.kind][b.name]
         /\ \A k \in Kind, x \in Name : Capabilities[k] /\ report.known =>
              Bind(k, x, report.values[k][x]) \in ReportedBindings(report)
         /\ Reported(report) \in SUBSET Change
         /\ IsFiniteSet(Reported(report))
<1> DEFINE K == {kind \in Kind : Capabilities[kind] /\ report.known}
           f == [p \in K \X Name |-> Bind(p[1], p[2], report.values[p[1]][p[2]])]
<1>1. IsFiniteSet(K)
  <2>1. IsFiniteSet({"function"}) /\ Kind = {"function"} \cup {"variable"}
    BY FS_Singleton DEF Kind
  <2>2. IsFiniteSet(Kind)
    BY <2>1, FS_AddElement
  <2> QED
    BY <2>2, FS_Subset, K \in SUBSET Kind
<1>2. IsFiniteSet(K \X Name)
  BY <1>1, NameAssumption, FS_Product
<1>3. f \in Surjection(K \X Name, ReportedBindings(report))
  <2>1. \A p \in K \X Name : f[p] \in ReportedBindings(report)
    BY DEF ReportedBindings
  <2>2. ASSUME NEW b \in ReportedBindings(report)
        PROVE  \E p \in K \X Name : f[p] = b
    <3>1. PICK k \in K, x \in Name : b = Bind(k, x, report.values[k][x])
      BY DEF ReportedBindings
    <3>2. <<k, x>> \in K \X Name /\ f[<<k, x>>] = b
      BY <3>1
    <3> QED
      BY <3>2
  <2> QED
    BY <2>1, <2>2 DEF Surjection
<1>4. IsFiniteSet(ReportedBindings(report))
  BY <1>2, <1>3, FS_Surjection
<1>5. ASSUME NEW b \in ReportedBindings(report)
      PROVE  /\ b.kind \in Kind /\ b.name \in Name /\ b.op = "bind"
             /\ Capabilities[b.kind] /\ report.known
             /\ b = Bind(b.kind, b.name, report.values[b.kind][b.name])
             /\ b.value = report.values[b.kind][b.name]
             /\ b.value # Unset => b \in Change
  <2>1. PICK k \in K, x \in Name : b = Bind(k, x, report.values[k][x])
    BY DEF ReportedBindings
  <2>2. b.op = "bind" /\ b.kind = k /\ b.name = x /\ b.value = report.values[k][x]
    BY <2>1 DEF Bind
  <2>3. report.values[k][x] \in Value \union {Unset}
    BY ReportParts
  <2> QED
    BY <2>1, <2>2, <2>3 DEF Change
<1>6. \A k \in Kind, x \in Name : Capabilities[k] /\ report.known =>
        Bind(k, x, report.values[k][x]) \in ReportedBindings(report)
  BY DEF ReportedBindings
<1>7. Reported(report) \in SUBSET Change
  BY <1>5 DEF Reported
<1>8. Reported(report) \in SUBSET ReportedBindings(report)
  BY DEF Reported
<1>9. IsFiniteSet(Reported(report))
  BY <1>4, <1>8, FS_Subset
<1> QED
  BY <1>4, <1>5, <1>6, <1>7, <1>9

(* The batch of mutations that sets what held before the first request.    *)
Seeding(report) == <<SetCwd(report.cwd, "runtime")>> \o SetToSeq(Reported(report))

LEMMA SeedingFacts ==
  ASSUME NEW report \in ReportType
  PROVE  /\ Seeding(report) \in Seq(Mutation)
         /\ Len(Seeding(report)) \in Nat \ {0}
         /\ Seeding(report)[1] = SetCwd(report.cwd, "runtime")
         /\ \A i \in 1..Len(Seeding(report)) : i # 1 => Seeding(report)[i] \in Reported(report)
         /\ \A b \in Reported(report) : \E i \in 1..Len(Seeding(report)) : Seeding(report)[i] = b
<1> DEFINE head == SetCwd(report.cwd, "runtime")
           tail == SetToSeq(Reported(report))
           S == Reported(report)
<1>1. head \in Mutation
  BY ReportParts DEF Mutation, Source
<1>2. S \in SUBSET Mutation /\ IsFiniteSet(S)
  BY ReportIsFinite DEF Mutation
<1> HIDE DEF S, head
<1>3. /\ SetToSeq(S) \in Seq(Mutation)
      /\ \A i \in DOMAIN SetToSeq(S) : SetToSeq(S)[i] \in S
      /\ \A x \in S : \E i \in DOMAIN SetToSeq(S) : SetToSeq(S)[i] = x
  BY <1>2, SetToSeqFacts
<1>4. tail \in Seq(Mutation) /\ \A i \in 1..Len(tail) : tail[i] \in S
  BY <1>3 DEF S
<1>5. \A x \in S : \E i \in 1..Len(tail) : tail[i] = x
  BY <1>3, <1>4 DEF S
<1> HIDE DEF tail
<1> DEFINE ms == <<head>> \o tail
<1>6. /\ ms \in Seq(Mutation) /\ Len(ms) = Len(tail) + 1 /\ ms[1] = head
      /\ \A i \in 2..Len(ms) : ms[i] = tail[i - 1] /\ i - 1 \in 1..Len(tail)
      /\ \A i \in 1..Len(tail) : ms[i + 1] = tail[i] /\ i + 1 \in 1..Len(ms)
  BY <1>1, <1>4
<1>7. Seeding(report) = ms
  BY DEF Seeding, head, tail, S
<1> HIDE DEF ms
<1>8. Len(tail) \in Nat
  BY <1>4
<1>9. \A i \in 1..Len(ms) : i # 1 => i \in 2..Len(ms)
  BY <1>6, <1>8
<1>10. \A i \in 1..Len(ms) : i # 1 => ms[i] \in S
  BY <1>4, <1>6, <1>9
<1>11. \A b \in S : \E i \in 1..Len(ms) : ms[i] = b
  BY <1>5, <1>6
<1> QED
  BY <1>6, <1>7, <1>8, <1>10, <1>11 DEF head, S

(* What the seed of a request's report leaves.                             *)
SeededFrom(s, report, n, t) ==
  /\ t \in Summary /\ Stamped(t)
  /\ s.last <= t.last /\ t.last \in {s.last, 0, n}
  /\ \/ t.cwd = s.cwd
     \/ t.cwd.path = report.cwd /\ t.cwd.source = "runtime"
  /\ (Capabilities.cwd /\ s.cwd = NoCwd) => t.cwd.path = report.cwd
  /\ (s.last # Never /\ s.cwd # NoCwd) => t.cwd = s.cwd
  /\ \A k \in Kind, x \in Name : Capabilities[k] =>
       /\ \/ t.bindings[k][x] = s.bindings[k][x]
          \/ /\ s.last = Never /\ report.known /\ report.values[k][x] # Unset
             /\ t.bindings[k][x].value = report.values[k][x]
       /\ (s.last = Never /\ report.known) =>
            t.bindings[k][x].value = report.values[k][x]

LEMMA SeededStep ==
  ASSUME NEW s \in Summary, Stamped(s), NEW report \in ReportType, NEW n \in SequenceNo
  PROVE  SeededFrom(s, report, n, Seeded(s, report, n))
<1> DEFINE t == Seeded(s, report, n)
<1> SUFFICES SeededFrom(s, report, n, t)
  OBVIOUS
<1>0. 0 \in SequenceNo /\ n \in Int /\ 0 <= n /\ SequenceNo \subseteq Int /\ Never = -1
  BY MaxSequenceAssumption DEF SequenceNo, Never
<1>1. CASE s.last = Never
  <2> DEFINE ms == Seeding(report)
  <2>1. t = MutatedSummary(s, ms, 0)
    BY <1>1 DEF Seeded, Seeding
  <2>2. ms \in Seq(Mutation) /\ Len(ms) \in Nat \ {0}
    BY SeedingFacts
  <2> HIDE DEF t
  <2>3. PICK r : SummaryRun(r, s, ms, 0) /\ t = r[Len(ms)]
    BY <2>1, <2>2, MutatedSummaryRun
  <2>4. s.cwd.at <= 0 /\ \A k \in Kind, x \in Name : s.bindings[k][x].at <= 0
    <3>1. \A a \in Int : a <= Never => a <= 0
      BY <1>0
    <3> QED
      BY <1>1, <3>1, SummaryParts DEF Stamped
  <2>5. /\ t \in Summary /\ t.last \in {s.last, 0} /\ s.last <= t.last /\ Stamped(t)
        /\ t.cwd # s.cwd => \E j \in 1..Len(ms) : ms[j].op = "cwd" /\ t.cwd = CwdOf(ms[j], 0)
        /\ \A j \in 1..Len(ms) : ms[j].op = "cwd" /\ Capabilities.cwd =>
             \E l \in 1..Len(ms) : ms[l].op = "cwd" /\ t.cwd = CwdOf(ms[l], 0)
    BY <1>0, <2>2, <2>3, <2>4, SummaryRunFacts, Len(ms) \in 0..Len(ms)
  <2>6. \A j \in 1..Len(ms) : ms[j].op = "cwd" => j = 1
    BY SeedingFacts, ReportIsFinite DEF Reported
  <2>7. 1 \in 1..Len(ms) /\ ms[1].op = "cwd" /\ ms[1].path = report.cwd /\ ms[1].source = "runtime"
    <3>1. ms[1] = SetCwd(report.cwd, "runtime")
      BY SeedingFacts
    <3> HIDE DEF ms
    <3>2. 1 \in 1..Len(ms)
      BY <2>2
    <3> QED
      BY <3>1, <3>2 DEF SetCwd
  <2>8. CwdOf(ms[1], 0).path = report.cwd /\ CwdOf(ms[1], 0).source = "runtime"
    BY <2>7 DEF CwdOf
  <2>9. /\ \/ t.cwd = s.cwd
           \/ t.cwd.path = report.cwd /\ t.cwd.source = "runtime"
        /\ Capabilities.cwd => t.cwd.path = report.cwd
    <3> HIDE DEF ms
    <3> QED
      BY <2>5, <2>6, <2>7, <2>8
  <2>10. ASSUME NEW k \in Kind, NEW x \in Name, Capabilities[k]
         PROVE  /\ \/ t.bindings[k][x] = s.bindings[k][x]
                   \/ /\ s.last = Never /\ report.known /\ report.values[k][x] # Unset
                      /\ t.bindings[k][x].value = report.values[k][x]
                /\ report.known => t.bindings[k][x].value = report.values[k][x]
    <3>1. \/ /\ \A j \in 1..Len(ms) : ~ChangesBinding(ms[j], k, x)
             /\ t.bindings[k][x] = s.bindings[k][x]
          \/ \E j \in 1..Len(ms) :
               /\ ChangesBinding(ms[j], k, x)
               /\ t.bindings[k][x].value = Outcome(ms[j])
      BY <1>0, <2>2, <2>3, <2>4, <2>10, BindingRunFacts, Len(ms) \in 0..Len(ms)
    <3>2. \A j \in 1..Len(ms) : ChangesBinding(ms[j], k, x) =>
            /\ ms[j] \in Reported(report)
            /\ report.known
            /\ Outcome(ms[j]) = report.values[k][x] /\ report.values[k][x] # Unset
      <4>1. ~ChangesBinding(ms[1], k, x)
        BY <2>7 DEF ChangesBinding
      <4>2. \A b \in Reported(report) : ChangesBinding(b, k, x) =>
              report.known /\ Outcome(b) = report.values[k][x] /\ report.values[k][x] # Unset
        BY ReportIsFinite DEF Reported, ChangesBinding, Outcome
      <4> QED
        BY <4>1, <4>2, SeedingFacts
    <3>3. ASSUME \A j \in 1..Len(ms) : ~ChangesBinding(ms[j], k, x),
                 t.bindings[k][x] = s.bindings[k][x], report.known
          PROVE  t.bindings[k][x].value = report.values[k][x]
      <4>1. report.values[k][x] = Unset
        <5>1. SUFFICES ASSUME report.values[k][x] # Unset PROVE FALSE
          OBVIOUS
        <5> DEFINE b == Bind(k, x, report.values[k][x])
        <5>2. b \in Reported(report) /\ ChangesBinding(b, k, x)
          BY <2>10, <3>3, <5>1, ReportIsFinite DEF Reported, ChangesBinding, Bind
        <5>3. \E j \in 1..Len(ms) : ms[j] = b
          BY <5>2, SeedingFacts
        <5> QED
          BY <3>3, <5>2, <5>3
      <4>2. s.bindings[k][x] = NoBinding
        <5>1. s.bindings[k][x] \in Binding /\ s.bindings[k][x].at <= Never
          BY <1>1, SummaryParts DEF Stamped
        <5>2. \A b \in [value : Value, at : SequenceNo] : ~(b.at <= Never)
          BY <1>0, MaxSequenceAssumption DEF SequenceNo
        <5> QED
          BY <5>1, <5>2 DEF Binding
      <4> QED
        BY <3>3, <4>1, <4>2 DEF NoBinding
    <3> HIDE DEF ms
    <3> QED
      BY <1>1, <3>1, <3>2, <3>3
  <2> HIDE DEF ms
  <2> QED
    BY <1>1, <2>5, <2>9, <2>10 DEF SeededFrom
<1>2. CASE s.last # Never /\ Capabilities.cwd /\ s.cwd = NoCwd
  <2> DEFINE new == [path |-> report.cwd, at |-> n, source |-> "runtime"]
             u == [s EXCEPT !.cwd = new]
  <2>1. s.cwd.at <= n
    BY <1>0, <1>2 DEF NoCwd
  <2>2. t = ObserveSequence(u, n)
    BY <1>2, <2>1 DEF Seeded, SetDirectory
  <2>3. u \in Summary /\ u.last = s.last /\ u.cwd = new /\ u.bindings = s.bindings
    <3>1. new \in Cwd
      BY ReportParts DEF Cwd, Source
    <3> QED
      BY <3>1 DEF Summary
  <2> HIDE DEF t, u
  <2>4. /\ t \in Summary /\ t.last \in {s.last, n} /\ s.last <= t.last /\ n <= t.last
        /\ t.cwd = new /\ t.bindings = s.bindings
    BY <2>2, <2>3, ObserveSequenceStep
  <2>5. Stamped(t)
    <3>1. s.last \in Int /\ t.last \in Int /\ \A k \in Kind, x \in Name : s.bindings[k][x].at \in Int
      BY <2>4, SummaryParts
    <3>2. \A k \in Kind, x \in Name : s.bindings[k][x].at <= s.last
      BY DEF Stamped
    <3>3. \A k \in Kind, x \in Name : t.bindings[k][x].at <= t.last
      BY <2>4, <3>1, <3>2
    <3> QED
      BY <2>4, <3>3 DEF Stamped
  <2> QED
    BY <1>2, <2>4, <2>5 DEF SeededFrom
<1>3. CASE s.last # Never /\ ~(Capabilities.cwd /\ s.cwd = NoCwd)
  <2>1. t = s
    BY <1>3 DEF Seeded
  <2>2. s.last <= s.last
    BY SummaryParts
  <2> HIDE DEF t
  <2> QED
    BY <1>3, <2>1, <2>2 DEF SeededFrom
<1> QED
  BY <1>1, <1>2, <1>3

-----------------------------------------------------------------------------
(* A session after the events that led to it.                              *)

SessionType == [summary : Summary, graph : Graph(Command)]

NoStaticDeltas(events) ==
  \A i \in DOMAIN events, d \in Directory :
    events[i].kind = "delta" => SetCwd(d, "static") \notin Range(events[i].mutations)

CwdPredicted(cwd, events) ==
  cwd.source = "static" => \E i \in DOMAIN events : PredictedBy(events[i], cwd)

ChecksSeen(summary, events) ==
  \A i \in DOMAIN events : events[i].kind = "check" => events[i].seq <= summary.last

Good(st, events) ==
  /\ st \in SessionType
  /\ Stamped(st.summary)
  /\ ChecksSeen(st.summary, events)
  /\ Explained(st.graph, events)
  /\ NoStaticDeltas(events) => CwdPredicted(st.summary.cwd, events)

(* The facts about the sequence with one more event.                       *)
LEMMA AppendParts ==
  ASSUME NEW events \in Seq(Event), NEW e \in Event
  PROVE  /\ Append(events, e) \in Seq(Event)
         /\ DOMAIN events = 1..Len(events) /\ Len(events) \in Nat
         /\ DOMAIN Append(events, e) = 1..(Len(events) + 1)
         /\ DOMAIN events \subseteq DOMAIN Append(events, e)
         /\ \A i \in DOMAIN events : Append(events, e)[i] = events[i]
         /\ Append(events, e)[Len(events) + 1] = e
         /\ Len(events) + 1 \in DOMAIN Append(events, e)
         /\ \A i \in DOMAIN Append(events, e) : i \in DOMAIN events \/ i = Len(events) + 1
OBVIOUS

(* The shape of mutations, told by their operation.                        *)
LEMMA MutationOfOp ==
  ASSUME NEW m \in Mutation
  PROVE  m.op = "cwd" =>
           m.path \in Directory /\ m.source \in Source /\ m = SetCwd(m.path, m.source)
<1>1. CASE \E d \in Directory, src \in Source : m = SetCwd(d, src)
  BY <1>1 DEF SetCwd
<1>2. CASE ~\E d \in Directory, src \in Source : m = SetCwd(d, src)
  BY <1>2, MutationForms DEF Bind, Unbind, Anchor
<1> QED
  BY <1>1, <1>2

LEMMA SummaryBatch ==
  ASSUME NEW s \in Summary, Stamped(s), NEW ms \in Seq(Mutation), NEW n \in SequenceNo
  PROVE  /\ MutatedSummary(s, ms, n) \in Summary
         /\ Stamped(MutatedSummary(s, ms, n))
         /\ s.last <= MutatedSummary(s, ms, n).last
         /\ MutatedSummary(s, ms, n).last \in {s.last, n}
         /\ MutatedSummary(s, ms, n).cwd # s.cwd =>
              \E j \in 1..Len(ms) :
                ms[j].op = "cwd" /\ MutatedSummary(s, ms, n).cwd = CwdOf(ms[j], n)
<1>1. PICK r : SummaryRun(r, s, ms, n) /\ MutatedSummary(s, ms, n) = r[Len(ms)]
  BY MutatedSummaryRun
<1>2. Len(ms) \in 0..Len(ms)
  OBVIOUS
<1> QED
  BY <1>1, <1>2, SummaryRunFacts

(* An observed request raises the last number, and may seed the summary.   *)
LEMMA ObservedSummary ==
  ASSUME NEW s \in Summary, Stamped(s), NEW report \in ReportType, NEW n \in SequenceNo
  PROVE  LET t == ObserveSequence(Seeded(s, report, n), n)
         IN  /\ SeededFrom(s, report, n, t)
             /\ n <= t.last
<1> DEFINE u == Seeded(s, report, n)
           t == ObserveSequence(u, n)
<1>1. SeededFrom(s, report, n, u)
  BY SeededStep
<1> HIDE DEF u
<1>2. /\ t \in Summary
      /\ t.last \in {u.last, n} /\ u.last <= t.last /\ n <= t.last
      /\ t.cwd = u.cwd /\ t.bindings = u.bindings
  BY <1>1, ObserveSequenceStep DEF SeededFrom
<1> HIDE DEF t
<1>3. /\ s.last \in Int /\ u.last \in Int /\ t.last \in Int
      /\ u.cwd.at \in Int /\ \A k \in Kind, x \in Name : u.bindings[k][x].at \in Int
  BY <1>1, <1>2, SummaryParts DEF SeededFrom
<1>4. Stamped(t)
  <2>1. u.cwd.at <= u.last /\ \A k \in Kind, x \in Name : u.bindings[k][x].at <= u.last
    BY <1>1 DEF SeededFrom, Stamped
  <2>2. \A a \in Int : a <= u.last => a <= t.last
    BY <1>2, <1>3
  <2> QED
    BY <1>2, <1>3, <2>1, <2>2 DEF Stamped
<1>5. s.last <= t.last /\ t.last \in {s.last, 0, n}
  BY <1>1, <1>2, <1>3 DEF SeededFrom
<1>6. SeededFrom(s, report, n, t)
  BY <1>1, <1>2, <1>4, <1>5 DEF SeededFrom
<1> QED
  BY <1>2, <1>6 DEF t, u

(* Facts that are explained stay so, and those an event commits are.       *)
LEMMA ExplainedByMore ==
  ASSUME NEW events \in Seq(Event), NEW e \in Event,
         NEW g \in Graph(Command), Explained(g, events)
  PROVE  Explained(g, Append(events, e))
<1>1. ASSUME NEW n \in SequenceNo
      PROVE  Committed(events, n) \subseteq Committed(Append(events, e), n)
  BY AppendParts DEF Committed
<1> QED
  BY <1>1, AppendParts DEF Explained

LEMMA ExplainedBatch ==
  ASSUME NEW events \in Seq(Event), NEW e \in Event,
         NEW g \in Graph(Command), Explained(g, Append(events, e))
  PROVE  /\ MutatedGraph(g, e.mutations, e.seq) \in Graph(Command)
         /\ Explained(MutatedGraph(g, e.mutations, e.seq), Append(events, e))
<1> DEFINE n == e.seq
           ms == e.mutations
           h == MutatedGraph(g, ms, n)
           more == Append(events, e)
<1>1. n \in SequenceNo /\ ms \in Seq(Mutation) /\ Len(ms) \in 0..Len(ms) /\ DOMAIN ms = 1..Len(ms)
  BY EventParts
<1>2. \A j \in 1..Len(ms) : ms[j] \in Committed(more, n)
  BY <1>1, AppendParts DEF Committed, Range
<1> HIDE DEF h, n, ms, more
<1>3. PICK r : GraphRun(r, g, ms, n) /\ h = r[Len(ms)]
  BY <1>1, MutatedGraphRun DEF h
<1>4. /\ h \in Graph(Command)
      /\ h.requests = g.requests
      /\ \A l \in h.anchors \ g.anchors : l = n /\ \E j \in 1..Len(ms) : ms[j] = Anchor
      /\ \A l \in SequenceNo :
           h.directories[l] # g.directories[l] =>
             /\ l = n
             /\ \E j \in 1..Len(ms), src \in Source : ms[j] = SetCwd(h.directories[l], src)
      /\ \A x \in Name, l \in SequenceNo :
           h.functions[x][l] # g.functions[x][l] =>
             /\ l = n
             /\ \E j \in 1..Len(ms) : ms[j] = Bind("function", x, h.functions[x][l])
  BY SMTT(30), <1>1, <1>3, GraphRunFacts
<1>5. ASSUME NEW l \in SequenceNo
      PROVE  /\ h.requests[l] # NoCommand =>
                  \E i \in DOMAIN more :
                    /\ more[i].kind = "check"
                    /\ more[i].seq = l
                    /\ more[i].allowed
                    /\ more[i].command = h.requests[l]
             /\ l \in h.anchors => Anchor \in Committed(more, l)
             /\ h.directories[l] # NoPath =>
                  \E src \in Source : SetCwd(h.directories[l], src) \in Committed(more, l)
             /\ \A name \in Name : h.functions[name][l] # Unset =>
                  Bind("function", name, h.functions[name][l]) \in Committed(more, l)
  <2>1. /\ g.requests[l] # NoCommand =>
                  \E i \in DOMAIN more :
                    /\ more[i].kind = "check"
                    /\ more[i].seq = l
                    /\ more[i].allowed
                    /\ more[i].command = g.requests[l]
        /\ l \in g.anchors => Anchor \in Committed(more, l)
        /\ g.directories[l] # NoPath =>
             \E src \in Source : SetCwd(g.directories[l], src) \in Committed(more, l)
        /\ \A name \in Name : g.functions[name][l] # Unset =>
             Bind("function", name, g.functions[name][l]) \in Committed(more, l)
    BY DEF Explained, more
  <2>2. l \in h.anchors => Anchor \in Committed(more, l)
    BY <1>2, <1>4, <2>1
  <2>3. h.directories[l] # NoPath =>
          \E src \in Source : SetCwd(h.directories[l], src) \in Committed(more, l)
    BY <1>2, <1>4, <2>1
  <2>4. ASSUME NEW name \in Name, h.functions[name][l] # Unset
        PROVE  Bind("function", name, h.functions[name][l]) \in Committed(more, l)
    BY <1>2, <1>4, <2>1, <2>4
  <2>5. h.requests[l] = g.requests[l]
    BY <1>4
  <2> QED
    BY <2>1, <2>2, <2>3, <2>4, <2>5
<1>6. Explained(h, more)
  BY <1>5 DEF Explained
<1> QED
  BY <1>4, <1>6 DEF h, n, ms, more

(* The numbers of the checks, and the directory, after one more event.     *)
LEMMA ChecksSeenStep ==
  ASSUME NEW events \in Seq(Event), NEW e \in Event,
         NEW s \in Summary, NEW t \in Summary, ChecksSeen(s, events), s.last <= t.last,
         e.kind = "check" => e.seq <= t.last
  PROVE  ChecksSeen(t, Append(events, e))
<1>1. s.last \in Int /\ t.last \in Int
  BY SummaryParts
<1>2. \A i \in DOMAIN events : events[i].seq \in Int
  <2>1. \A i \in DOMAIN events : events[i] \in Event
    OBVIOUS
  <2> QED
    BY <2>1, EventParts, MaxSequenceAssumption DEF SequenceNo
<1>3. \A i \in DOMAIN events : events[i].kind = "check" => events[i].seq <= t.last
  BY <1>1, <1>2 DEF ChecksSeen
<1> QED
  BY <1>3, AppendParts DEF ChecksSeen

LEMMA CwdPredictedStep ==
  ASSUME NEW events \in Seq(Event), NEW e \in Event, NEW old, NEW cwd,
         NoStaticDeltas(events) => CwdPredicted(old, events),
         NoStaticDeltas(Append(events, e)),
         cwd = old \/ cwd.source = "runtime" \/ PredictedBy(e, cwd)
  PROVE  CwdPredicted(cwd, Append(events, e))
<1>1. NoStaticDeltas(events)
  BY AppendParts DEF NoStaticDeltas
<1> QED
  BY <1>1, AppendParts DEF CwdPredicted

(* One event more.                                                         *)
LEMMA GoodDelta ==
  ASSUME NEW events \in Seq(Event), NEW e \in Event, e.kind = "delta",
         NEW st, Good(st, events)
  PROVE  Good(CommitObserved(st, e.mutations, e.seq), Append(events, e))
<1> DEFINE n == e.seq
           ms == e.mutations
           s == st.summary
           t == MutatedSummary(s, ms, n)
           h == MutatedGraph(st.graph, ms, n)
           after == CommitObserved(st, ms, n)
<1>1. n \in SequenceNo /\ ms \in Seq(Mutation)
  BY EventParts
<1>2. s \in Summary /\ st.graph \in Graph(Command) /\ Stamped(s)
  BY DEF Good, SessionType
<1>3. after = [summary |-> t, graph |-> h]
  BY DEF CommitObserved
<1>4. h \in Graph(Command) /\ Explained(h, Append(events, e))
  BY <1>2, ExplainedByMore, ExplainedBatch DEF Good
<1> HIDE DEF after, h, s, t, n, ms
<1>5. /\ t \in Summary /\ Stamped(t) /\ s.last <= t.last
      /\ t.cwd # s.cwd => \E j \in 1..Len(ms) : ms[j].op = "cwd" /\ t.cwd = CwdOf(ms[j], n)
  BY <1>1, <1>2, SummaryBatch DEF t
<1>6. ChecksSeen(t, Append(events, e))
  <2>1. ChecksSeen(s, events)
    BY DEF Good, s
  <2> QED
    BY <1>2, <1>5, <2>1, ChecksSeenStep
<1>7. ASSUME NoStaticDeltas(Append(events, e))
      PROVE  CwdPredicted(t.cwd, Append(events, e))
  <2>1. NoStaticDeltas(events) => CwdPredicted(s.cwd, events)
    BY DEF Good, s
  <2>2. CASE t.cwd # s.cwd
    <3>1. PICK j \in 1..Len(ms) : ms[j].op = "cwd" /\ t.cwd = CwdOf(ms[j], n)
      BY <1>5, <2>2
    <3>2. ms[j] \in Mutation /\ ms[j] \in Range(ms)
      BY <1>1 DEF Range
    <3>3. ms[j].path \in Directory /\ ms[j].source \in Source /\ ms[j] = SetCwd(ms[j].path, ms[j].source)
      BY <3>1, <3>2, MutationOfOp
    <3>4. ms[j].source # "static"
      <4>1. SetCwd(ms[j].path, "static") \notin Range(ms)
        BY <1>7, <3>3, AppendParts DEF NoStaticDeltas, ms
      <4> QED
        BY <3>2, <3>3, <4>1
    <3>5. t.cwd.source = "runtime"
      BY <3>1, <3>3, <3>4 DEF CwdOf, Source
    <3> QED
      BY <1>7, <2>1, <3>5, CwdPredictedStep
  <2>3. CASE t.cwd = s.cwd
    BY <1>7, <2>1, <2>3, CwdPredictedStep
  <2> QED
    BY <2>2, <2>3
<1>8. after.summary = t /\ after.graph = h /\ after \in SessionType
  BY <1>3, <1>4, <1>5 DEF SessionType
<1> QED
  BY <1>4, <1>5, <1>6, <1>7, <1>8 DEF Good, after, ms, n

LEMMA GoodDenied ==
  ASSUME NEW events \in Seq(Event), NEW e \in Event, e.kind = "check",
         NEW st, Good(st, events)
  PROVE  Good(ObserveRequest(st, e.report, e.seq), Append(events, e))
<1> DEFINE n == e.seq
           s == st.summary
           t == ObserveSequence(Seeded(s, e.report, n), n)
           after == ObserveRequest(st, e.report, n)
<1>1. n \in SequenceNo /\ e.report \in ReportType
  BY EventParts
<1>2. /\ s \in Summary /\ st.graph \in Graph(Command) /\ Stamped(s)
      /\ st = [summary |-> s, graph |-> st.graph]
  BY DEF Good, SessionType
<1>3. after = [summary |-> t, graph |-> st.graph]
  BY <1>2 DEF ObserveRequest
<1>4. Explained(st.graph, Append(events, e))
  BY <1>2, ExplainedByMore DEF Good
<1> HIDE DEF after, s, n
<1>5. SeededFrom(s, e.report, n, t) /\ n <= t.last
  BY <1>1, <1>2, ObservedSummary
<1> HIDE DEF t
<1>6. t \in Summary /\ Stamped(t) /\ s.last <= t.last
  BY <1>5 DEF SeededFrom
<1>7. ChecksSeen(t, Append(events, e))
  <2>1. ChecksSeen(s, events)
    BY DEF Good, s
  <2> QED
    BY <1>2, <1>5, <1>6, <2>1, ChecksSeenStep DEF n
<1>8. ASSUME NoStaticDeltas(Append(events, e))
      PROVE  CwdPredicted(t.cwd, Append(events, e))
  <2>1. NoStaticDeltas(events) => CwdPredicted(s.cwd, events)
    BY DEF Good, s
  <2>2. t.cwd = s.cwd \/ t.cwd.source = "runtime"
    BY <1>5 DEF SeededFrom
  <2> QED
    BY <1>8, <2>1, <2>2, CwdPredictedStep
<1>9. after.summary = t /\ after.graph = st.graph /\ after \in SessionType
  BY <1>2, <1>3, <1>6 DEF SessionType
<1> QED
  BY <1>4, <1>6, <1>7, <1>8, <1>9 DEF Good, after, n

(* The three summaries an allowed command goes through: seeded, mutated    *)
(* and observed.                                                           *)
AllowedSummary(s, ms, report, n) ==
  ObserveSequence(
    Seeded(MutatedSummary(Seeded(s, report, n), ms, n), report, n), n)

LEMMA AllowedSummaryStep ==
  ASSUME NEW s \in Summary, Stamped(s), NEW ms \in Seq(Mutation),
         NEW report \in ReportType, NEW n \in SequenceNo
  PROVE  \E a, b \in Summary :
           /\ a = Seeded(s, report, n)
           /\ b = MutatedSummary(a, ms, n)
           /\ SeededFrom(s, report, n, a)
           /\ Stamped(b) /\ a.last <= b.last
           /\ b.cwd # a.cwd => \E j \in 1..Len(ms) : ms[j].op = "cwd" /\ b.cwd = CwdOf(ms[j], n)
           /\ SeededFrom(b, report, n, AllowedSummary(s, ms, report, n))
           /\ n <= AllowedSummary(s, ms, report, n).last
           /\ s.last <= AllowedSummary(s, ms, report, n).last
<1> DEFINE a == Seeded(s, report, n)
           b == MutatedSummary(a, ms, n)
           c == AllowedSummary(s, ms, report, n)
<1>1. SeededFrom(s, report, n, a)
  BY SeededStep
<1>2. a \in Summary /\ Stamped(a)
  BY <1>1 DEF SeededFrom
<1>3. c = ObserveSequence(Seeded(b, report, n), n)
  BY DEF AllowedSummary
<1> HIDE DEF a, c
<1>4. /\ b \in Summary /\ Stamped(b) /\ a.last <= b.last
      /\ b.cwd # a.cwd => \E j \in 1..Len(ms) : ms[j].op = "cwd" /\ b.cwd = CwdOf(ms[j], n)
  BY <1>2, SummaryBatch
<1>5. b = MutatedSummary(a, ms, n)
  OBVIOUS
<1> HIDE DEF b
<1>6. SeededFrom(b, report, n, c) /\ n <= c.last
  BY <1>3, <1>4, ObservedSummary
<1>7. s.last <= c.last
  <2>1. s.last <= a.last /\ b.last <= c.last /\ c \in Summary
    BY <1>1, <1>6 DEF SeededFrom
  <2>2. s.last \in Int /\ a.last \in Int /\ b.last \in Int /\ c.last \in Int
    BY <1>2, <1>4, <2>1, SummaryParts
  <2> QED
    BY <1>4, <2>1, <2>2
<1> QED
  BY <1>1, <1>2, <1>4, <1>5, <1>6, <1>7 DEF a, c

LEMMA AllowedState ==
  ASSUME NEW st \in SessionType, NEW ms, NEW command, NEW report, NEW n
  PROVE  CommitAllowedRequest(st, ms, command, report, n) =
           [summary |-> AllowedSummary(st.summary, ms, report, n),
            graph |-> MutatedGraph([st.graph EXCEPT !.requests[n] = command], ms, n)]
BY DEF CommitAllowedRequest, ObserveRequest, AllowedSummary

LEMMA GoodAllowed ==
  ASSUME NEW events \in Seq(Event), NEW e \in Event, e.kind = "check", e.allowed,
         NEW st, Good(st, events)
  PROVE  Good(CommitAllowedRequest(st, e.mutations, e.command, e.report, e.seq),
              Append(events, e))
<1> DEFINE n == e.seq
           ms == e.mutations
           s == st.summary
           c == AllowedSummary(s, ms, e.report, n)
           g == [st.graph EXCEPT !.requests[n] = e.command]
           h == MutatedGraph(g, ms, n)
           more == Append(events, e)
           after == CommitAllowedRequest(st, ms, e.command, e.report, n)
<1>1. n \in SequenceNo /\ ms \in Seq(Mutation) /\ e.report \in ReportType /\ e.command \in Command
  BY EventParts
<1>2. s \in Summary /\ st.graph \in Graph(Command) /\ Stamped(s) /\ st \in SessionType
  BY DEF Good, SessionType
<1>3. after = [summary |-> c, graph |-> h]
  BY <1>2, AllowedState
<1>4. g \in Graph(Command) /\ Explained(g, more)
  <2>1. /\ g.requests = [st.graph.requests EXCEPT ![n] = e.command]
        /\ g.anchors = st.graph.anchors /\ g.directories = st.graph.directories
        /\ g.functions = st.graph.functions /\ g \in Graph(Command)
    BY <1>1, <1>2 DEF Graph
  <2>2. Explained(st.graph, more)
    BY <1>2, ExplainedByMore DEF Good
  <2>3. ASSUME NEW l \in SequenceNo, g.requests[l] # NoCommand
        PROVE  \E i \in DOMAIN more :
                 /\ more[i].kind = "check"
                 /\ more[i].seq = l
                 /\ more[i].allowed
                 /\ more[i].command = g.requests[l]
    <3>1. CASE l = n
      <4>1. g.requests[l] = e.command
        BY <1>1, <1>2, <2>1, <3>1, GraphParts
      <4>2. more[Len(events) + 1] = e /\ Len(events) + 1 \in DOMAIN more
        BY AppendParts
      <4> HIDE DEF g, more
      <4> QED
        BY <3>1, <4>1, <4>2
    <3>2. CASE l # n
      <4>1. g.requests[l] = st.graph.requests[l]
        BY <1>1, <1>2, <2>1, <3>2, GraphParts
      <4> HIDE DEF g, more
      <4> QED
        BY <2>2, <2>3, <4>1 DEF Explained
    <3> QED
      BY <3>1, <3>2
  <2> HIDE DEF g, more
  <2> QED
    BY <2>1, <2>2, <2>3 DEF Explained
<1> HIDE DEF after, c, g, s
<1>5. h \in Graph(Command) /\ Explained(h, more)
  BY <1>4, ExplainedBatch
<1> HIDE DEF h, more, n, ms
<1>6. PICK a, b \in Summary :
           /\ a = Seeded(s, e.report, n)
           /\ b = MutatedSummary(a, ms, n)
           /\ SeededFrom(s, e.report, n, a)
           /\ Stamped(b) /\ a.last <= b.last
           /\ b.cwd # a.cwd => \E j \in 1..Len(ms) : ms[j].op = "cwd" /\ b.cwd = CwdOf(ms[j], n)
           /\ SeededFrom(b, e.report, n, c)
           /\ n <= c.last
           /\ s.last <= c.last
  BY <1>1, <1>2, AllowedSummaryStep DEF c
<1>7. c \in Summary /\ Stamped(c)
  BY <1>6 DEF SeededFrom
<1>8. ChecksSeen(c, more)
  <2>1. ChecksSeen(s, events)
    BY DEF Good, s
  <2> QED
    BY <1>2, <1>6, <1>7, <2>1, ChecksSeenStep DEF n, more
<1>9. ASSUME NoStaticDeltas(more)
      PROVE  CwdPredicted(c.cwd, more)
  <2>1. NoStaticDeltas(events) => CwdPredicted(s.cwd, events)
    BY DEF Good, s
  <2>2. c.cwd = s.cwd \/ c.cwd.source = "runtime" \/ PredictedBy(e, c.cwd)
    <3>1. a.cwd = s.cwd \/ a.cwd.source = "runtime"
      BY <1>6 DEF SeededFrom
    <3>2. c.cwd = b.cwd \/ c.cwd.source = "runtime"
      BY <1>6 DEF SeededFrom
    <3>3. ASSUME NEW j \in 1..Len(ms), ms[j].op = "cwd", b.cwd = CwdOf(ms[j], n)
          PROVE  b.cwd.source = "runtime" \/ PredictedBy(e, b.cwd)
      <4>1. ms[j] \in Mutation /\ ms[j] \in Range(ms)
        BY <1>1 DEF Range
      <4>2. ms[j].source \in Source /\ ms[j] = SetCwd(ms[j].path, ms[j].source)
        BY <3>3, <4>1, MutationOfOp
      <4>3. b.cwd.path = ms[j].path /\ b.cwd.at = n /\ b.cwd.source = ms[j].source
        BY <3>3 DEF CwdOf
      <4>4. CASE ms[j].source = "static"
        BY <4>1, <4>2, <4>3, <4>4 DEF PredictedBy, n, ms
      <4> QED
        BY <4>2, <4>3, <4>4 DEF Source
    <3> QED
      BY <1>6, <3>1, <3>2, <3>3
  <2> QED
    BY <1>9, <2>1, <2>2, CwdPredictedStep DEF more
<1>10. after.summary = c /\ after.graph = h /\ after \in SessionType
  BY <1>3, <1>5, <1>7 DEF SessionType
<1> QED
  BY <1>5, <1>7, <1>8, <1>9, <1>10 DEF Good, after, more, n, ms

LEMMA GoodStep ==
  ASSUME NEW events \in Seq(Event), NEW e \in Event, NEW st, Good(st, events)
  PROVE  Good(ApplyStateEffect(st, e), Append(events, e))
BY EventParts, GoodDelta, GoodDenied, GoodAllowed DEF ApplyStateEffect

(* The state that any events lead to.                                      *)
LEMMA GoodNew == Good(NewSession, <<>>)
<1> DEFINE g == EmptyGraph
<1>1. NoSummary \in Summary
  <2>1. NoCwd \in Cwd /\ NoBinding \in Binding
    BY DEF Cwd, Binding
  <2> QED
    BY <2>1 DEF NoSummary, Summary
<1>2. Stamped(NoSummary)
  BY DEF Stamped, NoSummary, NoCwd, NoBinding, Never
<1>3. EmptyGraph \in Graph(Command)
  BY DEF EmptyGraph, Graph
<1>4. Explained(EmptyGraph, <<>>)
  BY DEF Explained, EmptyGraph
<1>5. CwdPredicted(NoSummary.cwd, <<>>)
  BY DEF CwdPredicted, NoSummary, NoCwd
<1>6. ChecksSeen(NoSummary, <<>>)
  BY DEF ChecksSeen
<1>7. NewSession.summary = NoSummary /\ NewSession.graph = EmptyGraph /\ NewSession \in SessionType
  BY <1>1, <1>3 DEF NewSession, SessionType
<1> QED
  BY <1>1, <1>2, <1>3, <1>4, <1>5, <1>6, <1>7 DEF Good

LEMMA ReplayIsGood ==
  ASSUME NEW events \in Seq(Event), Replay(events).ok
  PROVE  /\ Good(Replay(events).state, events)
         /\ Replay(events) = [ok |-> TRUE, state |-> Replay(events).state]
<1> DEFINE T == {k \in Nat : \A es \in Seq(Event) : Len(es) = k /\ Replay(es).ok =>
                    /\ Good(Replay(es).state, es)
                    /\ Replay(es) = [ok |-> TRUE, state |-> Replay(es).state]}
<1>1. 0 \in T
  <2>1. \A es \in Seq(Event) : Len(es) = 0 => es = <<>>
    OBVIOUS
  <2>2. Replay(<<>>) = [ok |-> TRUE, state |-> NewSession]
    BY ReplayNil DEF Beginning
  <2> QED
    BY <2>1, <2>2, GoodNew
<1>2. ASSUME NEW k \in 1..Len(events), k - 1 \in T
      PROVE  k \in T
  <2>1. SUFFICES ASSUME NEW es \in Seq(Event), Len(es) = k, Replay(es).ok
                 PROVE  /\ Good(Replay(es).state, es)
                        /\ Replay(es) = [ok |-> TRUE, state |-> Replay(es).state]
    OBVIOUS
  <2> DEFINE old == SubSeq(es, 1, k - 1)
             e == es[k]
  <2>2. /\ old \in Seq(Event) /\ Len(old) = k - 1 /\ e \in Event /\ es = Append(old, e)
        /\ <<e>> \in Seq(Event) /\ es = old \o <<e>>
    BY <2>1
  <2> HIDE DEF old, e
  <2>3. Replay(es) = ApplyIfPossible(Replay(old), e)
    BY <2>2, ReplayAppend
  <2>4. Replay(old).ok
    <3> DEFINE b == <<e>>
    <3>1. b \in Seq(Event) /\ es = old \o b
      BY <2>2
    <3> HIDE DEF b
    <3> QED
      BY <2>1, <2>2, <3>1, ReplayOkPrefix
  <2>5. /\ Good(Replay(old).state, old)
        /\ Replay(old) = [ok |-> TRUE, state |-> Replay(old).state]
    BY <1>2, <2>2, <2>4
  <2>6. Replay(es) = [ok |-> TRUE, state |-> ApplyStateEffect(Replay(old).state, e)]
    BY <2>1, <2>3, <2>5 DEF ApplyIfPossible
  <2>7. Good(ApplyStateEffect(Replay(old).state, e), es)
    BY <2>2, <2>5, GoodStep
  <2> QED
    BY <2>6, <2>7
<1>3. Len(events) \in Nat /\ T \in SUBSET Nat
  OBVIOUS
<1> HIDE DEF T
<1>4. \A k \in 0..Len(events) : k \in T
  BY <1>1, <1>2, <1>3, IntervalInduction
<1>5. Len(events) \in T
  BY <1>3, <1>4
<1> QED
  BY <1>5 DEF T

-----------------------------------------------------------------------------
(* Reconciling.                                                            *)

Differences(st, report) ==
  ReconcileCwd(st.summary, report, st.summary.last, st.graph.requests[st.summary.last]) \union
    ReconcileBindings(st.summary, report)

LEMMA DifferencesFacts ==
  ASSUME NEW st \in SessionType, NEW report \in ReportType
  PROVE  /\ Differences(st, report) \in SUBSET Mutation
         /\ IsFiniteSet(Differences(st, report))
         /\ \A m \in Differences(st, report) :
              /\ m.op = "cwd" => m = SetCwd(report.cwd, "runtime")
              /\ m.op \in {"bind", "unbind"} =>
                   /\ m.kind \in Kind /\ m.name \in Name
                   /\ Capabilities[m.kind] /\ report.known
                   /\ Outcome(m) = report.values[m.kind][m.name]
<1> DEFINE s == st.summary
           C == ReconcileCwd(s, report, s.last, st.graph.requests[s.last])
           B == {m \in Reported(report) : s.bindings[m.kind][m.name].value # m.value}
           G == {b \in ReportedBindings(report) :
                   b.value = Unset /\ s.bindings[b.kind][b.name] # NoBinding}
           U == {Unbind(m.kind, m.name) : m \in G}
<1>1. Differences(st, report) = C \union (B \union U)
  BY DEF Differences, ReconcileBindings
<1>2. C \in SUBSET {SetCwd(report.cwd, "runtime")}
  BY DEF ReconcileCwd
<1>3. IsFiniteSet(C)
  <2> DEFINE one == {SetCwd(report.cwd, "runtime")}
  <2>1. IsFiniteSet(one)
    BY FS_Singleton
  <2>2. C \in SUBSET one
    BY <1>2
  <2> HIDE DEF C, one
  <2> QED
    BY <2>1, <2>2, FS_Subset
<1>4. IsFiniteSet(B)
  BY ReportIsFinite, FS_Subset, B \in SUBSET Reported(report)
<1>5. IsFiniteSet(U)
  <2>1. IsFiniteSet(G)
    BY ReportIsFinite, FS_Subset, G \in SUBSET ReportedBindings(report)
  <2> DEFINE f == [m \in G |-> Unbind(m.kind, m.name)]
  <2>2. f \in Surjection(G, U)
    BY SMTT(40) DEF Surjection
  <2> HIDE DEF f, G, U
  <2> QED
    BY <2>1, <2>2, FS_Surjection
<1>6. IsFiniteSet(C \union (B \union U))
  BY <1>3, <1>4, <1>5, FS_Union
<1>7. ASSUME NEW m \in C
      PROVE  m \in Mutation /\ m = SetCwd(report.cwd, "runtime") /\ m.op = "cwd"
  BY <1>2, ReportParts DEF Mutation, Source, SetCwd
<1>8. ASSUME NEW m \in B
      PROVE  /\ m \in Mutation /\ m.op = "bind"
             /\ m.kind \in Kind /\ m.name \in Name
             /\ Capabilities[m.kind] /\ report.known
             /\ Outcome(m) = report.values[m.kind][m.name]
  <2>1. m \in Reported(report)
    OBVIOUS
  <2>2. m \in Change /\ m \in ReportedBindings(report)
    BY <2>1, ReportIsFinite DEF Reported
  <2> HIDE DEF B
  <2> QED
    BY <2>2, ReportIsFinite DEF Mutation, Outcome
<1>9. ASSUME NEW m \in U
      PROVE  /\ m \in Mutation /\ m.op = "unbind"
             /\ m.kind \in Kind /\ m.name \in Name
             /\ Capabilities[m.kind] /\ report.known
             /\ Outcome(m) = report.values[m.kind][m.name]
  <2>1. PICK b \in G : m = Unbind(b.kind, b.name)
    OBVIOUS
  <2>2. /\ b.kind \in Kind /\ b.name \in Name /\ Capabilities[b.kind] /\ report.known
        /\ report.values[b.kind][b.name] = Unset
    BY ReportIsFinite
  <2>3. m.op = "unbind" /\ m.kind = b.kind /\ m.name = b.name
    BY <2>1 DEF Unbind
  <2> QED
    BY <2>1, <2>2, <2>3 DEF Mutation, Change, Outcome
<1> HIDE DEF C, B, U
<1>10. \A m \in C \union (B \union U) :
         /\ m \in Mutation
         /\ m.op = "cwd" => m = SetCwd(report.cwd, "runtime")
         /\ m.op \in {"bind", "unbind"} =>
              /\ m.kind \in Kind /\ m.name \in Name
              /\ Capabilities[m.kind] /\ report.known
              /\ Outcome(m) = report.values[m.kind][m.name]
  BY <1>7, <1>8, <1>9
<1> QED
  BY <1>1, <1>6, <1>10

(* The batch lists the differences, after the anchor it may need.          *)
LEMMA ReconciliationFacts ==
  ASSUME NEW st \in SessionType, NEW report \in ReportType
  PROVE  /\ Reconciliation(st, report) \in Seq(Mutation)
         /\ Reconciliation(st, report) # <<>> =>
              /\ st.summary.last \in SequenceNo
              /\ \A i \in DOMAIN Reconciliation(st, report) :
                   \/ Reconciliation(st, report)[i] = Anchor
                   \/ Reconciliation(st, report)[i] \in Differences(st, report)
              /\ \A m \in Differences(st, report) :
                   \E i \in DOMAIN Reconciliation(st, report) : Reconciliation(st, report)[i] = m
         /\ (Reconciliation(st, report) = <<>> /\ st.summary.last # Never) =>
              Differences(st, report) = {}
<1> DEFINE n == st.summary.last
           D == Differences(st, report)
           front == IF st.graph.requests[n] = NoCommand THEN <<Anchor>> ELSE <<>>
           tail == SetToSeq(D)
           d == Reconciliation(st, report)
<1>1. n \in SequenceNo \union {Never}
  BY SummaryParts DEF SessionType
<1>2. d = IF n = Never THEN <<>> ELSE IF D = {} THEN <<>> ELSE front \o tail
  BY DEF Reconciliation, Differences
<1>3. front \in Seq(Mutation) /\ \A i \in DOMAIN front : front[i] = Anchor
  <2>1. Anchor \in Mutation
    BY DEF Mutation
  <2>2. CASE front = <<Anchor>>
    BY <2>1, <2>2
  <2>3. CASE front = <<>>
    BY <2>3
  <2> QED
    BY <2>2, <2>3
<1>4. D \in SUBSET Mutation /\ IsFiniteSet(D)
  BY DifferencesFacts
<1> HIDE DEF D, d, front, n
<1>5. /\ tail \in Seq(Mutation)
      /\ \A i \in DOMAIN tail : tail[i] \in D
      /\ \A x \in D : \E i \in DOMAIN tail : tail[i] = x
  BY <1>4, SetToSeqFacts
<1> HIDE DEF tail
<1> DEFINE both == front \o tail
<1>6. /\ both \in Seq(Mutation) /\ Len(both) = Len(front) + Len(tail)
      /\ \A i \in DOMAIN both : both[i] = Anchor \/ both[i] \in D
      /\ \A x \in D : \E i \in DOMAIN both : both[i] = x
  <2>1. /\ both \in Seq(Mutation) /\ Len(both) = Len(front) + Len(tail)
        /\ \A i \in DOMAIN both :
             \/ i \in DOMAIN front /\ both[i] = front[i]
             \/ i - Len(front) \in DOMAIN tail /\ both[i] = tail[i - Len(front)]
        /\ \A i \in DOMAIN tail : i + Len(front) \in DOMAIN both /\ both[i + Len(front)] = tail[i]
    BY <1>3, <1>5
  <2> HIDE DEF both
  <2> QED
    BY <1>3, <1>5, <2>1
<1>7. D # {} => both # <<>>
  BY <1>6
<1> HIDE DEF both
<1>8. d = IF n = Never THEN <<>> ELSE IF D = {} THEN <<>> ELSE both
  BY <1>2 DEF both
<1>9. d \in Seq(Mutation)
  BY <1>6, <1>8
<1>10. d # <<>> => n \in SequenceNo /\ d = both
  BY <1>1, <1>8
<1>11. (d = <<>> /\ n # Never) => D = {}
  BY <1>7, <1>8
<1> QED
  BY <1>6, <1>9, <1>10, <1>11 DEF D, d, n

LEMMA ReconciliationIsRuntime ==
  ASSUME NEW st \in SessionType, NEW report \in ReportType, NEW path
  PROVE  SetCwd(path, "static") \notin Range(Reconciliation(st, report))
<1> SUFFICES ASSUME SetCwd(path, "static") \in Range(Reconciliation(st, report))
             PROVE  FALSE
  OBVIOUS
<1> DEFINE d == Reconciliation(st, report)
           m == SetCwd(path, "static")
<1>1. PICK i \in DOMAIN d : d[i] = m
  BY DEF Range
<1>2. d # <<>>
  BY <1>1
<1>3. m = Anchor \/ m \in Differences(st, report)
  BY <1>1, <1>2, ReconciliationFacts
<1>4. m.op = "cwd" /\ m.source = "static"
  BY DEF SetCwd
<1>5. m # Anchor /\ m # SetCwd(report.cwd, "runtime")
  BY DEF SetCwd, Anchor
<1> QED
  BY <1>3, <1>4, <1>5, DifferencesFacts

-----------------------------------------------------------------------------
(* One request.                                                            *)

LEMMA CommandMutationsType ==
  ASSUME NEW command \in Command, NEW report \in ReportType
  PROVE  /\ CommandMutations(command, report) \in Seq(Mutation)
         /\ \A i \in DOMAIN CommandMutations(command, report) :
              CommandMutations(command, report)[i].op = "cwd" =>
                /\ CommandMutations(command, report)[i].source = "static"
                /\ CommandMutations(command, report)[i].path # report.cwd
<1> DEFINE a == command.changes
           m == SetCwd(command.exit, "static")
           b == IF command.exit \in Directory \ {report.cwd} THEN <<m>> ELSE <<>>
           both == a \o b
<1>1. a \in Seq(Change)
  BY CommandAssumption DEF CommandType
<1>2. a \in Seq(Mutation)
  BY <1>1 DEF Mutation
<1>3. \A x \in Change : x.op # "cwd"
  BY DEF Change, Bind, Unbind
<1>4. CASE command.exit \in Directory \ {report.cwd}
  <2>1. m \in Mutation /\ m.op = "cwd" /\ m.source = "static" /\ m.path = command.exit
    BY <1>4 DEF Mutation, SetCwd, Source
  <2>2. both = a \o <<m>>
    BY <1>4
  <2> HIDE DEF m, a, both
  <2>3. /\ both \in Seq(Mutation)
        /\ \A i \in DOMAIN both : (i \in DOMAIN a /\ both[i] = a[i]) \/ both[i] = m
    BY <1>2, <2>1, <2>2
  <2>4. \A i \in DOMAIN a : a[i] \in Change
    BY <1>1
  <2>5. command.exit # report.cwd
    BY <1>4
  <2> QED
    BY <1>3, <2>1, <2>3, <2>4, <2>5 DEF both, CommandMutations, a, m
<1>5. CASE command.exit \notin Directory \ {report.cwd}
  <2>1. both = a \o <<>>
    BY <1>5
  <2>2. CommandMutations(command, report) = both
    BY DEF CommandMutations
  <2> HIDE DEF a, both
  <2>3. both = a
    BY <1>2, <2>1
  <2> QED
    BY <1>1, <1>2, <1>3, <2>2, <2>3
<1> QED
  BY <1>4, <1>5

LEMMA EventTypes ==
  ASSUME NEW n \in SequenceNo
  PROVE  /\ \A ms \in Seq(Mutation) : DeltaEvent(n, ms) \in Event
         /\ \A command \in Command, report \in Report, allowed \in BOOLEAN :
              CheckEvent(n, command, report, allowed) \in Event
<1>1. ASSUME NEW ms \in Seq(Mutation)
      PROVE  DeltaEvent(n, ms) \in Event
  BY DEF DeltaEvent, Event
<1>2. ASSUME NEW command \in Command, NEW report \in Report, NEW allowed \in BOOLEAN
      PROVE  CheckEvent(n, command, report, allowed) \in Event
  <2> DEFINE ms == IF allowed THEN CommandMutations(command, report) ELSE <<>>
  <2>1. report \in ReportType
    BY ReportAssumption
  <2>2. ms \in Seq(Mutation)
    BY <2>1, CommandMutationsType
  <2>3. CheckEvent(n, command, report, allowed) =
          [kind |-> "check", seq |-> n, command |-> command, report |-> report,
           allowed |-> allowed, mutations |-> ms]
    BY DEF CheckEvent
  <2> HIDE DEF ms
  <2> QED
    BY <2>2, <2>3 DEF Event
<1> QED
  BY <1>1, <1>2

NumberedChecks(events) ==
  \A i, j \in DOMAIN events :
    i < j /\ events[i].kind = "check" /\ events[j].kind = "check" =>
      events[i].seq < events[j].seq

LEMMA NumberedStep ==
  ASSUME NEW events \in Seq(Event), NEW e \in Event, NumberedChecks(events),
         NEW s \in Summary, ChecksSeen(s, events), e.kind = "check" => s.last < e.seq
  PROVE  NumberedChecks(Append(events, e))
<1> DEFINE more == Append(events, e)
<1>1. s.last \in Int /\ e.seq \in Int /\ \A i \in DOMAIN events : events[i].seq \in Int
  <2>1. \A i \in DOMAIN events : events[i] \in Event
    OBVIOUS
  <2> QED
    BY <2>1, SummaryParts, EventParts, MaxSequenceAssumption DEF SequenceNo
<1>2. ASSUME NEW i \in DOMAIN more, NEW j \in DOMAIN more,
             i < j, more[i].kind = "check", more[j].kind = "check"
      PROVE  more[i].seq < more[j].seq
  <2>1. i \in DOMAIN events /\ more[i] = events[i]
    BY <1>2, AppendParts
  <2>2. CASE j \in DOMAIN events
    <3>1. more[j] = events[j]
      BY <2>2, AppendParts
    <3> HIDE DEF more
    <3> QED
      BY <1>2, <2>1, <2>2, <3>1 DEF NumberedChecks
  <2>3. CASE j = Len(events) + 1
    <3>1. more[j] = e
      BY <2>3, AppendParts
    <3>2. events[i].seq <= s.last
      BY <1>2, <2>1 DEF ChecksSeen
    <3> HIDE DEF more
    <3> QED
      BY <1>1, <1>2, <2>1, <3>1, <3>2
  <2> QED
    BY <2>2, <2>3, AppendParts
<1> QED
  BY <1>2 DEF NumberedChecks

LEMMA NumberedPrefix ==
  ASSUME NEW a \in Seq(Event), NEW b \in Seq(Event), NumberedChecks(a \o b)
  PROVE  NumberedChecks(a)
<1>1. \A i \in DOMAIN a : i \in DOMAIN (a \o b) /\ (a \o b)[i] = a[i]
  OBVIOUS
<1> QED
  BY <1>1 DEF NumberedChecks

(* Events that lead to a state, as the state of a daemon that holds it.    *)
LeadsTo(events, st) ==
  /\ events \in Seq(Event)
  /\ Replay(events) = [ok |-> TRUE, state |-> st]
  /\ NumberedChecks(events)

LEMMA LeadsToGood ==
  ASSUME NEW events, NEW st, LeadsTo(events, st)
  PROVE  Good(st, events)
<1>1. Replay(events).ok /\ Replay(events).state = st
  BY DEF LeadsTo
<1> QED
  BY <1>1, ReplayIsGood DEF LeadsTo

LEMMA LeadsToStep ==
  ASSUME NEW events, NEW st, LeadsTo(events, st), NEW e \in Event, Applicable(st, e),
         e.kind = "check" => st.summary.last < e.seq
  PROVE  LeadsTo(Append(events, e), ApplyStateEffect(st, e))
<1>1. Good(st, events)
  BY LeadsToGood
<1>2. Append(events, e) \in Seq(Event)
  BY AppendParts DEF LeadsTo
<1>3. Replay(Append(events, e)) = [ok |-> TRUE, state |-> ApplyStateEffect(st, e)]
  BY ReplayAppend DEF LeadsTo, ApplyIfPossible
<1>4. st.summary \in Summary /\ ChecksSeen(st.summary, events)
  BY <1>1 DEF Good, SessionType
<1>5. NumberedChecks(Append(events, e))
  BY <1>4, NumberedStep DEF LeadsTo
<1> QED
  BY <1>2, <1>3, <1>5 DEF LeadsTo

(* A session that is reconciled is one that a shell state delta changed.   *)
LEMMA ReconciledStep ==
  ASSUME NEW events, NEW before, LeadsTo(events, before), NEW report \in Report,
         Preparable(before, Reconciliation(before, report))
  PROVE  LET delta == Reconciliation(before, report)
             e == DeltaEvent(before.summary.last, delta)
         IN  /\ delta # <<>> => e \in Event /\ Applicable(before, e)
             /\ LeadsTo(IF delta = <<>> THEN events ELSE Append(events, e),
                        Reconciled(before, delta))
<1> DEFINE delta == Reconciliation(before, report)
           e == DeltaEvent(before.summary.last, delta)
<1> SUFFICES /\ delta # <<>> => e \in Event /\ Applicable(before, e)
             /\ LeadsTo(IF delta = <<>> THEN events ELSE Append(events, e),
                        Reconciled(before, delta))
  OBVIOUS
<1>1. before \in SessionType /\ report \in ReportType
  BY LeadsToGood, ReportAssumption DEF Good
<1>2. delta \in Seq(Mutation) /\ (delta # <<>> => before.summary.last \in SequenceNo)
  BY <1>1, ReconciliationFacts
<1>3. Preparable(before, delta)
  OBVIOUS
<1>4. CASE delta = <<>>
  <2>1. Reconciled(before, delta) = before
    BY <1>4 DEF Reconciled
  <2> QED
    BY <1>4, <2>1
<1> HIDE DEF delta
<1>5. CASE delta # <<>>
  <2>1. e \in Event
    BY <1>2, <1>5, EventTypes
  <2>2. e.kind = "delta" /\ e.seq = before.summary.last /\ e.mutations = delta
    BY DEF DeltaEvent
  <2> HIDE DEF e
  <2>3. Applicable(before, e)
    BY <1>3, <1>5, <2>2 DEF Preparable, Applicable
  <2>4. ApplyStateEffect(before, e) = Reconciled(before, delta)
    BY <1>5, <2>2 DEF ApplyStateEffect, Reconciled
  <2>5. LeadsTo(Append(events, e), Reconciled(before, delta))
    BY <2>1, <2>2, <2>3, <2>4, LeadsToStep
  <2> QED
    BY <1>5, <2>1, <2>3, <2>5 DEF e
<1> QED
  BY <1>4, <1>5 DEF delta, e

-----------------------------------------------------------------------------
(* The invariant: the events sent so far lead to the session that is held, *)
(* and nothing is on the way to the log when a session is restored.        *)

HistoryInv ==
  /\ TypeOK
  /\ \E st : LeadsTo(History, st) /\ (loaded => session = st)
  /\ phase # "serving" => ~loaded
  /\ (phase = "down" \/ (phase = "serving" /\ ~loaded)) => queue = <<>>

LEMMA InitHistoryInv == Init => HistoryInv
<1> SUFFICES ASSUME Init PROVE HistoryInv
  OBVIOUS
<1>1. History = <<>>
  BY DEF Init, History
<1>2. LeadsTo(<<>>, NewSession)
  BY ReplayNil DEF LeadsTo, Beginning, NumberedChecks
<1>3. NewSession \in SessionType
  BY GoodNew DEF Good
<1>4. TypeOK
  <2>1. session \in [summary : Summary, graph : Graph(Command)]
    BY <1>3 DEF Init, SessionType
  <2>2. log \in Seq(Event) /\ queue \in Seq(Event) /\ covered \in 0..Len(log)
    BY DEF Init
  <2> QED
    BY <2>1, <2>2 DEF Init, TypeOK, Phase
<1> QED
  BY <1>1, <1>2, <1>4 DEF Init, HistoryInv

(* The session as the next request finds it is the one its events lead to. *)
LEMMA CurrentFacts ==
  ASSUME HistoryInv, Ready
  PROVE  LeadsTo(History, Current)
<1>1. PICK st : LeadsTo(History, st) /\ (loaded => session = st)
  BY DEF HistoryInv
<1>2. CASE loaded
  BY <1>1, <1>2 DEF Current
<1>3. CASE ~loaded
  <2>1. queue = <<>> /\ log \in Seq(Event)
    BY <1>3 DEF HistoryInv, Ready, TypeOK
  <2>2. History = log
    BY <2>1 DEF History
  <2>3. Replay(log).state = st
    BY <1>1, <2>2 DEF LeadsTo
  <2> QED
    BY <1>1, <1>3, <2>3 DEF Current
<1> QED
  BY <1>2, <1>3

LEMMA HistoryParts ==
  ASSUME TypeOK
  PROVE  /\ log \in Seq(Event) /\ queue \in Seq(Event) /\ History \in Seq(Event)
         /\ \A e \in Event :
              /\ log \o (queue \o <<e>>) = Append(History, e)
              /\ queue \o <<e>> \in Seq(Event)
         /\ \A d, e \in Event :
              /\ log \o (queue \o <<d, e>>) = Append(Append(History, d), e)
              /\ queue \o <<d, e>> \in Seq(Event)
<1>1. log \in Seq(Event) /\ queue \in Seq(Event)
  BY DEF TypeOK
<1> QED
  BY SMTT(30), <1>1 DEF History

(* The events before a check's own: a reconciliation comes first.          *)
Before(events, before, delta) ==
  IF delta = <<>> THEN events ELSE Append(events, DeltaEvent(before.summary.last, delta))

(* What an answered check does.                                            *)
Checked(report, before, state, event) ==
  /\ LeadsTo(History, before)
  /\ LeadsTo(Before(History, before, Reconciliation(before, report)), state)
  /\ state = Reconciled(before, Reconciliation(before, report))
  /\ \E command \in Command, allowed \in BOOLEAN :
       event = CheckEvent(NextSequenceNo(state), command, report, allowed)
  /\ event \in Event
  /\ event.kind = "check" /\ event.report = report /\ event.seq = NextSequenceNo(state)
  /\ state.summary.last < event.seq
  /\ Applicable(state, event)
  /\ loaded' = TRUE
  /\ session' = ApplyStateEffect(state, event)
  /\ History' = Append(Before(History, before, Reconciliation(before, report)), event)
  /\ queue' \in Seq(Event)
  /\ UNCHANGED <<phase, error, log, covered, known>>

LEMMA CheckStep ==
  ASSUME HistoryInv, NEW report \in Report, Check(report)
  PROVE  \/ Fail("check")
         \/ \E before, state, event : Checked(report, before, state, event)
<1> DEFINE before == Current
           delta == Reconciliation(before, report)
           state == Reconciled(before, delta)
           n == NextSequenceNo(state)
           d == DeltaEvent(before.summary.last, delta)
           mid == Before(History, before, delta)
<1>1. Ready /\ Preparable(before, delta) /\ n <= MaxSequence
  BY DEF Check
<1>2. PICK command \in Command, allowed \in BOOLEAN :
        LET event == CheckEvent(n, command, report, allowed)
        IN  IF Applicable(state, event)
              THEN Answer(ApplyStateEffect(state, event),
                     IF delta = <<>> THEN <<event>> ELSE <<d, event>>)
              ELSE Fail("check")
  BY DEF Check
<1> DEFINE event == CheckEvent(n, command, report, allowed)
<1>3. CASE ~Applicable(state, event)
  BY <1>2, <1>3
<1>4. CASE Applicable(state, event)
  <2>1. LeadsTo(History, before)
    BY <1>1, CurrentFacts
  <2> HIDE DEF before
  <2>2. LeadsTo(mid, state) /\ (delta # <<>> => d \in Event)
    BY <1>1, <2>1, ReconciledStep DEF Before
  <2>3. Answer(ApplyStateEffect(state, event), IF delta = <<>> THEN <<event>> ELSE <<d, event>>)
    BY <1>2, <1>4
  <2> HIDE DEF state
  <2>4. n \in SequenceNo /\ state.summary.last < n
    <3>1. state.summary.last \in SequenceNo \union {Never}
      BY <2>2, LeadsToGood, SummaryParts DEF Good, SessionType
    <3> QED
      BY <1>1, <3>1, MaxSequenceAssumption DEF NextSequenceNo, SequenceNo, Never
  <2> HIDE DEF n
  <2>5. event \in Event
    BY <2>4, EventTypes
  <2>6. event.kind = "check" /\ event.report = report /\ event.seq = n
    BY DEF CheckEvent
  <2> HIDE DEF event, delta, d
  <2>7. History' = Append(mid, event) /\ queue' \in Seq(Event)
    <3>1. TypeOK
      BY DEF HistoryInv
    <3>2. History' = log \o queue'
      BY <2>3 DEF Answer, History
    <3>3. CASE delta = <<>>
      <4>1. queue' = queue \o <<event>>
        BY <2>3, <3>3 DEF Answer
      <4>2. mid = History
        BY <3>3 DEF Before
      <4> HIDE DEF mid
      <4> QED
        BY <2>5, <3>1, <3>2, <4>1, <4>2, HistoryParts
    <3>4. CASE delta # <<>>
      <4>1. queue' = queue \o <<d, event>>
        BY <2>3, <3>4 DEF Answer
      <4>2. mid = Append(History, d) /\ d \in Event
        BY <2>2, <3>4 DEF Before, d
      <4> HIDE DEF mid
      <4> QED
        BY <2>5, <3>1, <3>2, <4>1, <4>2, HistoryParts
    <3> QED
      BY <3>3, <3>4
  <2>8. loaded' = TRUE /\ session' = ApplyStateEffect(state, event)
        /\ UNCHANGED <<phase, error, log, covered, known>>
    BY <2>3 DEF Answer
  <2>9. Checked(report, before, state, event)
    BY <1>4, <2>1, <2>2, <2>4, <2>5, <2>6, <2>7, <2>8 DEF Checked, state, event, n, delta
  <2> QED
    BY <2>9
<1> QED
  BY <1>3, <1>4

(* Clients report what they observe: they predict nothing.                 *)
LEMMA ClientsObserve ==
  ASSUME NEW delta \in ClientDelta
  PROVE  /\ delta \in Seq(Mutation)
         /\ \A d \in Directory : SetCwd(d, "static") \notin Range(delta)
<1> DEFINE predicted == {SetCwd(d, "static") : d \in Directory}
           observed == Mutation \ ({Anchor} \union predicted)
<1>1. delta \in Seq(observed) /\ observed \subseteq Mutation
  BY ClientDeltaAssumption
<1>2. \A d \in Directory : SetCwd(d, "static") \notin observed
  OBVIOUS
<1> HIDE DEF observed
<1>3. delta \in Seq(Mutation) /\ \A i \in DOMAIN delta : delta[i] \in observed
  BY <1>1
<1> QED
  BY <1>2, <1>3 DEF Range

(* A shell state delta of a client.                                        *)
DeltaReported(n, delta, before) ==
  LET e == DeltaEvent(n, delta)
  IN  /\ LeadsTo(History, before)
      /\ e \in Event
      /\ LeadsTo(Append(History, e), CommitObserved(before, delta, n))
      /\ loaded' = TRUE
      /\ session' = CommitObserved(before, delta, n)
      /\ History' = Append(History, e)
      /\ queue' \in Seq(Event)
      /\ UNCHANGED <<phase, error, log, covered, known>>

LEMMA DeltaStep ==
  ASSUME HistoryInv, NEW n \in 1..MaxSequence, NEW ms \in ClientDelta, ShellStateDelta(n, ms)
  PROVE  Fail("delta") \/ DeltaReported(n, ms, Current)
<1> DEFINE before == Current
           e == DeltaEvent(n, ms)
<1>1. Ready
  BY DEF ShellStateDelta
<1>2. IF Observable(before, ms, n) THEN Answer(CommitObserved(before, ms, n), <<e>>)
                                   ELSE Fail("delta")
  BY DEF ShellStateDelta
<1>3. CASE ~Observable(before, ms, n)
  BY <1>2, <1>3
<1>4. CASE Observable(before, ms, n)
  <2>1. LeadsTo(History, before)
    BY <1>1, CurrentFacts
  <2>2. Answer(CommitObserved(before, ms, n), <<e>>)
    BY <1>2, <1>4
  <2> HIDE DEF before
  <2>3. n \in SequenceNo /\ ms \in Seq(Mutation)
    BY ClientsObserve, MaxSequenceAssumption DEF SequenceNo
  <2>4. e \in Event
    BY <2>3, EventTypes
  <2>5. e.kind = "delta" /\ e.seq = n /\ e.mutations = ms
    BY DEF DeltaEvent
  <2> HIDE DEF e
  <2>6. Applicable(before, e) /\ ApplyStateEffect(before, e) = CommitObserved(before, ms, n)
    BY <1>4, <2>5 DEF Applicable, ApplyStateEffect
  <2>7. LeadsTo(Append(History, e), CommitObserved(before, ms, n))
    BY <2>1, <2>4, <2>5, <2>6, LeadsToStep
  <2>8. History' = Append(History, e) /\ queue' \in Seq(Event)
    <3>1. History' = log \o (queue \o <<e>>) /\ queue' = queue \o <<e>>
      BY <2>2 DEF Answer, History
    <3>2. TypeOK
      BY DEF HistoryInv
    <3> QED
      BY <2>4, <3>1, <3>2, HistoryParts
  <2>9. loaded' = TRUE /\ session' = CommitObserved(before, ms, n)
        /\ UNCHANGED <<phase, error, log, covered, known>>
    BY <2>2 DEF Answer
  <2> QED
    BY <2>1, <2>4, <2>7, <2>8, <2>9 DEF DeltaReported, before, e
<1> QED
  BY <1>3, <1>4

(* What a failed request and a kill leave.                                 *)
LEMMA FailStep ==
  ASSUME HistoryInv, NEW failure \in Failure, Fail(failure)
  PROVE  HistoryInv' /\ History' = History /\ ~loaded'
<1>1. TypeOK /\ \E st : LeadsTo(History, st)
  BY DEF HistoryInv
<1>2. History' = History /\ ~loaded' /\ phase' = "ending"
  BY DEF Fail, History
<1>3. NewSession \in [summary : Summary, graph : Graph(Command)]
  BY GoodNew DEF Good, SessionType
<1>4. TypeOK'
  BY <1>1, <1>3 DEF Fail, TypeOK, Phase
<1>5. (\E st : LeadsTo(History, st))'
  BY <1>1, <1>2
<1> QED
  BY <1>2, <1>4, <1>5 DEF HistoryInv

LEMMA KillStep ==
  ASSUME HistoryInv, Kill
  PROVE  /\ HistoryInv' /\ ~loaded'
         /\ History = History' \o queue /\ queue \in Seq(Event) /\ History' \in Seq(Event)
<1>1. TypeOK
  BY DEF HistoryInv
<1>2. PICK st : LeadsTo(History, st)
  BY DEF HistoryInv
<1>3. log \in Seq(Event) /\ queue \in Seq(Event)
  BY <1>1 DEF TypeOK
<1>4. log' = log /\ queue' = <<>> /\ loaded' = FALSE /\ phase' = "down" /\ session' = NewSession
      /\ error' = "none" /\ known' = FALSE /\ covered' = covered
  BY DEF Kill
<1>5. History' = log
  BY <1>3, <1>4 DEF History
<1>6. Replay(log).ok
  BY <1>2, <1>3, ReplayOkPrefix DEF LeadsTo, History
<1>7. NumberedChecks(log)
  BY <1>2, <1>3, NumberedPrefix DEF LeadsTo, History
<1>8. LeadsTo(log, Replay(log).state)
  BY <1>3, <1>6, <1>7, ReplayIsGood DEF LeadsTo
<1>9. NewSession \in [summary : Summary, graph : Graph(Command)]
  BY GoodNew DEF Good, SessionType
<1>10. <<>> \in Seq(Event)
  OBVIOUS
<1>11. TypeOK'
  <2>1. queue' \in Seq(Event) /\ log' \in Seq(Event) /\ covered' \in 0..Len(log')
    BY <1>1, <1>4, <1>10 DEF TypeOK
  <2>2. session' \in [summary : Summary, graph : Graph(Command)]
    BY <1>4, <1>9
  <2> QED
    BY <1>4, <2>1, <2>2 DEF TypeOK, Phase
<1>12. (\E st2 : LeadsTo(History, st2))'
  BY <1>5, <1>8
<1>13. HistoryInv'
  BY <1>4, <1>11, <1>12 DEF HistoryInv
<1> QED
  BY <1>3, <1>4, <1>5, <1>13 DEF History

LEMMA AnsweredInv ==
  ASSUME HistoryInv, phase = "serving", NEW st, LeadsTo(History', st), loaded' = TRUE, session' = st,
         queue' \in Seq(Event), UNCHANGED <<phase, error, log, covered, known>>
  PROVE  HistoryInv'
<1>1. TypeOK
  BY DEF HistoryInv
<1>2. st \in [summary : Summary, graph : Graph(Command)]
  BY LeadsToGood DEF Good, SessionType
<1>3. TypeOK'
  BY <1>1, <1>2 DEF TypeOK
<1>4. (\E s : LeadsTo(History, s) /\ (loaded => session = s))'
  OBVIOUS
<1> QED
  BY <1>3, <1>4 DEF HistoryInv

LEMMA NextHistoryInv ==
  ASSUME HistoryInv, [Next]_vars
  PROVE  HistoryInv'
<1>1. TypeOK
  BY DEF HistoryInv
<1>2. PICK st : LeadsTo(History, st) /\ (loaded => session = st)
  BY DEF HistoryInv
<1>3. CASE Start
  <2>1. TypeOK'
    BY <1>1, <1>3 DEF Start, TypeOK, Phase
  <2>2. History' = History
    BY <1>3 DEF Start, History
  <2> QED
    BY <1>2, <1>3, <2>1, <2>2 DEF HistoryInv, Start
<1>4. CASE End
  <2>1. TypeOK'
    BY <1>1, <1>4 DEF End, TypeOK, Phase
  <2>2. History' = History
    BY <1>4 DEF End, History
  <2> QED
    BY <1>2, <1>4, <2>1, <2>2 DEF HistoryInv, End
<1>5. CASE RestoreFails
  BY <1>5, FailStep DEF RestoreFails, Failure
<1>6. CASE \E report \in Report : PrepareFails(report)
  BY <1>6, FailStep DEF PrepareFails, Failure
<1>7. ASSUME NEW report \in Report, Check(report)
      PROVE  HistoryInv'
  <2>1. CASE Fail("check")
    BY <2>1, FailStep DEF Failure
  <2>2. CASE \E before, state, event : Checked(report, before, state, event)
    <3>1. PICK before, state, event : Checked(report, before, state, event)
      BY <2>2
    <3>2. LeadsTo(History', session')
      BY <3>1, LeadsToStep DEF Checked
    <3>3. phase = "serving"
      BY <1>7 DEF Check, Ready
    <3> QED
      BY <3>1, <3>2, <3>3, AnsweredInv DEF Checked
  <2> QED
    BY <1>7, <2>1, <2>2, CheckStep
<1>8. ASSUME NEW n \in 1..MaxSequence, NEW delta \in ClientDelta, ShellStateDelta(n, delta)
      PROVE  HistoryInv'
  <2>1. CASE Fail("delta")
    BY <2>1, FailStep DEF Failure
  <2>2. CASE DeltaReported(n, delta, Current)
    <3>1. LeadsTo(History', session')
      BY <2>2 DEF DeltaReported
    <3>2. phase = "serving"
      BY <1>8 DEF ShellStateDelta, Ready
    <3> QED
      BY <2>2, <3>1, <3>2, AnsweredInv DEF DeltaReported
  <2> QED
    BY <1>8, <2>1, <2>2, DeltaStep
<1>9. CASE AppendEvent
  <2>1. /\ log \in Seq(Event) /\ queue \in Seq(Event) /\ queue # <<>>
        /\ log' = Append(log, Head(queue)) /\ queue' = Tail(queue)
        /\ UNCHANGED <<phase, error, loaded, session, covered, known>>
    BY <1>1, <1>9 DEF TypeOK, AppendEvent
  <2>2. /\ History' = History /\ log' \in Seq(Event) /\ queue' \in Seq(Event)
        /\ Len(log') = Len(log) + 1 /\ Len(log) \in Nat
    BY <2>1 DEF History
  <2>3. TypeOK'
    BY <1>1, <2>1, <2>2 DEF TypeOK
  <2> QED
    BY <1>2, <2>1, <2>2, <2>3 DEF HistoryInv
<1>10. CASE CheckpointUpdate
  <2>1. TypeOK'
    BY <1>1, <1>10 DEF CheckpointUpdate, TypeOK
  <2>2. History' = History
    BY <1>10 DEF CheckpointUpdate, History
  <2> QED
    BY <1>2, <1>10, <2>1, <2>2 DEF HistoryInv, CheckpointUpdate
<1>11. CASE Kill
  BY <1>11, KillStep
<1>12. CASE UNCHANGED vars
  <2>1. TypeOK' /\ History' = History
    BY <1>1, <1>12 DEF vars, TypeOK, History
  <2> QED
    BY <1>2, <1>12, <2>1 DEF HistoryInv, vars
<1> QED
  BY <1>3, <1>4, <1>5, <1>6, <1>7, <1>8, <1>9, <1>10, <1>11, <1>12 DEF Next

(* The history of a session keeps its invariant, for any commands, reports *)
(* and deltas, across any number of kills and restarts.                    *)
THEOREM HistoryCorrect == Spec => []HistoryInv
<1> QED
  BY InitHistoryInv, NextHistoryInv, PTL DEF Spec

(* Every variable keeps its type, and a summary never holds the trace of a *)
(* binding that was removed.                                               *)
THEOREM HistoryTypeCorrect == Spec => []TypeOK
<1>1. HistoryInv => TypeOK
  BY DEF HistoryInv
<1> QED
  BY <1>1, HistoryCorrect, PTL

(* The daemon that holds a session believes what a restore of the events   *)
(* sent so far would believe.                                              *)
THEOREM RestoredIsLiveHolds == Spec => []RestoredIsLive
<1>1. HistoryInv => RestoredIsLive
  BY DEF HistoryInv, RestoredIsLive, LeadsTo
<1> QED
  BY <1>1, HistoryCorrect, PTL

(* The numbers of the checks increase, across denials, restores and kills. *)
THEOREM ChecksAreNumberedHolds == Spec => []ChecksAreNumbered
<1>1. HistoryInv => ChecksAreNumbered
  BY DEF HistoryInv, ChecksAreNumbered, LeadsTo, NumberedChecks
<1> QED
  BY <1>1, HistoryCorrect, PTL

(* Every fact of the graph was committed by an allowed command or a delta. *)
THEOREM FactsAreExplainedHolds == Spec => []FactsAreExplained
<1>1. ASSUME HistoryInv PROVE FactsAreExplained
  <2>1. PICK st : LeadsTo(History, st) /\ (loaded => session = st)
    BY <1>1 DEF HistoryInv
  <2> QED
    BY <2>1, LeadsToGood DEF Good, FactsAreExplained
<1> QED
  BY <1>1, HistoryCorrect, PTL

-----------------------------------------------------------------------------
(* The directory.  A directory is learned from the runtime or predicted.   *)

LEMMA ReconciledCwd ==
  ASSUME NEW st, NEW events, Good(st, events), NEW report \in ReportType, Capabilities.cwd
  PROVE  LET s == Reconciled(st, Reconciliation(st, report)).summary
         IN  s.cwd = NoCwd \/ s.cwd.path = report.cwd \/ s.cwd.source = "static"
<1> DEFINE s0 == st.summary
           n == s0.last
           delta == Reconciliation(st, report)
           D == Differences(st, report)
           s == Reconciled(st, delta).summary
<1> SUFFICES s.cwd = NoCwd \/ s.cwd.path = report.cwd \/ s.cwd.source = "static"
  OBVIOUS
<1>1. st \in SessionType /\ s0 \in Summary /\ Stamped(s0)
  BY DEF Good, SessionType
<1>2. n \in SequenceNo \union {Never}
  BY <1>1, SummaryParts
<1>3. CASE n = Never
  <2>1. s0.cwd.at <= Never /\ s0.cwd \in Cwd
    BY <1>1, <1>3, SummaryParts DEF Stamped
  <2>2. \A c \in [path : Directory, at : SequenceNo, source : Source] : ~(c.at <= Never)
    BY MaxSequenceAssumption DEF SequenceNo, Never
  <2>3. delta = <<>>
    BY <1>3 DEF Reconciliation
  <2>4. s = s0
    BY <2>3 DEF Reconciled
  <2> QED
    BY <2>1, <2>2, <2>4 DEF Cwd
<1>4. CASE n # Never
  <2>1. ASSUME SetCwd(report.cwd, "runtime") \notin D
        PROVE  s0.cwd = NoCwd \/ s0.cwd.path = report.cwd \/ s0.cwd.source = "static"
    BY <2>1 DEF Differences, ReconcileCwd, ShouldReconcileCwd
  <2>2. CASE delta = <<>>
    <3>1. D = {}
      BY <1>1, <1>4, <2>2, ReconciliationFacts
    <3>2. s = s0
      BY <2>2 DEF Reconciled
    <3> HIDE DEF D, s, s0
    <3> QED
      BY <2>1, <3>1, <3>2
  <2>3. CASE delta # <<>>
    <3>1. /\ delta \in Seq(Mutation) /\ n \in SequenceNo
          /\ \A i \in DOMAIN delta : delta[i] = Anchor \/ delta[i] \in D
          /\ \A m \in D : \E i \in DOMAIN delta : delta[i] = m
      BY <1>1, <2>3, ReconciliationFacts
    <3>2. s = MutatedSummary(s0, delta, n)
      BY <2>3 DEF Reconciled, CommitObserved
    <3>3. \A m \in D : m.op = "cwd" => m = SetCwd(report.cwd, "runtime")
      BY <1>1, DifferencesFacts
    <3> HIDE DEF s, delta, D
    <3>4. PICK r : SummaryRun(r, s0, delta, n) /\ s = r[Len(delta)]
      BY <3>1, <3>2, MutatedSummaryRun
    <3>5. s0.cwd.at <= n
      BY <1>1 DEF Stamped
    <3>6. Len(delta) \in 0..Len(delta) /\ DOMAIN delta = 1..Len(delta)
      BY <3>1
    <3>7. /\ s.cwd # s0.cwd => \E j \in 1..Len(delta) : delta[j].op = "cwd" /\ s.cwd = CwdOf(delta[j], n)
          /\ \A j \in 1..Len(delta) : delta[j].op = "cwd" =>
               \E l \in 1..Len(delta) : delta[l].op = "cwd" /\ s.cwd = CwdOf(delta[l], n)
      BY SMTT(30), <1>1, <3>1, <3>4, <3>5, <3>6, SummaryRunFacts
    <3>8. \A j \in 1..Len(delta) : delta[j].op = "cwd" => delta[j] = SetCwd(report.cwd, "runtime")
      BY <3>1, <3>3, <3>6 DEF Anchor
    <3>9. CwdOf(SetCwd(report.cwd, "runtime"), n).path = report.cwd
      BY DEF CwdOf, SetCwd
    <3>10. CASE \E j \in 1..Len(delta) : delta[j].op = "cwd"
      BY <3>7, <3>8, <3>9, <3>10
    <3>11. CASE ~\E j \in 1..Len(delta) : delta[j].op = "cwd"
      <4>1. s.cwd = s0.cwd
        BY <3>7, <3>11
      <4>2. SetCwd(report.cwd, "runtime").op = "cwd"
        BY DEF SetCwd
      <4>3. SetCwd(report.cwd, "runtime") \notin D
        BY <3>1, <3>6, <3>11, <4>2
      <4> QED
        BY <2>1, <4>1, <4>3 DEF D
    <3> QED
      BY <3>10, <3>11
  <2> QED
    BY <2>2, <2>3
<1> QED
  BY <1>2, <1>3, <1>4

LEMMA CheckedCwd ==
  ASSUME NEW report \in Report, NEW before, NEW state, NEW event,
         Checked(report, before, state, event), Capabilities.cwd
  PROVE  session'.summary.cwd.path = report.cwd \/ session'.summary.cwd.source = "static"
<1> DEFINE s == state.summary
           t == session'.summary
           n == event.seq
<1>1. PICK command \in Command, allowed \in BOOLEAN :
        event = CheckEvent(NextSequenceNo(state), command, report, allowed)
  BY DEF Checked
<1>2. /\ event \in Event /\ event.kind = "check" /\ event.report = report
      /\ session' = ApplyStateEffect(state, event)
      /\ state = Reconciled(before, Reconciliation(before, report))
  BY DEF Checked
<1>3. n \in SequenceNo /\ event.mutations \in Seq(Mutation) /\ report \in ReportType
  BY <1>2, EventParts
<1>4. s \in Summary /\ Stamped(s) /\ state \in SessionType
  BY LeadsToGood DEF Checked, Good, SessionType
<1>5. s.cwd = NoCwd \/ s.cwd.path = report.cwd \/ s.cwd.source = "static"
  <2>1. \E events : Good(before, events)
    BY LeadsToGood DEF Checked
  <2> QED
    BY <1>2, <1>3, <2>1, ReconciledCwd
<1>6. ASSUME NEW a, SeededFrom(s, report, n, a)
      PROVE  a.cwd.path = report.cwd \/ a.cwd.source = "static"
  <2> HIDE DEF s, n
  <2> QED
    BY <1>5, <1>6 DEF SeededFrom
<1>7. CASE ~event.allowed
  <2>1. session' = ObserveRequest(state, report, n)
    BY <1>2, <1>7 DEF ApplyStateEffect
  <2>2. t = ObserveSequence(Seeded(s, report, n), n)
    BY <1>4, <2>1 DEF ObserveRequest, SessionType
  <2> HIDE DEF s, t, n
  <2>3. SeededFrom(s, report, n, t)
    BY <1>3, <1>4, <2>2, ObservedSummary
  <2> QED
    BY <1>6, <2>3 DEF t
<1>8. CASE event.allowed
  <2> DEFINE ms == event.mutations
  <2>1. session' = CommitAllowedRequest(state, ms, event.command, report, n)
    BY <1>2, <1>8 DEF ApplyStateEffect
  <2>2. t = AllowedSummary(s, ms, report, n)
    <3> DEFINE g == MutatedGraph([state.graph EXCEPT !.requests[n] = event.command], ms, n)
    <3>1. session' = [summary |-> AllowedSummary(s, ms, report, n), graph |-> g]
      BY <1>4, <2>1, AllowedState
    <3> HIDE DEF g
    <3> QED
      BY <3>1
  <2>3. ms = CommandMutations(command, report)
    BY <1>1, <1>8 DEF CheckEvent
  <2>4. \A j \in 1..Len(ms) : ms[j].op = "cwd" => ms[j].source = "static"
    BY <1>3, <2>3, CommandMutationsType
  <2> HIDE DEF s, t, n, ms
  <2>5. PICK a, b \in Summary :
           /\ SeededFrom(s, report, n, a)
           /\ b.cwd # a.cwd => \E j \in 1..Len(ms) : ms[j].op = "cwd" /\ b.cwd = CwdOf(ms[j], n)
           /\ SeededFrom(b, report, n, t)
    <3>1. ms \in Seq(Mutation)
      BY <1>3 DEF ms
    <3> QED
      BY <1>3, <1>4, <2>2, <3>1, AllowedSummaryStep
  <2>6. b.cwd.path = report.cwd \/ b.cwd.source = "static"
    <3>1. a.cwd.path = report.cwd \/ a.cwd.source = "static"
      BY <1>6, <2>5
    <3>2. \A j \in 1..Len(ms) : CwdOf(ms[j], n).source = ms[j].source
      BY DEF CwdOf
    <3> QED
      BY <2>4, <2>5, <3>1, <3>2
  <2>7. t.cwd = b.cwd \/ t.cwd.path = report.cwd
    BY <2>5 DEF SeededFrom
  <2> QED
    BY <2>6, <2>7 DEF t
<1> QED
  BY <1>7, <1>8

DirectoryInv ==
  /\ HistoryInv
  /\ NoStaticDeltas(History)
  /\ DirectoryIsReportedOrPredicted

LEMMA NoStaticDeltasStep ==
  ASSUME NEW events \in Seq(Event), NEW e \in Event, NoStaticDeltas(events),
         e.kind = "delta" => \A d \in Directory : SetCwd(d, "static") \notin Range(e.mutations)
  PROVE  NoStaticDeltas(Append(events, e))
BY AppendParts DEF NoStaticDeltas

LEMMA LastOfAppend ==
  ASSUME NEW events \in Seq(Event), NEW e \in Event
  PROVE  Last(Append(events, e)) = e /\ Append(events, e) # <<>>
BY DEF Last

LEMMA CheckedDeltas ==
  ASSUME NEW report \in Report, NEW before, NEW state, NEW event,
         Checked(report, before, state, event), NoStaticDeltas(History)
  PROVE  NoStaticDeltas(History')
<1> DEFINE delta == Reconciliation(before, report)
           d == DeltaEvent(before.summary.last, delta)
           mid == Before(History, before, delta)
<1>1. /\ History' = Append(mid, event) /\ event \in Event /\ event.kind = "check"
      /\ mid \in Seq(Event) /\ History \in Seq(Event)
  BY DEF Checked, LeadsTo
<1>2. before \in SessionType /\ report \in ReportType
  BY LeadsToGood, ReportAssumption DEF Checked, Good
<1>3. NoStaticDeltas(mid)
  <2>1. CASE delta = <<>>
    BY <2>1 DEF Before
  <2>2. CASE delta # <<>>
    <3>1. delta \in Seq(Mutation) /\ before.summary.last \in SequenceNo
      BY <1>2, <2>2, ReconciliationFacts
    <3>2. d \in Event
      BY <3>1, EventTypes
    <3>3. d.mutations = delta
      BY DEF DeltaEvent
    <3>4. \A path \in Directory : SetCwd(path, "static") \notin Range(d.mutations)
      BY <1>2, <3>3, ReconciliationIsRuntime
    <3>5. mid = Append(History, d)
      BY <2>2 DEF Before
    <3> HIDE DEF mid, d
    <3> QED
      BY <1>1, <3>2, <3>4, <3>5, NoStaticDeltasStep
  <2> QED
    BY <2>1, <2>2
<1> HIDE DEF mid
<1> QED
  BY <1>1, <1>3, NoStaticDeltasStep

LEMMA NextDirectoryInv ==
  ASSUME DirectoryInv, [Next]_vars
  PROVE  DirectoryInv'
<1>1. HistoryInv /\ HistoryInv' /\ TypeOK
  BY NextHistoryInv DEF DirectoryInv, HistoryInv
<1>2. NoStaticDeltas(History) /\ DirectoryIsReportedOrPredicted
  BY DEF DirectoryInv
<1>3. ASSUME History' = History, (session' = session /\ loaded' = loaded) \/ ~loaded'
      PROVE  DirectoryInv'
  BY <1>1, <1>2, <1>3 DEF DirectoryInv, DirectoryIsReportedOrPredicted
<1>4. CASE Start
  BY <1>3, <1>4 DEF Start, History
<1>5. CASE End
  BY <1>3, <1>5 DEF End, History
<1>6. ASSUME NEW failure \in Failure, Fail(failure)
      PROVE  DirectoryInv'
  BY <1>1, <1>3, <1>6, FailStep
<1>7. ASSUME NEW report \in Report, Check(report)
      PROVE  DirectoryInv'
  <2>1. CASE Fail("check")
    BY <1>6, <2>1 DEF Failure
  <2>2. CASE \E before, state, event : Checked(report, before, state, event)
    <3>1. PICK before, state, event : Checked(report, before, state, event)
      BY <2>2
    <3>2. NoStaticDeltas(History')
      BY <1>2, <3>1, CheckedDeltas
    <3>3. Last(History') = event /\ event.report = report
      BY <3>1, LastOfAppend DEF Checked, LeadsTo
    <3>4. ASSUME Capabilities.cwd
          PROVE  \/ session'.summary.cwd.path = report.cwd
                 \/ \E i \in DOMAIN History' : PredictedBy(History'[i], session'.summary.cwd)
      <4>1. session'.summary.cwd.path = report.cwd \/ session'.summary.cwd.source = "static"
        BY <3>1, <3>4, CheckedCwd
      <4>2. Good(session', History')
        <5>1. LeadsTo(History', session')
          BY <3>1, LeadsToStep DEF Checked
        <5> QED
          BY <5>1, LeadsToGood
      <4> QED
        BY <3>2, <4>1, <4>2 DEF Good, CwdPredicted
    <3> QED
      BY <1>1, <3>2, <3>3, <3>4 DEF DirectoryInv, DirectoryIsReportedOrPredicted
  <2> QED
    BY <1>1, <1>7, <2>1, <2>2, CheckStep
<1>8. ASSUME NEW n \in 1..MaxSequence, NEW delta \in ClientDelta, ShellStateDelta(n, delta)
      PROVE  DirectoryInv'
  <2>1. CASE Fail("delta")
    BY <1>6, <2>1 DEF Failure
  <2>2. CASE DeltaReported(n, delta, Current)
    <3> DEFINE e == DeltaEvent(n, delta)
    <3>1. e \in Event /\ History' = Append(History, e) /\ History \in Seq(Event)
      BY <2>2 DEF DeltaReported, LeadsTo
    <3>2. e.kind = "delta" /\ \A d \in Directory : SetCwd(d, "static") \notin Range(e.mutations)
      BY ClientsObserve DEF DeltaEvent
    <3> HIDE DEF e
    <3>3. NoStaticDeltas(History')
      BY <1>2, <3>1, <3>2, NoStaticDeltasStep
    <3>4. Last(History') = e
      BY <3>1, LastOfAppend
    <3> QED
      BY <1>1, <3>2, <3>3, <3>4 DEF DirectoryInv, DirectoryIsReportedOrPredicted
  <2> QED
    BY <1>1, <1>8, <2>1, <2>2, DeltaStep
<1>9. CASE AppendEvent
  <2>1. /\ log \in Seq(Event) /\ queue \in Seq(Event) /\ queue # <<>>
        /\ log' = Append(log, Head(queue)) /\ queue' = Tail(queue)
        /\ session' = session /\ loaded' = loaded
    BY <1>1, <1>9 DEF TypeOK, AppendEvent
  <2>2. History' = History
    BY <2>1 DEF History
  <2> QED
    BY <1>3, <2>1, <2>2
<1>10. CASE CheckpointUpdate
  BY <1>3, <1>10 DEF CheckpointUpdate, History
<1>11. CASE Kill
  <2>1. /\ HistoryInv' /\ ~loaded'
        /\ History = History' \o queue /\ queue \in Seq(Event) /\ History' \in Seq(Event)
    BY <1>1, <1>11, KillStep
  <2> DEFINE a == History'
             b == History
  <2>2. \A i \in DOMAIN a : i \in DOMAIN b /\ b[i] = a[i]
    <3> HIDE DEF a, b
    <3> QED
      BY <2>1 DEF a, b
  <2> HIDE DEF a, b
  <2>3. NoStaticDeltas(a)
    BY <1>2, <2>2 DEF NoStaticDeltas, b
  <2> QED
    BY <2>1, <2>3 DEF DirectoryInv, DirectoryIsReportedOrPredicted, a
<1>12. CASE UNCHANGED vars
  BY <1>3, <1>12 DEF vars, History
<1> QED
  BY <1>4, <1>5, <1>6, <1>7, <1>8, <1>9, <1>10, <1>11, <1>12
  DEF Next, RestoreFails, PrepareFails, Failure

(* A directory other than the reported one is believed only because an     *)
(* allowed command predicted it.                                           *)
THEOREM DirectoryIsReportedOrPredictedHolds == Spec => []DirectoryIsReportedOrPredicted
<1>1. Init => DirectoryInv
  <2>1. Init => HistoryInv
    BY InitHistoryInv
  <2>2. Init => History = <<>> /\ loaded = FALSE
    BY DEF Init, History
  <2> QED
    BY <2>1, <2>2 DEF DirectoryInv, NoStaticDeltas, DirectoryIsReportedOrPredicted
<1>2. DirectoryInv /\ [Next]_vars => DirectoryInv'
  BY NextDirectoryInv
<1>3. DirectoryInv => DirectoryIsReportedOrPredicted
  BY DEF DirectoryInv
<1> QED
  BY <1>1, <1>2, <1>3, PTL DEF Spec

-----------------------------------------------------------------------------
(* The bindings.  Where nothing is reconciled, belief and report agree.    *)

LEMMA NoDifference ==
  ASSUME NEW st, NEW report \in ReportType, NEW k \in Kind, NEW x \in Name,
         Capabilities[k], report.known,
         \A m \in Differences(st, report) : ~ChangesBinding(m, k, x)
  PROVE  st.summary.bindings[k][x].value = report.values[k][x]
<1> DEFINE b == Bind(k, x, report.values[k][x])
           s == st.summary
<1>1. b \in ReportedBindings(report)
  BY ReportIsFinite
<1>2. b.op = "bind" /\ b.kind = k /\ b.name = x /\ b.value = report.values[k][x]
  BY DEF Bind
<1> HIDE DEF b
<1>3. CASE b.value # Unset
  <2>1. b \in Reported(report)
    BY <1>1, <1>3 DEF Reported
  <2>2. ChangesBinding(b, k, x)
    BY <1>2 DEF ChangesBinding
  <2>3. b \notin ReconcileBindings(s, report)
    BY <2>2 DEF Differences
  <2> QED
    BY <1>2, <2>1, <2>3 DEF ReconcileBindings
<1>4. CASE b.value = Unset
  <2> DEFINE u == Unbind(b.kind, b.name)
  <2>1. ChangesBinding(u, k, x)
    BY <1>2 DEF ChangesBinding, Unbind
  <2>2. u \notin ReconcileBindings(s, report)
    BY SMTT(30), <2>1 DEF Differences
  <2>3. s.bindings[b.kind][b.name] = NoBinding
    BY <1>1, <1>4, <2>2 DEF ReconcileBindings
  <2> QED
    BY <1>2, <1>4, <2>3 DEF NoBinding
<1> QED
  BY <1>3, <1>4

LEMMA ReconciledBinding ==
  ASSUME NEW st, NEW events, Good(st, events), NEW report \in ReportType,
         NEW k \in Kind, NEW x \in Name, Capabilities[k], report.known
  PROVE  LET s == Reconciled(st, Reconciliation(st, report)).summary
         IN  s.last = Never \/ s.bindings[k][x].value = report.values[k][x]
<1> DEFINE s0 == st.summary
           n == s0.last
           delta == Reconciliation(st, report)
           D == Differences(st, report)
           s == Reconciled(st, delta).summary
<1> SUFFICES s.last = Never \/ s.bindings[k][x].value = report.values[k][x]
  OBVIOUS
<1>1. st \in SessionType /\ s0 \in Summary /\ Stamped(s0)
  BY DEF Good, SessionType
<1>2. CASE n = Never
  <2>1. delta = <<>>
    BY <1>2 DEF Reconciliation
  <2>2. s = s0
    BY <2>1 DEF Reconciled
  <2> QED
    BY <1>2, <2>2
<1>3. CASE n # Never /\ delta = <<>>
  <2>1. D = {}
    BY <1>1, <1>3, ReconciliationFacts
  <2>2. s = s0
    BY <1>3 DEF Reconciled
  <2>3. s0.bindings[k][x].value = report.values[k][x]
    BY <2>1, NoDifference
  <2> QED
    BY <2>2, <2>3
<1>4. CASE n # Never /\ delta # <<>>
  <2>1. /\ delta \in Seq(Mutation) /\ n \in SequenceNo
        /\ \A i \in DOMAIN delta : delta[i] = Anchor \/ delta[i] \in D
        /\ \A m \in D : \E i \in DOMAIN delta : delta[i] = m
    BY <1>1, <1>4, ReconciliationFacts
  <2>2. s = MutatedSummary(s0, delta, n)
    BY <1>4 DEF Reconciled, CommitObserved
  <2>3. \A m \in D : ChangesBinding(m, k, x) => Outcome(m) = report.values[k][x]
    BY <1>1, DifferencesFacts DEF ChangesBinding
  <2>4. (\A m \in D : ~ChangesBinding(m, k, x)) => s0.bindings[k][x].value = report.values[k][x]
    BY NoDifference
  <2> HIDE DEF s, delta, D
  <2>5. PICK r : SummaryRun(r, s0, delta, n) /\ s = r[Len(delta)]
    BY <2>1, <2>2, MutatedSummaryRun
  <2>6. s0.bindings[k][x].at <= n
    BY <1>1 DEF Stamped
  <2>7. Len(delta) \in 0..Len(delta) /\ DOMAIN delta = 1..Len(delta)
    BY <2>1
  <2>8. \/ /\ \A j \in 1..Len(delta) : ~ChangesBinding(delta[j], k, x)
           /\ s.bindings[k][x] = s0.bindings[k][x]
        \/ \E j \in 1..Len(delta) :
             /\ ChangesBinding(delta[j], k, x)
             /\ s.bindings[k][x].value = Outcome(delta[j])
    <3> HIDE DEF n, s0
    <3>1. \A i \in 0..Len(delta) :
            \/ /\ \A j \in 1..i : ~ChangesBinding(delta[j], k, x)
               /\ r[i].bindings[k][x] = s0.bindings[k][x]
            \/ \E j \in 1..i :
                 /\ ChangesBinding(delta[j], k, x)
                 /\ \A l \in (j + 1)..i : ~ChangesBinding(delta[l], k, x)
                 /\ r[i].bindings[k][x].value = Outcome(delta[j])
      BY <1>1, <2>1, <2>5, <2>6, BindingRunFacts
    <3> QED
      BY <2>5, <2>7, <3>1
  <2>9. ~ChangesBinding(Anchor, k, x)
    BY DEF ChangesBinding, Anchor
  <2> QED
    BY <2>1, <2>3, <2>4, <2>7, <2>8, <2>9
<1> QED
  BY <1>2, <1>3, <1>4

(* The value after a batch is the outcome of its last change of the name.  *)
LEMMA ExpectedOfBatch ==
  ASSUME NEW a \in Summary, NEW ms \in Seq(Mutation), NEW n \in SequenceNo,
         NEW k \in Kind, NEW x \in Name, Capabilities[k], a.bindings[k][x].at <= n,
         NEW event, event.mutations = ms, event.report.values[k][x] = a.bindings[k][x].value
  PROVE  MutatedSummary(a, ms, n).bindings[k][x].value = Expected(event, k, x)
<1> DEFINE b == MutatedSummary(a, ms, n)
           changes == Changes(ms, k, x)
<1>1. PICK r : SummaryRun(r, a, ms, n) /\ b = r[Len(ms)]
  BY MutatedSummaryRun
<1> HIDE DEF b
<1>2. Len(ms) \in 0..Len(ms) /\ DOMAIN ms = 1..Len(ms) /\ Len(ms) \in Nat
  OBVIOUS
<1>3. \/ /\ \A j \in 1..Len(ms) : ~ChangesBinding(ms[j], k, x)
         /\ b.bindings[k][x] = a.bindings[k][x]
      \/ \E j \in 1..Len(ms) :
           /\ ChangesBinding(ms[j], k, x)
           /\ \A l \in (j + 1)..Len(ms) : ~ChangesBinding(ms[l], k, x)
           /\ b.bindings[k][x].value = Outcome(ms[j])
  <2>1. \A i \in 0..Len(ms) :
          \/ /\ \A j \in 1..i : ~ChangesBinding(ms[j], k, x)
             /\ r[i].bindings[k][x] = a.bindings[k][x]
          \/ \E j \in 1..i :
               /\ ChangesBinding(ms[j], k, x)
               /\ \A l \in (j + 1)..i : ~ChangesBinding(ms[l], k, x)
               /\ r[i].bindings[k][x].value = Outcome(ms[j])
    BY <1>1, BindingRunFacts
  <2> QED
    BY <1>1, <1>2, <2>1
<1>4. changes = {j \in 1..Len(ms) : ChangesBinding(ms[j], k, x)}
  BY <1>2 DEF Changes, ChangesBinding
<1>5. Expected(event, k, x) = IF changes = {} THEN a.bindings[k][x].value
                                              ELSE Outcome(ms[Max(changes)])
  BY DEF Expected
<1> HIDE DEF changes
<1>6. CASE /\ \A j \in 1..Len(ms) : ~ChangesBinding(ms[j], k, x)
           /\ b.bindings[k][x] = a.bindings[k][x]
  BY <1>4, <1>5, <1>6 DEF b
<1>7. CASE \E j \in 1..Len(ms) :
             /\ ChangesBinding(ms[j], k, x)
             /\ \A l \in (j + 1)..Len(ms) : ~ChangesBinding(ms[l], k, x)
             /\ b.bindings[k][x].value = Outcome(ms[j])
  <2>1. PICK j \in 1..Len(ms) :
             /\ ChangesBinding(ms[j], k, x)
             /\ \A l \in (j + 1)..Len(ms) : ~ChangesBinding(ms[l], k, x)
             /\ b.bindings[k][x].value = Outcome(ms[j])
    BY <1>7
  <2>2. j \in changes /\ \A l \in changes : l <= j
    <3>1. \A l \in 1..Len(ms) : l <= j \/ l \in (j + 1)..Len(ms)
      BY <1>2
    <3> QED
      BY <1>4, <2>1, <3>1
  <2>3. Max(changes) \in changes /\ \A l \in changes : l <= Max(changes)
    BY <1>2, <1>4, <2>2, MaxInInterval
  <2>4. changes \subseteq Int
    BY <1>4
  <2>5. Max(changes) = j
    <3> DEFINE top == Max(changes)
    <3>1. top \in Int /\ j \in Int /\ top <= j /\ j <= top
      BY <2>2, <2>3, <2>4
    <3> HIDE DEF top
    <3>2. top = j
      BY <3>1
    <3> QED
      BY <3>2 DEF top
  <2> QED
    BY <1>5, <2>1, <2>2, <2>5 DEF b
<1> QED
  BY <1>3, <1>6, <1>7

LEMMA CheckedBinding ==
  ASSUME NEW report \in Report, NEW before, NEW state, NEW event,
         Checked(report, before, state, event),
         NEW k \in Kind, NEW x \in Name, Capabilities[k], report.known
  PROVE  session'.summary.bindings[k][x].value = Expected(event, k, x)
<1> DEFINE s == state.summary
           t == session'.summary
           n == event.seq
           v == report.values[k][x]
<1>1. PICK command \in Command, allowed \in BOOLEAN :
        event = CheckEvent(NextSequenceNo(state), command, report, allowed)
  BY DEF Checked
<1>2. /\ event \in Event /\ event.kind = "check" /\ event.report = report
      /\ session' = ApplyStateEffect(state, event)
      /\ state = Reconciled(before, Reconciliation(before, report))
      /\ s.last < n
  BY DEF Checked
<1>3. n \in SequenceNo /\ event.mutations \in Seq(Mutation) /\ report \in ReportType
  BY <1>2, EventParts
<1>4. s \in Summary /\ Stamped(s) /\ state \in SessionType
  BY LeadsToGood DEF Checked, Good, SessionType
<1>5. s.last = Never \/ s.bindings[k][x].value = v
  <2>1. \E events : Good(before, events)
    BY LeadsToGood DEF Checked
  <2> QED
    BY <1>2, <1>3, <2>1, ReconciledBinding
<1>6. ASSUME NEW a, SeededFrom(s, report, n, a)
      PROVE  a.bindings[k][x].value = v
  <2>1. CASE s.last = Never
    BY <1>6, <2>1 DEF SeededFrom
  <2>2. CASE s.last # Never
    <3>1. a.bindings[k][x] = s.bindings[k][x]
      BY <1>6, <2>2 DEF SeededFrom
    <3> QED
      BY <1>5, <2>2, <3>1
  <2> QED
    BY <2>1, <2>2
<1>7. CASE ~event.allowed
  <2>1. session' = ObserveRequest(state, report, n)
    BY <1>2, <1>7 DEF ApplyStateEffect
  <2>2. t = ObserveSequence(Seeded(s, report, n), n)
    BY <1>4, <2>1 DEF ObserveRequest, SessionType
  <2>3. event.mutations = <<>>
    BY <1>1, <1>7 DEF CheckEvent
  <2>4. Expected(event, k, x) = v
    <3>1. Changes(event.mutations, k, x) = {}
      BY <2>3 DEF Changes
    <3> QED
      BY <1>2, <3>1 DEF Expected
  <2> HIDE DEF s, t, n, v
  <2>5. SeededFrom(s, report, n, t)
    BY <1>3, <1>4, <2>2, ObservedSummary
  <2> QED
    BY <1>6, <2>4, <2>5 DEF t
<1>8. CASE event.allowed
  <2> DEFINE ms == event.mutations
  <2>1. session' = CommitAllowedRequest(state, ms, event.command, report, n)
    BY <1>2, <1>8 DEF ApplyStateEffect
  <2>2. t = AllowedSummary(s, ms, report, n)
    <3> DEFINE g == MutatedGraph([state.graph EXCEPT !.requests[n] = event.command], ms, n)
    <3>1. session' = [summary |-> AllowedSummary(s, ms, report, n), graph |-> g]
      BY <1>4, <2>1, AllowedState
    <3> HIDE DEF g
    <3> QED
      BY <3>1
  <2>3. event.report.values[k][x] = v /\ event.mutations = ms
    BY <1>2
  <2> HIDE DEF s, t, n, ms, v
  <2>4. PICK a, b \in Summary :
           /\ b = MutatedSummary(a, ms, n)
           /\ SeededFrom(s, report, n, a)
           /\ Stamped(b) /\ a.last <= b.last
           /\ SeededFrom(b, report, n, t)
    <3>1. ms \in Seq(Mutation)
      BY <1>3 DEF ms
    <3> QED
      BY <1>3, <1>4, <2>2, <3>1, AllowedSummaryStep
  <2>5. a.bindings[k][x].value = v
    BY <1>6, <2>4
  <2>6. a.bindings[k][x].at <= n
    <3>1. a.bindings[k][x].at <= a.last /\ a.last \in {s.last, 0, n}
      BY <2>4 DEF SeededFrom, Stamped
    <3>2. a.bindings[k][x].at \in Int /\ a.last \in Int /\ s.last \in Int /\ n \in Int /\ 0 <= n
      BY <1>3, <1>4, SummaryParts, MaxSequenceAssumption DEF SequenceNo
    <3> QED
      BY <1>2, <3>1, <3>2 DEF s, n
  <2>7. b.bindings[k][x].value = Expected(event, k, x)
    <3>1. ms \in Seq(Mutation)
      BY <1>3 DEF ms
    <3> QED
      BY <1>3, <2>3, <2>4, <2>5, <2>6, <3>1, ExpectedOfBatch
  <2>8. t.bindings[k][x].value = b.bindings[k][x].value
    <3>1. CASE t.bindings[k][x] = b.bindings[k][x]
      BY <3>1
    <3>2. CASE b.last = Never /\ v # Unset
      <4>1. a.last = Never
        BY <2>4, <3>2, SummaryParts, MaxSequenceAssumption DEF SequenceNo, Never
      <4>2. a.bindings[k][x] \in Binding /\ a.bindings[k][x].at <= Never
        BY <2>4, <4>1, SummaryParts DEF SeededFrom, Stamped
      <4>3. \A c \in [value : Value, at : SequenceNo] : ~(c.at <= Never)
        BY MaxSequenceAssumption DEF SequenceNo, Never
      <4>4. a.bindings[k][x].value = Unset
        BY <4>2, <4>3 DEF Binding, NoBinding
      <4> QED
        BY <2>5, <3>2, <4>4
    <3> QED
      BY <2>4, <3>1, <3>2 DEF SeededFrom, v
  <2> QED
    BY <2>7, <2>8 DEF t
<1> QED
  BY <1>7, <1>8

BeliefInv == HistoryInv /\ BeliefFollowsReport

LEMMA NextBeliefInv ==
  ASSUME BeliefInv, [Next]_vars
  PROVE  BeliefInv'
<1>1. HistoryInv /\ HistoryInv' /\ TypeOK /\ BeliefFollowsReport
  BY NextHistoryInv DEF BeliefInv, HistoryInv
<1>2. ASSUME History' = History, (session' = session /\ loaded' = loaded) \/ ~loaded'
      PROVE  BeliefInv'
  BY <1>1, <1>2 DEF BeliefInv, BeliefFollowsReport
<1>3. CASE Start
  BY <1>2, <1>3 DEF Start, History
<1>4. CASE End
  BY <1>2, <1>4 DEF End, History
<1>5. ASSUME NEW failure \in Failure, Fail(failure)
      PROVE  BeliefInv'
  BY <1>1, <1>2, <1>5, FailStep
<1>6. ASSUME NEW report \in Report, Check(report)
      PROVE  BeliefInv'
  <2>1. CASE Fail("check")
    BY <1>5, <2>1 DEF Failure
  <2>2. CASE \E before, state, event : Checked(report, before, state, event)
    <3>1. PICK before, state, event : Checked(report, before, state, event)
      BY <2>2
    <3>2. Last(History') = event /\ event.report = report
      BY <3>1, LastOfAppend DEF Checked, LeadsTo
    <3>3. ASSUME report.known, NEW k \in Kind, NEW x \in Name, Capabilities[k]
          PROVE  session'.summary.bindings[k][x].value = Expected(event, k, x)
      BY <3>1, <3>3, CheckedBinding
    <3>4. BeliefFollowsReport'
      BY <3>2, <3>3 DEF BeliefFollowsReport
    <3> QED
      BY <1>1, <3>4 DEF BeliefInv
  <2> QED
    BY <1>1, <1>6, <2>1, <2>2, CheckStep
<1>7. ASSUME NEW n \in 1..MaxSequence, NEW delta \in ClientDelta, ShellStateDelta(n, delta)
      PROVE  BeliefInv'
  <2>1. CASE Fail("delta")
    BY <1>5, <2>1 DEF Failure
  <2>2. CASE DeltaReported(n, delta, Current)
    <3> DEFINE e == DeltaEvent(n, delta)
    <3>1. e \in Event /\ History' = Append(History, e) /\ History \in Seq(Event)
      BY <2>2 DEF DeltaReported, LeadsTo
    <3>2. e.kind = "delta"
      BY DEF DeltaEvent
    <3> HIDE DEF e
    <3>3. Last(History') = e
      BY <3>1, LastOfAppend
    <3> QED
      BY <1>1, <3>2, <3>3 DEF BeliefInv, BeliefFollowsReport
  <2> QED
    BY <1>1, <1>7, <2>1, <2>2, DeltaStep
<1>8. CASE AppendEvent
  <2>1. /\ log \in Seq(Event) /\ queue \in Seq(Event) /\ queue # <<>>
        /\ log' = Append(log, Head(queue)) /\ queue' = Tail(queue)
        /\ session' = session /\ loaded' = loaded
    BY <1>1, <1>8 DEF TypeOK, AppendEvent
  <2>2. History' = History
    BY <2>1 DEF History
  <2> QED
    BY <1>2, <2>1, <2>2
<1>9. CASE CheckpointUpdate
  BY <1>2, <1>9 DEF CheckpointUpdate, History
<1>10. CASE Kill
  BY <1>1, <1>10, KillStep DEF BeliefInv, BeliefFollowsReport
<1>11. CASE UNCHANGED vars
  BY <1>2, <1>11 DEF vars, History
<1> QED
  BY <1>3, <1>4, <1>5, <1>6, <1>7, <1>8, <1>9, <1>10, <1>11
  DEF Next, RestoreFails, PrepareFails, Failure

(* After a check with complete knowledge every binding the shell keeps has *)
(* the value the runtime reported, or the one the command gives it.        *)
THEOREM BeliefFollowsReportHolds == Spec => []BeliefFollowsReport
<1>1. Init => BeliefInv
  BY InitHistoryInv DEF Init, BeliefInv, BeliefFollowsReport
<1>2. BeliefInv /\ [Next]_vars => BeliefInv'
  BY NextBeliefInv
<1>3. BeliefInv => BeliefFollowsReport
  BY DEF BeliefInv
<1> QED
  BY <1>1, <1>2, <1>3, PTL DEF Spec

-----------------------------------------------------------------------------
(* The log.  In a shell that keeps at most its directory, a command is     *)
(* reconciled at most once: a second reconciliation at its number would    *)
(* contradict the directory that the first one, or the command, left in    *)
(* the graph.                                                              *)

OnlyDirectories ==
  /\ ~Capabilities.variable /\ ~Capabilities.function
  /\ ClientDelta = {}

SingleDeltas(st, events) ==
  /\ \A i \in DOMAIN events : events[i].kind = "delta" =>
       /\ events[i].seq <= st.summary.last
       /\ st.graph.directories[events[i].seq] # NoPath
  /\ \A i, j \in DOMAIN events :
       (i # j /\ events[i].kind = "delta" /\ events[j].kind = "delta") =>
         events[i].seq # events[j].seq
  /\ \A l \in SequenceNo : st.summary.last < l => st.graph.directories[l] = NoPath
  /\ (/\ Capabilities.cwd
      /\ st.summary.last \in SequenceNo
      /\ st.graph.directories[st.summary.last] # NoPath) =>
        st.summary.cwd.path = st.graph.directories[st.summary.last]

LEMMA SingleDeltasNew == SingleDeltas(NewSession, <<>>)
<1>1. NewSession.summary.last = Never /\ Never \notin SequenceNo
  BY DEF NewSession, NoSummary, Never, SequenceNo
<1>2. \A l \in SequenceNo : NewSession.graph.directories[l] = NoPath
  BY DEF NewSession, EmptyGraph
<1> QED
  BY <1>1, <1>2 DEF SingleDeltas

(* A reconciliation is about the directory, and at a number without one.   *)
LEMMA OnlyCwdReconciled ==
  ASSUME OnlyDirectories, NEW st \in SessionType, NEW report \in ReportType,
         Reconciliation(st, report) # <<>>
  PROVE  /\ Capabilities.cwd
         /\ Differences(st, report) = {SetCwd(report.cwd, "runtime")}
         /\ st.summary.cwd = NoCwd \/ st.summary.cwd.path # report.cwd
<1> DEFINE D == Differences(st, report)
           m == SetCwd(report.cwd, "runtime")
           s == st.summary
           previous == st.graph.requests[s.last]
<1>1. \A k \in Kind : ~Capabilities[k]
  BY DEF OnlyDirectories, Kind
<1>2. ReconcileBindings(s, report) = {}
  <2>1. ReportedBindings(report) = {}
    BY <1>1, ReportIsFinite
  <2> QED
    BY <2>1 DEF ReconcileBindings, Reported
<1>3. D = ReconcileCwd(s, report, s.last, previous)
  BY <1>2 DEF Differences
<1>4. D # {}
  <2>1. s.last # Never
    BY DEF Reconciliation
  <2>2. Reconciliation(st, report) =
          IF D = {} THEN <<>>
          ELSE (IF previous = NoCommand THEN <<Anchor>> ELSE <<>>) \o SetToSeq(D)
    BY <2>1 DEF Reconciliation, Differences
  <2> QED
    BY <2>2
<1>5. Capabilities.cwd /\ ShouldReconcileCwd(s, report, s.last, previous) /\ D = {m}
  BY <1>3, <1>4 DEF ReconcileCwd
<1> QED
  BY <1>5 DEF ShouldReconcileCwd

LEMMA SingleDeltasReconciled ==
  ASSUME OnlyDirectories, NEW events \in Seq(Event), NEW st, Good(st, events), SingleDeltas(st, events),
         NEW report \in ReportType, Reconciliation(st, report) # <<>>,
         Observable(st, Reconciliation(st, report), st.summary.last)
  PROVE  SingleDeltas(CommitObserved(st, Reconciliation(st, report), st.summary.last),
                      Append(events, DeltaEvent(st.summary.last, Reconciliation(st, report))))
<1> DEFINE s == st.summary
           n == s.last
           delta == Reconciliation(st, report)
           m == SetCwd(report.cwd, "runtime")
           e == DeltaEvent(n, delta)
           after == CommitObserved(st, delta, n)
           t == MutatedSummary(s, delta, n)
           h == MutatedGraph(st.graph, delta, n)
           g == st.graph
<1>1. st \in SessionType /\ s \in Summary /\ g \in Graph(Command) /\ Stamped(s)
  BY DEF Good, SessionType
<1>2. /\ delta \in Seq(Mutation) /\ n \in SequenceNo
      /\ \A i \in DOMAIN delta : delta[i] = Anchor \/ delta[i] \in Differences(st, report)
      /\ \A d \in Differences(st, report) : \E i \in DOMAIN delta : delta[i] = d
  BY <1>1, ReconciliationFacts
<1>3. /\ Capabilities.cwd
      /\ Differences(st, report) = {m}
      /\ s.cwd = NoCwd \/ s.cwd.path # report.cwd
  BY <1>1, OnlyCwdReconciled
<1>4. m.op = "cwd" /\ m.path = report.cwd /\ HasNode(m) /\ NodeContent(m) = report.cwd
      /\ NodeIn(g, m, n) = g.directories[n] /\ Anchor.op # "cwd"
  BY DEF SetCwd, HasNode, NodeContent, NodeIn, Anchor
<1>5. ~Conflict(g, delta, n)
  BY DEF Observable
<1>6. after = [summary |-> t, graph |-> h]
  BY DEF CommitObserved
<1>7. e.kind = "delta" /\ e.seq = n
  BY DEF DeltaEvent
<1>8. e \in Event
  BY <1>2, EventTypes
<1> HIDE DEF after, t, h, delta, m, e
<1>9. DOMAIN delta = 1..Len(delta) /\ Len(delta) \in 0..Len(delta)
  BY <1>2
<1>10. PICK i \in 1..Len(delta) : delta[i] = m
  BY <1>2, <1>3, <1>9
<1>11. \A j \in 1..Len(delta) : delta[j].op = "cwd" => delta[j] = m
  BY <1>2, <1>3, <1>4, <1>9
<1>12. g.directories[n] = NoPath
  <2>1. SUFFICES ASSUME g.directories[n] # NoPath PROVE FALSE
    OBVIOUS
  <2>2. g.directories[n] \in Directory
    BY <1>1, <1>2, <2>1, GraphParts
  <2>3. s.cwd.path = g.directories[n]
    BY <1>2, <1>3, <2>1 DEF SingleDeltas
  <2>4. s.cwd # NoCwd
    BY <2>2, <2>3, NonesAssumption DEF NoCwd
  <2>5. g.directories[n] \notin Missing \union {report.cwd}
    BY <1>3, <2>2, <2>3, <2>4, NonesAssumption DEF Missing
  <2>6. Conflict(g, delta, n)
    <3> HIDE DEF g, n
    <3> QED
      BY <1>4, <1>9, <1>10, <2>5 DEF Conflict
  <2> QED
    BY <1>5, <2>6
<1>13. /\ h \in Graph(Command)
       /\ \A l \in SequenceNo : h.directories[l] # g.directories[l] =>
            /\ l = n
            /\ \E j \in 1..Len(delta), src \in Source : delta[j] = SetCwd(h.directories[l], src)
       /\ h.directories[n] # NoPath
  <2>1. PICK r : GraphRun(r, g, delta, n) /\ h = r[Len(delta)]
    BY <1>2, MutatedGraphRun DEF h
  <2> HIDE DEF g, n, s
  <2>2. /\ h \in Graph(Command)
        /\ \A l \in SequenceNo : h.directories[l] # g.directories[l] =>
             /\ l = n
             /\ \E j \in 1..Len(delta), src \in Source : delta[j] = SetCwd(h.directories[l], src)
        /\ \A j \in 1..Len(delta) : delta[j].op = "cwd" => h.directories[n] # NoPath
    BY SMTT(30), <1>1, <1>2, <1>9, <2>1, GraphRunFacts
  <2> QED
    BY <1>4, <1>10, <2>2
<1>14. h.directories[n] = report.cwd
  <2>1. PICK j \in 1..Len(delta), src \in Source : delta[j] = SetCwd(h.directories[n], src)
    BY <1>2, <1>12, <1>13
  <2>2. delta[j].op = "cwd" /\ delta[j].path = h.directories[n]
    BY <2>1 DEF SetCwd
  <2> QED
    BY <1>4, <1>11, <2>2
<1>15. t.cwd.path = report.cwd /\ t.last = n
  <2>1. PICK r : SummaryRun(r, s, delta, n) /\ t = r[Len(delta)]
    BY <1>1, <1>2, MutatedSummaryRun DEF t
  <2>2. s.cwd.at <= n
    BY <1>1 DEF Stamped
  <2>3. s \in Summary /\ delta \in Seq(Mutation) /\ n \in SequenceNo /\ s.last = n
    BY <1>1, <1>2
  <2> HIDE DEF s, g, n
  <2>4. \A i1 \in 0..Len(delta) :
          /\ r[i1].last \in {s.last, n}
          /\ s.cwd.at <= n =>
               \A j \in 1..i1 : delta[j].op = "cwd" /\ Capabilities.cwd =>
                 \E l \in 1..i1 : delta[l].op = "cwd" /\ r[i1].cwd = CwdOf(delta[l], n)
    BY <2>1, <2>3, SummaryRunFacts
  <2>5. t.last = n
    BY <1>9, <2>1, <2>3, <2>4
  <2>6. PICK l \in 1..Len(delta) : delta[l].op = "cwd" /\ t.cwd = CwdOf(delta[l], n)
    BY <1>3, <1>4, <1>9, <1>10, <2>1, <2>2, <2>4
  <2>7. delta[l].path = report.cwd
    BY <1>4, <1>11, <2>6
  <2>8. CwdOf(delta[l], n).path = delta[l].path
    BY DEF CwdOf
  <2> QED
    BY <2>5, <2>6, <2>7, <2>8
<1>16. n \in Int /\ \A i1 \in DOMAIN events : events[i1].seq \in SequenceNo
  <2>1. \A i1 \in DOMAIN events : events[i1] \in Event
    OBVIOUS
  <2> QED
    BY <1>1, <2>1, SummaryParts, EventParts
<1> DEFINE more == Append(events, e)
<1>17. \A i1 \in DOMAIN more :
         \/ i1 \in DOMAIN events /\ more[i1] = events[i1]
         \/ i1 = Len(events) + 1 /\ more[i1] = e
  BY <1>8, AppendParts
<1> HIDE DEF more
<1>18. after.summary = t /\ after.graph = h
  BY <1>6
<1>19. ASSUME NEW i1 \in DOMAIN more, more[i1].kind = "delta"
       PROVE  more[i1].seq <= t.last /\ h.directories[more[i1].seq] # NoPath
  <2>1. CASE i1 \in DOMAIN events /\ more[i1] = events[i1]
    <3>1. events[i1].seq <= n /\ g.directories[events[i1].seq] # NoPath
      BY <1>19, <2>1 DEF SingleDeltas
    <3> QED
      BY <1>12, <1>13, <1>15, <1>16, <2>1, <3>1
  <2>2. CASE more[i1] = e
    BY <1>7, <1>13, <1>15, <1>16, <2>2
  <2> QED
    BY <1>17, <2>1, <2>2
<1>20. ASSUME NEW i1 \in DOMAIN more, NEW i2 \in DOMAIN more, i1 # i2,
              more[i1].kind = "delta", more[i2].kind = "delta"
       PROVE  more[i1].seq # more[i2].seq
  <2>1. \A i3 \in DOMAIN events : events[i3].kind = "delta" => events[i3].seq # n
    BY <1>12 DEF SingleDeltas
  <2>2. CASE i1 \in DOMAIN events /\ i2 \in DOMAIN events
    BY <1>17, <1>20, <2>2, AppendParts DEF SingleDeltas, more
  <2>3. CASE ~(i1 \in DOMAIN events /\ i2 \in DOMAIN events)
    BY <1>7, <1>17, <1>20, <2>1, <2>3
  <2> QED
    BY <2>2, <2>3
<1>21. \A l \in SequenceNo : t.last < l => h.directories[l] = NoPath
  <2>1. \A l \in SequenceNo : n < l => l # n /\ g.directories[l] = NoPath
    BY <1>16 DEF SingleDeltas
  <2> QED
    BY <1>13, <1>15, <2>1
<1>22. SingleDeltas(after, more)
  BY <1>14, <1>15, <1>18, <1>19, <1>20, <1>21 DEF SingleDeltas
<1> QED
  BY <1>22 DEF after, more, delta, e

LEMMA SingleDeltasChecked ==
  ASSUME NEW events \in Seq(Event), NEW st, Good(st, events), SingleDeltas(st, events),
         NEW e \in Event, e.kind = "check", st.summary.last < e.seq, e.seq # 0,
         e.allowed => \E command \in Command : e.mutations = CommandMutations(command, e.report)
  PROVE  SingleDeltas(ApplyStateEffect(st, e), Append(events, e))
<1> DEFINE s == st.summary
           g == st.graph
           n == e.seq
           ms == e.mutations
           after == ApplyStateEffect(st, e)
           t == after.summary
           h == after.graph
           more == Append(events, e)
<1>1. st \in SessionType /\ s \in Summary /\ g \in Graph(Command) /\ Stamped(s)
  BY DEF Good, SessionType
<1>2. n \in SequenceNo /\ ms \in Seq(Mutation) /\ e.report \in ReportType /\ e.command \in Command
  BY EventParts
<1>3. n \in Int /\ s.last \in Int /\ SequenceNo \subseteq Int /\ 0 < n
  BY <1>1, <1>2, SummaryParts, MaxSequenceAssumption DEF SequenceNo
<1>4. /\ t \in Summary /\ t.last = n
      /\ \A l \in SequenceNo : l # n => h.directories[l] = g.directories[l]
      /\ (Capabilities.cwd /\ h.directories[n] # NoPath) => t.cwd.path = h.directories[n]
  <2>0. g.directories[n] = NoPath
    BY <1>2 DEF SingleDeltas
  <2>1. CASE ~e.allowed
    <3>1. after = ObserveRequest(st, e.report, n)
      BY <2>1 DEF ApplyStateEffect
    <3>2. t = ObserveSequence(Seeded(s, e.report, n), n) /\ h = g
      BY <1>1, <3>1 DEF ObserveRequest, SessionType
    <3> HIDE DEF t, h, s, g, n
    <3>3. SeededFrom(s, e.report, n, t) /\ n <= t.last
      BY <1>1, <1>2, <3>2, ObservedSummary
    <3>4. t \in Summary /\ t.last \in {s.last, 0, n}
      BY <3>3 DEF SeededFrom
    <3>5. t.last = n
      BY <1>3, <3>3, <3>4 DEF s, n
    <3> QED
      BY <2>0, <3>2, <3>4, <3>5
  <2>2. CASE e.allowed
    <3> DEFINE g1 == [g EXCEPT !.requests[n] = e.command]
               c == AllowedSummary(s, ms, e.report, n)
               h1 == MutatedGraph(g1, ms, n)
    <3>1. after = CommitAllowedRequest(st, ms, e.command, e.report, n)
      BY <2>2 DEF ApplyStateEffect
    <3>2. after = [summary |-> c, graph |-> h1]
      BY <1>1, <3>1, AllowedState
    <3>3. g1 \in Graph(Command) /\ g1.directories = g.directories
      BY <1>1, <1>2 DEF Graph
    <3>4. PICK command \in Command : ms = CommandMutations(command, e.report)
      BY <2>2
    <3>5. \A j \in 1..Len(ms) : ms[j].op = "cwd" => ms[j].path = command.exit
      <4> DEFINE a == command.changes
                 m == SetCwd(command.exit, "static")
                 b == IF command.exit \in Directory \ {e.report.cwd} THEN <<m>> ELSE <<>>
      <4>1. a \in Seq(Change)
        BY CommandAssumption DEF CommandType
      <4>2. \A x \in Change : x.op # "cwd"
        BY DEF Change, Bind, Unbind
      <4>3. m.path = command.exit
        BY DEF SetCwd
      <4>4. ms = a \o b
        BY <3>4 DEF CommandMutations
      <4> HIDE DEF a, m, ms
      <4>5. \A j \in 1..Len(ms) : ms[j] \in Change \/ ms[j] = m
        <5>1. CASE b = <<m>>
          BY <4>1, <4>4, <5>1
        <5>2. CASE b = <<>>
          BY <4>1, <4>4, <5>2
        <5> QED
          BY <5>1, <5>2
      <4> QED
        BY <4>2, <4>3, <4>5
    <3>6. t = c /\ h = h1
      BY <3>2
    <3> HIDE DEF t, h, g1, c
    <3>7. PICK r : GraphRun(r, g1, ms, n) /\ h = r[Len(ms)]
      BY <1>2, <3>6, MutatedGraphRun
    <3> HIDE DEF h1, s, g, n, ms
    <3>8. Len(ms) \in 0..Len(ms)
      BY <1>2
    <3>9. \A l \in SequenceNo : h.directories[l] # g1.directories[l] =>
            /\ l = n
            /\ \E j \in 1..Len(ms), src \in Source : ms[j] = SetCwd(h.directories[l], src)
      BY SMTT(30), <1>2, <3>3, <3>7, <3>8, GraphRunFacts
    <3>10. PICK a, b \in Summary :
             /\ b = MutatedSummary(a, ms, n)
             /\ SeededFrom(s, e.report, n, a)
             /\ Stamped(b)
             /\ SeededFrom(b, e.report, n, t)
             /\ n <= t.last
      BY <1>1, <1>2, <3>6, AllowedSummaryStep DEF c
    <3>11. a \in Summary /\ Stamped(a) /\ a.last \in {s.last, 0, n}
      BY <3>10 DEF SeededFrom
    <3>12. a.last <= n /\ a.cwd.at <= n
      <4>1. a.last \in Int /\ a.cwd.at \in Int /\ a.cwd.at <= a.last /\ s.last < n
        BY <3>11, SummaryParts DEF Stamped, s, n
      <4> QED
        BY <1>3, <3>11, <4>1
    <3>13. PICK q : SummaryRun(q, a, ms, n) /\ b = q[Len(ms)]
      BY <1>2, <3>10, MutatedSummaryRun
    <3>14. /\ b.last \in {a.last, n}
           /\ \A j \in 1..Len(ms) : ms[j].op = "cwd" /\ Capabilities.cwd =>
                \E l \in 1..Len(ms) : ms[l].op = "cwd" /\ b.cwd = CwdOf(ms[l], n)
      BY <1>2, <3>8, <3>11, <3>12, <3>13, SummaryRunFacts
    <3>15. t \in Summary /\ t.last \in {b.last, 0, n}
      BY <3>10 DEF SeededFrom
    <3>16. t.last = n
      <4>1. b.last <= n
        BY <1>3, <3>12, <3>14
      <4>2. t.last \in Int /\ b.last \in Int
        BY <3>10, <3>15, SummaryParts
      <4> QED
        BY <1>3, <3>10, <3>15, <4>1, <4>2
    <3>17. ASSUME Capabilities.cwd, h.directories[n] # NoPath
           PROVE  t.cwd.path = h.directories[n]
      <4>1. PICK j \in 1..Len(ms), src \in Source : ms[j] = SetCwd(h.directories[n], src)
        BY <1>2, <2>0, <3>3, <3>9, <3>17
      <4>2. ms[j].op = "cwd" /\ ms[j].path = h.directories[n]
        BY <4>1 DEF SetCwd
      <4>3. PICK l \in 1..Len(ms) : ms[l].op = "cwd" /\ b.cwd = CwdOf(ms[l], n)
        BY <3>14, <3>17, <4>2
      <4>4. b.cwd.path = h.directories[n] /\ b.cwd.at = n
        BY <3>5, <4>2, <4>3 DEF CwdOf
      <4>5. b.cwd # NoCwd /\ b.last # Never
        <5>1. n <= b.last
          BY <3>10, <4>4 DEF Stamped
        <5> QED
          BY <1>3, <4>4, <5>1, SummaryParts DEF NoCwd, Never
      <4>6. t.cwd = b.cwd
        BY <3>10, <4>5 DEF SeededFrom
      <4> QED
        BY <4>4, <4>6
    <3> QED
      BY <3>3, <3>9, <3>15, <3>16, <3>17
  <2> QED
    BY <2>1, <2>2
<1>5. \A i \in DOMAIN events : events[i].seq \in SequenceNo
  <2>1. \A i \in DOMAIN events : events[i] \in Event
    OBVIOUS
  <2> QED
    BY <2>1, EventParts
<1>6. \A i \in DOMAIN more :
        \/ i \in DOMAIN events /\ more[i] = events[i]
        \/ more[i] = e
  BY AppendParts
<1> HIDE DEF t, h, more, after
<1>7. ASSUME NEW i \in DOMAIN more, more[i].kind = "delta"
      PROVE  /\ i \in DOMAIN events /\ more[i] = events[i]
             /\ more[i].seq <= t.last /\ h.directories[more[i].seq] # NoPath
  <2>1. i \in DOMAIN events /\ more[i] = events[i]
    BY <1>6, <1>7
  <2>2. events[i].seq <= s.last /\ g.directories[events[i].seq] # NoPath
    BY <1>7, <2>1 DEF SingleDeltas
  <2>3. events[i].seq \in Int /\ s.last < n
    BY <1>3, <1>5, <2>1
  <2>4. events[i].seq < n
    <3> HIDE DEF s, n
    <3> QED
      BY <1>3, <2>2, <2>3
  <2> HIDE DEF s, n, g
  <2> QED
    BY <1>3, <1>4, <1>5, <2>1, <2>2, <2>3, <2>4
<1>8. \A i, j \in DOMAIN more :
        (i # j /\ more[i].kind = "delta" /\ more[j].kind = "delta") => more[i].seq # more[j].seq
  BY <1>7 DEF SingleDeltas
<1>9. ASSUME NEW l \in SequenceNo, t.last < l
      PROVE  h.directories[l] = NoPath
  <2>1. n < l /\ l \in Int
    BY <1>3, <1>4, <1>9
  <2>2. s.last < l
    BY <1>3, <2>1
  <2>3. g.directories[l] = NoPath
    BY <2>2 DEF SingleDeltas
  <2> HIDE DEF n, g
  <2> QED
    BY <1>3, <1>4, <2>1, <2>3
<1>10. SingleDeltas(after, more)
  BY <1>4, <1>7, <1>8, <1>9 DEF SingleDeltas, t, h
<1> QED
  BY <1>10 DEF after, more

(* It holds of all the events that a kill may leave.                       *)
AllSingle(events) ==
  \A a, b \in Seq(Event) : events = a \o b => SingleDeltas(Replay(a).state, a)

LEMMA PrefixOfAppend ==
  ASSUME NEW events \in Seq(Event), NEW e \in Event, NEW a \in Seq(Event), NEW b \in Seq(Event),
         Append(events, e) = a \o b
  PROVE  a = Append(events, e) \/ \E c \in Seq(Event) : events = a \o c
<1>1. CASE b = <<>>
  BY <1>1
<1>2. CASE b # <<>>
  <2> DEFINE c == [i \in 1..(Len(b) - 1) |-> b[i]]
             n == Len(events)
  <2>1. c \in Seq(Event) /\ Len(c) = Len(b) - 1 /\ \A i \in 1..Len(c) : c[i] = b[i]
    <3>1. Len(b) \in Nat /\ Len(b) # 0
      BY <1>2
    <3>2. Len(b) - 1 \in Nat /\ \A i \in 1..(Len(b) - 1) : b[i] \in Event
      BY <3>1
    <3>3. c \in Seq(Event) /\ Len(c) = Len(b) - 1
      BY <3>2
    <3> QED
      BY <3>2, <3>3
  <2>2. /\ Len(a) \in Nat /\ Len(b) \in Nat /\ n \in Nat /\ n + 1 = Len(a) + Len(b)
        /\ \A i \in 1..n : Append(events, e)[i] = events[i]
        /\ \A i \in 1..(Len(a) + Len(b)) : (a \o b)[i] = IF i <= Len(a) THEN a[i] ELSE b[i - Len(a)]
    <3>1. Len(Append(events, e)) = n + 1 /\ Len(a \o b) = Len(a) + Len(b)
      OBVIOUS
    <3> QED
      BY <3>1
  <2> HIDE DEF c
  <2>3. /\ a \o c \in Seq(Event) /\ Len(a \o c) = n
        /\ \A i \in 1..n : (a \o c)[i] = IF i <= Len(a) THEN a[i] ELSE c[i - Len(a)]
    BY <2>1, <2>2
  <2>4. ASSUME NEW i \in 1..n
        PROVE  (a \o c)[i] = events[i]
    <3>1. events[i] = IF i <= Len(a) THEN a[i] ELSE b[i - Len(a)]
      BY <2>2
    <3>2. i > Len(a) => i - Len(a) \in 1..Len(c)
      BY <2>1, <2>2
    <3> QED
      BY <2>1, <2>3, <3>1, <3>2
  <2>5. events = a \o c
    <3> DEFINE x == a \o c
    <3>1. x \in Seq(Event) /\ Len(x) = n /\ \A i \in 1..n : x[i] = events[i]
      BY <2>3, <2>4
    <3> HIDE DEF x
    <3>2. x = [i \in 1..n |-> x[i]] /\ events = [i \in 1..n |-> events[i]]
      BY <3>1
    <3>3. x = events
      BY <3>1, <3>2
    <3> QED
      BY <3>3 DEF x
  <2> QED
    BY <2>1, <2>5
<1> QED
  BY <1>1, <1>2

LEMMA AllSingleStep ==
  ASSUME NEW events \in Seq(Event), NEW e \in Event, AllSingle(events), NEW st,
         LeadsTo(Append(events, e), st), SingleDeltas(st, Append(events, e))
  PROVE  AllSingle(Append(events, e))
<1> SUFFICES ASSUME NEW a \in Seq(Event), NEW b \in Seq(Event), Append(events, e) = a \o b
             PROVE  SingleDeltas(Replay(a).state, a)
  BY DEF AllSingle
<1>1. CASE a = Append(events, e)
  <2>1. Replay(Append(events, e)).state = st
    BY DEF LeadsTo
  <2> QED
    BY <1>1, <2>1
<1>2. CASE \E c \in Seq(Event) : events = a \o c
  BY <1>2 DEF AllSingle
<1> QED
  BY ZenonT(60), <1>1, <1>2, PrefixOfAppend

LEMMA AllSingleSelf ==
  ASSUME NEW events, NEW st, LeadsTo(events, st), AllSingle(events)
  PROVE  SingleDeltas(st, events)
<1> DEFINE b == <<>>
<1>1. events \in Seq(Event) /\ b \in Seq(Event) /\ events = events \o b
  BY DEF LeadsTo
<1>2. Replay(events).state = st
  BY DEF LeadsTo
<1> HIDE DEF b
<1>3. SingleDeltas(Replay(events).state, events)
  BY <1>1 DEF AllSingle
<1> QED
  BY <1>2, <1>3

LEMMA CheckedSingle ==
  ASSUME OnlyDirectories, NEW report \in Report, NEW before, NEW state, NEW event,
         Preparable(before, Reconciliation(before, report)),
         Checked(report, before, state, event), AllSingle(History)
  PROVE  AllSingle(History')
<1> DEFINE delta == Reconciliation(before, report)
           d == DeltaEvent(before.summary.last, delta)
           mid == Before(History, before, delta)
<1>1. /\ LeadsTo(History, before) /\ LeadsTo(mid, state)
      /\ state = Reconciled(before, delta)
      /\ History' = Append(mid, event) /\ event \in Event /\ Applicable(state, event)
      /\ event.kind = "check" /\ event.report = report /\ event.seq = NextSequenceNo(state)
      /\ state.summary.last < event.seq
  BY DEF Checked
<1>2. Good(before, History) /\ Good(state, mid) /\ History \in Seq(Event) /\ mid \in Seq(Event)
  BY <1>1, LeadsToGood DEF LeadsTo
<1>3. before \in SessionType /\ report \in ReportType
  BY <1>2, ReportAssumption DEF Good
<1>4. SingleDeltas(before, History)
  BY <1>1, AllSingleSelf
<1>5. AllSingle(mid) /\ SingleDeltas(state, mid)
  <2>1. CASE delta = <<>>
    <3>1. mid = History /\ state = before
      BY <1>1, <2>1 DEF Before, Reconciled
    <3> HIDE DEF mid
    <3> QED
      BY <1>4, <3>1
  <2>2. CASE delta # <<>>
    <3>1. Observable(before, delta, before.summary.last)
      BY <2>2 DEF Preparable
    <3>2. mid = Append(History, d) /\ state = CommitObserved(before, delta, before.summary.last)
      BY <1>1, <2>2 DEF Before, Reconciled
    <3>3. SingleDeltas(state, mid)
      BY <1>2, <1>3, <1>4, <2>2, <3>1, <3>2, SingleDeltasReconciled
    <3>4. d \in Event
      BY <1>3, <2>2, ReconciliationFacts, EventTypes
    <3> HIDE DEF mid, d
    <3> QED
      BY <1>1, <1>2, <3>2, <3>3, <3>4, AllSingleStep
  <2> QED
    BY <2>1, <2>2
<1> HIDE DEF mid
<1>6. event.allowed => \E command \in Command : event.mutations = CommandMutations(command, event.report)
  <2>1. PICK command \in Command, allowed \in BOOLEAN :
          event = CheckEvent(NextSequenceNo(state), command, report, allowed)
    BY DEF Checked
  <2> QED
    BY <2>1 DEF CheckEvent
<1>7. event.seq # 0
  <2>1. state.summary.last \in SequenceNo \union {Never}
    BY <1>2, SummaryParts DEF Good, SessionType
  <2> QED
    BY <1>1, <2>1, MaxSequenceAssumption DEF NextSequenceNo, SequenceNo, Never
<1>8. SingleDeltas(ApplyStateEffect(state, event), Append(mid, event))
  BY <1>1, <1>2, <1>5, <1>6, <1>7, SingleDeltasChecked
<1>9. LeadsTo(Append(mid, event), ApplyStateEffect(state, event))
  BY <1>1, LeadsToStep
<1> QED
  BY <1>1, <1>2, <1>5, <1>8, <1>9, AllSingleStep

LogInv == HistoryInv /\ AllSingle(History)

LEMMA NextLogInv ==
  ASSUME OnlyDirectories, LogInv, [Next]_vars
  PROVE  LogInv'
<1>1. HistoryInv /\ HistoryInv' /\ TypeOK /\ AllSingle(History)
  BY NextHistoryInv DEF LogInv, HistoryInv
<1>2. ASSUME History' = History PROVE LogInv'
  BY <1>1, <1>2 DEF LogInv
<1>3. CASE Start
  BY <1>2, <1>3 DEF Start, History
<1>4. CASE End
  BY <1>2, <1>4 DEF End, History
<1>5. ASSUME NEW failure \in Failure, Fail(failure)
      PROVE  LogInv'
  BY <1>1, <1>2, <1>5, FailStep
<1>6. ASSUME NEW report \in Report, Check(report)
      PROVE  LogInv'
  <2>1. CASE Fail("check")
    BY <1>5, <2>1 DEF Failure
  <2>2. CASE \E before, state, event : Checked(report, before, state, event)
    <3>1. PICK before, state, event : Checked(report, before, state, event)
      BY <2>2
    <3>2. before = Current
      <4>1. Ready
        BY <1>6 DEF Check
      <4>2. LeadsTo(History, Current)
        BY <1>1, <4>1, CurrentFacts
      <4>3. Replay(History).state = Current /\ Replay(History).state = before
        BY <3>1, <4>2 DEF Checked, LeadsTo
      <4> QED
        BY <4>3
    <3>3. Preparable(before, Reconciliation(before, report))
      BY <1>6, <3>2 DEF Check
    <3>4. AllSingle(History')
      BY <1>1, <3>1, <3>3, CheckedSingle
    <3> QED
      BY <1>1, <3>4 DEF LogInv
  <2> QED
    BY <1>1, <1>6, <2>1, <2>2, CheckStep
<1>7. ASSUME NEW n \in 1..MaxSequence, NEW delta \in ClientDelta, ShellStateDelta(n, delta)
      PROVE  LogInv'
  BY <1>7 DEF OnlyDirectories
<1>8. CASE AppendEvent
  <2>1. /\ log \in Seq(Event) /\ queue \in Seq(Event) /\ queue # <<>>
        /\ log' = Append(log, Head(queue)) /\ queue' = Tail(queue)
    BY <1>1, <1>8 DEF TypeOK, AppendEvent
  <2>2. History' = History
    BY <2>1 DEF History
  <2> QED
    BY <1>2, <2>2
<1>9. CASE CheckpointUpdate
  BY <1>2, <1>9 DEF CheckpointUpdate, History
<1>10. CASE Kill
  <2> DEFINE kept == History'
             all == History
  <2>1. all = kept \o queue /\ queue \in Seq(Event) /\ kept \in Seq(Event) /\ HistoryInv'
    BY <1>1, <1>10, KillStep
  <2>2. AllSingle(all)
    BY <1>1
  <2> HIDE DEF kept, all
  <2>3. ASSUME NEW a \in Seq(Event), NEW b \in Seq(Event), kept = a \o b
        PROVE  SingleDeltas(Replay(a).state, a)
    <3>1. b \o queue \in Seq(Event) /\ all = a \o (b \o queue)
      BY <2>1, <2>3
    <3> QED
      BY <2>2, <3>1 DEF AllSingle
  <2>4. AllSingle(kept)
    BY <2>3 DEF AllSingle
  <2> QED
    BY <2>1, <2>4 DEF LogInv, kept
<1>11. CASE UNCHANGED vars
  BY <1>2, <1>11 DEF vars, History
<1> QED
  BY <1>3, <1>4, <1>5, <1>6, <1>7, <1>8, <1>9, <1>10, <1>11
  DEF Next, RestoreFails, PrepareFails, Failure

LEMMA LogInvRestores ==
  ASSUME LogInv
  PROVE  LogRestores
<1>1. PICK st : LeadsTo(History, st)
  BY DEF LogInv, HistoryInv
<1>2. SingleDeltas(st, History)
  BY <1>1, AllSingleSelf DEF LogInv
<1>3. log \in Seq(Event) /\ queue \in Seq(Event) /\ covered \in 0..Len(log)
  BY DEF LogInv, HistoryInv, TypeOK
<1>4. Replay(log).ok
  BY <1>1, <1>3, ReplayOkPrefix DEF LeadsTo, History
<1> DEFINE tail == SubSeq(log, covered + 1, Len(log))
           all == History
<1>5. \A i \in DOMAIN tail : tail[i] = all[covered + i] /\ covered + i \in DOMAIN all /\ i \in Int
  BY <1>3 DEF History
<1>6. ASSUME NEW i \in DOMAIN all, NEW j \in DOMAIN all, i # j, i \in Int, j \in Int,
             all[i].kind = all[j].kind
      PROVE  all[i].seq # all[j].seq
  <2>1. all \in Seq(Event) /\ NumberedChecks(all)
    BY <1>1 DEF LeadsTo
  <2>2. all[i] \in Event /\ all[j] \in Event
    BY <2>1
  <2> HIDE DEF all
  <2>3. CASE all[i].kind = "delta"
    BY <1>2, <1>6, <2>3 DEF SingleDeltas, all
  <2>4. CASE all[i].kind = "check"
    <3>1. all[i].seq \in Int /\ all[j].seq \in Int
      BY <2>2, EventParts, MaxSequenceAssumption DEF SequenceNo
    <3>2. CASE i < j
      <4>1. all[i].seq < all[j].seq
        BY <1>6, <2>1, <2>4, <3>2 DEF NumberedChecks
      <4> QED
        BY <3>1, <4>1
    <3>3. CASE j < i
      <4>1. all[j].seq < all[i].seq
        BY <1>6, <2>1, <2>4, <3>3 DEF NumberedChecks
      <4> QED
        BY <3>1, <4>1
    <3> QED
      BY <1>6, <3>2, <3>3
  <2> QED
    BY <2>2, <2>3, <2>4, EventParts
<1> HIDE DEF all, tail
<1>7. ASSUME NEW i \in DOMAIN tail, NEW j \in DOMAIN tail, i # j
      PROVE  <<tail[i].kind, tail[i].seq>> # <<tail[j].kind, tail[j].seq>>
  <2>1. covered + i # covered + j /\ covered + i \in Int /\ covered + j \in Int
    BY <1>3, <1>5, <1>7
  <2>2. tail[i].kind = tail[j].kind => tail[i].seq # tail[j].seq
    BY <1>5, <1>6, <2>1
  <2> QED
    BY <2>2
<1>8. ValidTail(tail)
  BY <1>7 DEF ValidTail
<1> QED
  BY <1>4, <1>8 DEF LogRestores, Restorable, tail

(* Where the shell keeps at most its directory, as with every adapter's    *)
(* runtime, and clients report no deltas of their own, the log of a        *)
(* session can always be restored.                                         *)
THEOREM LogRestoresHolds ==
  ASSUME OnlyDirectories
  PROVE  Spec => []LogRestores
<1>1. Init => LogInv
  <2>1. Init => HistoryInv /\ History = <<>>
    BY InitHistoryInv DEF Init, History
  <2>2. AllSingle(<<>>)
    <3>1. SUFFICES ASSUME NEW a \in Seq(Event), NEW b \in Seq(Event), <<>> = a \o b
                   PROVE  SingleDeltas(Replay(a).state, a)
      BY DEF AllSingle
    <3>2. a = <<>>
      BY <3>1
    <3> QED
      BY <3>2, ReplayNil, SingleDeltasNew DEF Beginning
  <2> QED
    BY <2>1, <2>2 DEF LogInv
<1>2. LogInv /\ [Next]_vars => LogInv'
  BY NextLogInv
<1>3. LogInv => LogRestores
  BY LogInvRestores
<1> QED
  BY <1>1, <1>2, <1>3, PTL DEF Spec
=============================================================================
