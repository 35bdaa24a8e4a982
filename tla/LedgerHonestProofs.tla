------------------------ MODULE LedgerHonestProofs -------------------------
(***************************************************************************)
(* What `rana verify` and `rana verify --mirror` find on a ledger that     *)
(* LedgerWriter wrote, and what SealSession has sealed when it returns,    *)
(* for every number of sessions, events, thresholds, failures and          *)
(* restarts.                                                               *)
(*                                                                         *)
(* The argument: while no commit followed a rolled-back transaction, the   *)
(* durable tables are in order (TableOK), those of the open transaction    *)
(* are, and each chain state in memory continues the tables it was loaded  *)
(* from (AccOK).  Tables in order are what the readers check.              *)
(***************************************************************************)
EXTENDS LedgerWriterProofs

----------------------------------------------------------------------------
(* What `rana verify` looks for, table by table: R, S and C are the rows and *)
(* the segments of one session and the checkpoints of the ledger.            *)

\* rowids ascend, from 1, up to the largest in use.
Ascending(R, top) ==
    /\ \A i \in 1 .. Len(R) : 0 < R[i].rowid /\ R[i].rowid <= top
    /\ \A i, j \in 1 .. Len(R) : i < j => R[i].rowid < R[j].rowid

EventsOf(R, a, b) == [k \in 1 .. b - a + 1 |-> R[a + k - 1].ev]

\* The a-th to the b-th row are those of the segment with header h.
RangeOf(R, h, a, b) ==
    /\ a <= b
    /\ R[a].rowid = h.first /\ R[b].rowid = h.last
    /\ h.root = EventsOf(R, a, b)

SegmentOK(R, S, k) ==
    LET h == S[k].header
    IN  /\ h.seg = k - 1 /\ h.count = Len(h.root) /\ h.gaps = GapCounts(h.root)
        /\ S[k].hash = SegHash(S[k].prev, h)
        /\ S[k].prev = (IF k = 1 THEN Zero ELSE S[k - 1].hash)
        /\ \E a, b \in 1 .. Len(R) : RangeOf(R, h, a, b)

Segmented(R, S) ==
    /\ \A k \in 1 .. Len(S) : SegmentOK(R, S, k)
    /\ \A j, k \in 1 .. Len(S) : j < k => S[j].header.last < S[k].header.first

\* The segments 0 .. n - 1 of s are attested, in order and once each.
AttestedTo(C, S, s, n) ==
    /\ n \in 0 .. Len(S)
    /\ \A i \in 1 .. Len(C) : C[i].body.session = s =>
          /\ 0 <= C[i].body.segFirst /\ C[i].body.segFirst <= C[i].body.segLast
          /\ C[i].body.segLast < n
          /\ S[C[i].body.segLast + 1].hash = C[i].body.head
    /\ \A q \in 0 .. n - 1 : \E i \in 1 .. Len(C) :
          C[i].body.session = s /\ q \in C[i].body.segFirst .. C[i].body.segLast
    /\ \A i, j \in 1 .. Len(C) :
          (i < j /\ C[i].body.session = s /\ C[j].body.session = s)
             => C[i].body.segLast < C[j].body.segFirst

\* The open segment is the tail of the rows, behind all the sealed ones.
Accumulates(R, S, m) ==
    /\ m.gaps = GapCounts(m.leaves)
    /\ m.leaves = << >> => m.first = 0
    /\ m.leaves # << >> => \E a \in 1 .. Len(R) :
          /\ m.first = R[a].rowid /\ m.last = R[Len(R)].rowid
          /\ m.leaves = EventsOf(R, a, Len(R))
          /\ \A k \in 1 .. Len(S) : S[k].header.last < m.first

\* Positions of an appended table.
LEMMA Positions ==
    ASSUME NEW T, NEW u \in Seq(T), NEW e \in T
    PROVE  /\ Append(u, e) \in Seq(T) /\ Append(u, e) # << >>
           /\ Len(Append(u, e)) = Len(u) + 1 /\ Len(u) \in Nat
           /\ Append(u, e)[Len(u) + 1] = e
           /\ \A i \in 1 .. Len(u) : Append(u, e)[i] = u[i]
           /\ \A i \in 1 .. Len(Append(u, e)) : i \in 1 .. Len(u) \/ i = Len(u) + 1
  BY AppendProperties

\* A row above every rowid in use keeps the rowids ascending.
LEMMA AscendingAppend ==
    ASSUME NEW R \in Seq(Row), NEW row \in Row, NEW top \in Nat, row.rowid = top + 1,
           Ascending(R, top)
    PROVE  Ascending(Append(R, row), top + 1)
<1>1. /\ Len(Append(R, row)) = Len(R) + 1 /\ Len(R) \in Nat
      /\ Append(R, row)[Len(R) + 1] = row
      /\ \A i \in 1 .. Len(R) : Append(R, row)[i] = R[i] /\ R[i] \in Row
      /\ \A i \in 1 .. Len(Append(R, row)) : i \in 1 .. Len(R) \/ i = Len(R) + 1
  BY Positions, ElementOfSeq
<1>2. \A i \in 1 .. Len(R) : R[i].rowid \in Nat /\ 0 < R[i].rowid /\ R[i].rowid <= top
  BY <1>1 DEF Ascending, Row
<1> DEFINE Q == Append(R, row)
<1>3. ASSUME NEW i \in 1 .. Len(Q)
      PROVE  0 < Q[i].rowid /\ Q[i].rowid <= top + 1
  BY <1>1, <1>2
<1>4. ASSUME NEW i \in 1 .. Len(Q), NEW j \in 1 .. Len(Q), i < j
      PROVE  Q[i].rowid < Q[j].rowid
  <2>1. i \in 1 .. Len(R) /\ Q[i] = R[i]
    BY <1>1, <1>4
  <2>2. CASE j \in 1 .. Len(R)
    BY <1>1, <1>4, <2>1, <2>2 DEF Ascending
  <2>3. CASE j = Len(R) + 1
    BY <1>1, <1>2, <2>1, <2>3
  <2> QED  BY <1>1, <2>2, <2>3
<1> QED  BY <1>3, <1>4 DEF Ascending

\* The events of rows that stay are the same,
LEMMA EventsKept ==
    ASSUME NEW R \in Seq(Row), NEW row \in Row, NEW a \in 1 .. Len(R), NEW b \in 1 .. Len(R)
    PROVE  EventsOf(Append(R, row), a, b) = EventsOf(R, a, b)
<1>1. ASSUME NEW k \in 1 .. b - a + 1
      PROVE  Append(R, row)[a + k - 1].ev = R[a + k - 1].ev
  <2>1. a + k - 1 \in 1 .. Len(R)
    OBVIOUS
  <2> QED  BY <2>1, Positions
<1> QED  BY <1>1 DEF EventsOf

\* a segment's range of rows has them as a sequence,
LEMMA EventsType ==
    ASSUME NEW R \in Seq(Row), NEW a \in 1 .. Len(R), NEW b \in 1 .. Len(R), a <= b
    PROVE  /\ EventsOf(R, a, b) \in Seq(Event)
           /\ Len(EventsOf(R, a, b)) = b - a + 1
           /\ \A k \in 1 .. b - a + 1 : EventsOf(R, a, b)[k] = R[a + k - 1].ev
<1> DEFINE n == b - a + 1
<1>1. n \in Nat
  OBVIOUS
<1>2. ASSUME NEW k \in 1 .. n PROVE R[a + k - 1].ev \in Event
  <2>1. a + k - 1 \in 1 .. Len(R)
    OBVIOUS
  <2>2. R[a + k - 1] \in Row
    BY <2>1, ElementOfSeq
  <2> QED  BY <2>2 DEF Row
<1>3. EventsOf(R, a, b) = [k \in 1 .. n |-> R[a + k - 1].ev]
  BY DEF EventsOf
<1> HIDE DEF n
<1>4. EventsOf(R, a, b) \in [1 .. n -> Event]
  BY <1>2, <1>3
<1>5. EventsOf(R, a, b) \in Seq(Event) /\ Len(EventsOf(R, a, b)) = n
  BY <1>1, <1>4
<1> QED  BY <1>3, <1>5 DEF n

\* and an appended row adds its event.
LEMMA EventsAppended ==
    ASSUME NEW R \in Seq(Row), NEW row \in Row, NEW a \in 1 .. Len(R)
    PROVE  EventsOf(Append(R, row), a, Len(R) + 1) = Append(EventsOf(R, a, Len(R)), row.ev)
<1> DEFINE Q == Append(R, row)
           n == Len(R)
           u == EventsOf(Q, a, n + 1)
           v == EventsOf(R, a, n)
<1>1. /\ n \in Nat /\ a \in 1 .. n /\ Q \in Seq(Row) /\ Len(Q) = n + 1 /\ Q[n + 1] = row
      /\ \A i \in 1 .. n : Q[i] = R[i]
  BY Positions
<1>2. a \in 1 .. Len(Q) /\ n + 1 \in 1 .. Len(Q) /\ a <= n + 1 /\ n \in 1 .. n /\ a <= n
  BY <1>1
<1>3. /\ u \in Seq(Event) /\ Len(u) = (n + 1) - a + 1
      /\ \A k \in 1 .. (n + 1) - a + 1 : u[k] = Q[a + k - 1].ev
  BY <1>1, <1>2, EventsType
<1>4. /\ v \in Seq(Event) /\ Len(v) = n - a + 1
      /\ \A k \in 1 .. n - a + 1 : v[k] = R[a + k - 1].ev
  BY <1>2, EventsType
<1>5. row.ev \in Event
  BY DEF Row
<1> HIDE DEF Q, u, v, n
<1>6. /\ Append(v, row.ev) \in Seq(Event) /\ Len(Append(v, row.ev)) = Len(v) + 1
      /\ Append(v, row.ev)[Len(v) + 1] = row.ev
      /\ \A k \in 1 .. Len(v) : Append(v, row.ev)[k] = v[k]
  BY <1>4, <1>5, AppendProperties
<1>7. ASSUME NEW k \in 1 .. Len(u)
      PROVE  u[k] = Append(v, row.ev)[k]
  <2>1. CASE k \in 1 .. Len(v)
    <3>1. a + k - 1 \in 1 .. n /\ k \in 1 .. n - a + 1 /\ k \in 1 .. (n + 1) - a + 1
      BY <1>1, <1>4, <2>1
    <3> QED  BY <1>1, <1>3, <1>4, <1>6, <2>1, <3>1
  <2>2. CASE k = Len(v) + 1
    <3>1. a + k - 1 = n + 1 /\ k \in 1 .. (n + 1) - a + 1
      <4>1. n \in Nat /\ a \in Nat /\ a <= n /\ k = (n - a + 1) + 1
        BY <1>1, <1>4, <2>2
      <4> QED  BY <4>1
    <3> QED  BY <1>1, <1>3, <1>6, <2>2, <3>1
  <2>3. k \in 1 .. Len(v) \/ k = Len(v) + 1
    BY <1>1, <1>3, <1>4
  <2> QED  BY <2>1, <2>2, <2>3
<1>8. Len(u) = Len(Append(v, row.ev))
  BY <1>1, <1>3, <1>4, <1>6
<1>9. u = Append(v, row.ev)
  BY <1>3, <1>6, <1>7, <1>8, SeqEqual
<1> QED  BY <1>9 DEF u, v, Q, n

\* The tally of no events is empty,
LEMMA GapsNone == GapCounts(<< >>) = NoGaps
<1>1. ASSUME NEW r \in GapReason
      PROVE  Cardinality({i \in 1 .. Len(<< >>) : << >>[i].gap = r}) = 0
  <2>1. {i \in 1 .. Len(<< >>) : << >>[i].gap = r} = {}
    OBVIOUS
  <2> QED  BY <2>1, FS_EmptySet
<1> QED  BY <1>1 DEF GapCounts, NoGaps

\* and the tally of one more is the old one, counted on.
LEMMA GapsCounted ==
    ASSUME NEW u \in Seq(Event), NEW ev \in Event
    PROVE  GapCounts(Append(u, ev)) = Tallied(GapCounts(u), ev.gap)
<1> DEFINE n == Len(u)
           v == Append(u, ev)
           I(r) == {i \in 1 .. n : u[i].gap = r}
           J(r) == {i \in 1 .. n + 1 : v[i].gap = r}
<1>1. /\ n \in Nat /\ Len(v) = n + 1 /\ v[n + 1] = ev /\ \A i \in 1 .. n : v[i] = u[i]
  BY Positions
<1> HIDE DEF v, n
<1>2. ASSUME NEW r
      PROVE  /\ IsFiniteSet(I(r)) /\ Cardinality(I(r)) \in Nat
             /\ J(r) = IF ev.gap = r THEN I(r) \cup {n + 1} ELSE I(r)
             /\ n + 1 \notin I(r)
  <2>1. IsFiniteSet(1 .. n) /\ I(r) \in SUBSET (1 .. n)
    BY <1>1, FS_Interval
  <2>2. IsFiniteSet(I(r))
    BY <2>1, FS_Subset
  <2>3. \A i : i \in 1 .. n + 1 <=> i \in 1 .. n \/ i = n + 1
    BY <1>1
  <2>4. J(r) = IF ev.gap = r THEN I(r) \cup {n + 1} ELSE I(r)
    BY <1>1, <2>3
  <2>5. n + 1 \notin I(r)
    BY <1>1
  <2> QED  BY <2>2, <2>4, <2>5, FS_CardinalityType
<1>3. ASSUME NEW r \in GapReason
      PROVE  Cardinality(J(r)) = IF ev.gap = r THEN Cardinality(I(r)) + 1 ELSE Cardinality(I(r))
  <2> DEFINE X == I(r)
             Y == J(r)
  <2>1. /\ IsFiniteSet(X) /\ n + 1 \notin X /\ Y = IF ev.gap = r THEN X \cup {n + 1} ELSE X
    BY <1>2
  <2> HIDE DEF X, Y
  <2>2. Cardinality(X \cup {n + 1}) = Cardinality(X) + 1
    BY <2>1, FS_AddElement
  <2>3. Cardinality(Y) = IF ev.gap = r THEN Cardinality(X) + 1 ELSE Cardinality(X)
    BY <2>1, <2>2
  <2> QED  BY <2>3 DEF X, Y
<1>4. /\ GapCounts(u) = [r \in GapReason |-> Cardinality(I(r))]
      /\ GapCounts(v) = [r \in GapReason |-> Cardinality(J(r))]
  BY <1>1 DEF GapCounts, n
<1> HIDE DEF I, J
<1>5. CASE ev.gap = NoGap
  <2>1. \A r \in GapReason : ev.gap # r
    BY <1>5, GapAssumption
  <2> QED  BY <1>3, <1>4, <1>5, <2>1 DEF Tallied, v
<1>6. CASE ev.gap # NoGap
  <2>1. ev.gap \in GapReason
    BY <1>6 DEF Event
  <2>2. Tallied(GapCounts(u), ev.gap) =
            [r \in GapReason |-> IF ev.gap = r THEN Cardinality(I(r)) + 1 ELSE Cardinality(I(r))]
    BY <1>4, <1>6, <2>1 DEF Tallied
  <2> QED  BY <1>3, <1>4, <2>2 DEF v
<1> QED  BY <1>5, <1>6

----------------------------------------------------------------------------
(* Inserting a row *)

\* The rows of sealed segments are among those in use.
LEMMA SealedBelow ==
    ASSUME NEW R \in Seq(Row), NEW S \in Seq(SegRow), NEW top \in Nat,
           Ascending(R, top), Segmented(R, S), NEW k \in 1 .. Len(S)
    PROVE  S[k].header.last <= top
<1>1. PICK a, b \in 1 .. Len(R) : RangeOf(R, S[k].header, a, b)
  BY DEF Segmented, SegmentOK
<1> QED  BY <1>1 DEF RangeOf, Ascending

\* Sealed segments keep their rows.
LEMMA SegmentedAppend ==
    ASSUME NEW R \in Seq(Row), NEW row \in Row, NEW S \in Seq(SegRow), Segmented(R, S)
    PROVE  Segmented(Append(R, row), S)
<1> DEFINE Q == Append(R, row)
<1>1. ASSUME NEW k \in 1 .. Len(S)
      PROVE  SegmentOK(Q, S, k)
  <2>1. PICK a, b \in 1 .. Len(R) : RangeOf(R, S[k].header, a, b)
    BY DEF Segmented, SegmentOK
  <2>2. /\ a \in 1 .. Len(Q) /\ b \in 1 .. Len(Q) /\ Q[a] = R[a] /\ Q[b] = R[b]
    BY Positions
  <2>3. EventsOf(Q, a, b) = EventsOf(R, a, b)
    BY EventsKept
  <2> HIDE DEF Q
  <2>4. RangeOf(Q, S[k].header, a, b)
    BY <2>1, <2>2, <2>3 DEF RangeOf
  <2>5. SegmentOK(R, S, k)
    BY DEF Segmented
  <2> QED  BY <2>2, <2>4, <2>5 DEF SegmentOK
<1> QED  BY <1>1 DEF Segmented

\* The accumulator follows its row.
LEMMA AccumulatesRow ==
    ASSUME NEW R \in Seq(Row), NEW S \in Seq(SegRow), NEW m \in Mem, NEW top \in Nat,
           NEW row \in Row, row.rowid = top + 1,
           Ascending(R, top), Segmented(R, S), Accumulates(R, S, m)
    PROVE  Accumulates(Append(R, row), S, Accumulated(m, row.ev, top + 1))
<1> DEFINE Q == Append(R, row)
           ev == row.ev
           acc == Accumulated(m, ev, top + 1)
           n == Len(R)
<1>1. /\ Q \in Seq(Row) /\ Len(Q) = n + 1 /\ Q[n + 1] = row /\ n \in Nat
      /\ \A i \in 1 .. n : Q[i] = R[i]
  BY Positions
<1>2. ev \in Event /\ m.leaves \in Seq(Event) /\ m.first \in Nat
  BY DEF Row, Mem
<1>3. /\ acc.first = IF m.first = 0 THEN top + 1 ELSE m.first
      /\ acc.last = top + 1 /\ acc.leaves = Append(m.leaves, ev)
      /\ acc.gaps = Tallied(m.gaps, ev.gap)
  BY DEF Accumulated, Mem, Leaf
<1> HIDE DEF acc
<1>4. acc.gaps = GapCounts(acc.leaves)
  BY <1>2, <1>3, GapsCounted DEF Accumulates
<1>5. acc.leaves # << >>
  BY <1>2, <1>3, AppendProperties
<1>6. \E a \in 1 .. n + 1 :
          /\ acc.first = Q[a].rowid
          /\ acc.leaves = EventsOf(Q, a, n + 1)
          /\ \A k \in 1 .. Len(S) : S[k].header.last < acc.first
  <2>1. CASE m.leaves = << >>
    <3>1. acc.first = top + 1 /\ n + 1 \in 1 .. n + 1 /\ Q[n + 1].rowid = top + 1
      BY <1>1, <1>3, <2>1 DEF Accumulates
    <3>2. acc.leaves = EventsOf(Q, n + 1, n + 1)
      <4>1. /\ EventsOf(Q, n + 1, n + 1) \in Seq(Event)
            /\ Len(EventsOf(Q, n + 1, n + 1)) = (n + 1) - (n + 1) + 1
            /\ \A k \in 1 .. (n + 1) - (n + 1) + 1 :
                  EventsOf(Q, n + 1, n + 1)[k] = Q[n + 1 + k - 1].ev
        <5>1. n + 1 \in 1 .. Len(Q) /\ n + 1 <= n + 1
          BY <1>1
        <5> QED  BY <1>1, <5>1, EventsType
      <4>2. (n + 1) - (n + 1) + 1 = 1 /\ n + 1 + 1 - 1 = n + 1 /\ \A k \in 1 .. 1 : k = 1
        BY <1>1
      <4>3. /\ acc.leaves \in Seq(Event) /\ Len(acc.leaves) = 1 /\ acc.leaves[1] = ev
        <5>1. << >> \in Seq(Event) /\ Len(<< >>) = 0
          OBVIOUS
        <5>2. acc.leaves = Append(<< >>, ev)
          BY <1>3, <2>1
        <5> QED  BY <1>2, <5>1, <5>2, AppendProperties
      <4>4. EventsOf(Q, n + 1, n + 1)[1] = ev /\ Len(EventsOf(Q, n + 1, n + 1)) = 1
        BY <1>1, <4>1, <4>2
      <4>5. \A k \in 1 .. Len(acc.leaves) : acc.leaves[k] = EventsOf(Q, n + 1, n + 1)[k]
        BY <4>2, <4>3, <4>4
      <4> QED  BY <4>1, <4>3, <4>4, <4>5, SeqEqual
    <3>3. ASSUME NEW k \in 1 .. Len(S) PROVE S[k].header.last < acc.first
      <4>1. S[k].header.last <= top
        BY SealedBelow
      <4>2. S[k].header.last \in Nat
        <5>1. S[k] \in SegRow
          BY ElementOfSeq
        <5> QED  BY <5>1 DEF SegRow, Header
      <4> QED  BY <3>1, <4>1, <4>2
    <3> QED  BY <3>1, <3>2, <3>3
  <2>2. CASE m.leaves # << >>
    <3>1. PICK a \in 1 .. n :
             /\ m.first = R[a].rowid /\ m.leaves = EventsOf(R, a, n)
             /\ \A k \in 1 .. Len(S) : S[k].header.last < m.first
      BY <2>2 DEF Accumulates
    <3>2. 0 < m.first
      BY <3>1 DEF Ascending
    <3>3. acc.first = m.first /\ a \in 1 .. n + 1 /\ Q[a] = R[a]
      BY <1>1, <1>2, <1>3, <3>2
    <3>4. acc.leaves = EventsOf(Q, a, n + 1)
      BY <1>3, <3>1, EventsAppended
    <3> QED  BY <3>1, <3>3, <3>4
  <2> QED  BY <2>1, <2>2
<1>7. acc.last = Q[Len(Q)].rowid
  BY <1>1, <1>3
<1> HIDE DEF Q, n
<1>8. Accumulates(Q, S, acc)
  BY <1>1, <1>4, <1>5, <1>6, <1>7 DEF Accumulates
<1> QED  BY <1>8 DEF Q, acc

----------------------------------------------------------------------------
(* Sealing the open segment *)

\* The segment maybeSealLocked inserts verifies, behind those that do.
LEMMA SegmentedSeal ==
    ASSUME NEW R \in Seq(Row), NEW S \in Seq(SegRow), NEW h \in Header, NEW prev \in SegHashes,
           Segmented(R, S), h.seg = Len(S), h.count = Len(h.root), h.gaps = GapCounts(h.root),
           prev = (IF S = << >> THEN Zero ELSE S[Len(S)].hash),
           NEW a \in 1 .. Len(R), NEW b \in 1 .. Len(R), RangeOf(R, h, a, b),
           \A k \in 1 .. Len(S) : S[k].header.last < h.first
    PROVE  Segmented(R, Append(S, [header |-> h, prev |-> prev, hash |-> SegHash(prev, h)]))
<1> DEFINE seg == [header |-> h, prev |-> prev, hash |-> SegHash(prev, h)]
           T == Append(S, seg)
           n == Len(S)
<1>1. seg \in SegRow /\ seg.header = h /\ seg.prev = prev /\ seg.hash = SegHash(prev, h)
  <2>1. SegHash(prev, h) \in SegHashes
    BY DEF SegHash, SegHashes
  <2> QED  BY <2>1 DEF SegRow
<1> HIDE DEF seg
<1>2. /\ n \in Nat /\ Len(T) = n + 1 /\ T[n + 1] = seg
      /\ \A k \in 1 .. n : T[k] = S[k]
      /\ \A k \in 1 .. Len(T) : k \in 1 .. n \/ k = n + 1
      /\ S = << >> <=> n = 0
  BY <1>1, Positions, EmptySeq
<1> HIDE DEF T
<1>3. ASSUME NEW k \in 1 .. n
      PROVE  SegmentOK(R, T, k)
  <2>1. SegmentOK(R, S, k) /\ T[k] = S[k] /\ (k # 1 => T[k - 1] = S[k - 1])
    <3>1. k # 1 => k - 1 \in 1 .. n
      BY <1>2
    <3> QED  BY <1>2, <3>1 DEF Segmented, n
  <2> QED  BY <2>1 DEF SegmentOK
<1>4. SegmentOK(R, T, n + 1)
  <2>1. h.seg = (n + 1) - 1
    BY <1>2 DEF n
  <2>2. prev = (IF n + 1 = 1 THEN Zero ELSE T[(n + 1) - 1].hash)
    <3>1. CASE n = 0
      BY <1>2, <3>1
    <3>2. CASE n # 0
      <4>1. (n + 1) - 1 = n /\ n \in 1 .. n /\ n + 1 # 1
        BY <1>2, <3>2
      <4>2. T[(n + 1) - 1] = S[n]
        BY <1>2, <4>1
      <4> QED  BY <1>2, <3>2, <4>1, <4>2 DEF n
    <3> QED  BY <3>1, <3>2
  <2> QED  BY <1>1, <1>2, <2>1, <2>2 DEF SegmentOK
<1>5. ASSUME NEW j \in 1 .. Len(T), NEW k \in 1 .. Len(T), j < k
      PROVE  T[j].header.last < T[k].header.first
  <2>1. j \in 1 .. n
    BY <1>2, <1>5
  <2>2. CASE k \in 1 .. n
    BY <1>2, <1>5, <2>1, <2>2 DEF Segmented, n
  <2>3. CASE k = n + 1
    BY <1>1, <1>2, <2>1, <2>3 DEF n
  <2> QED  BY <1>2, <2>2, <2>3
<1> QED  BY <1>2, <1>3, <1>4, <1>5 DEF Segmented, T, seg

\* Attestations of older segments stay where they are.
LEMMA AttestedSeal ==
    ASSUME NEW C, NEW S \in Seq(SegRow), NEW s, NEW n, NEW seg \in SegRow,
           C \in Seq(CkptRow), AttestedTo(C, S, s, n)
    PROVE  AttestedTo(C, Append(S, seg), s, n)
<1>1. /\ Len(Append(S, seg)) = Len(S) + 1 /\ Len(S) \in Nat
      /\ \A k \in 1 .. Len(S) : Append(S, seg)[k] = S[k]
  BY Positions
<1>2. n \in 0 .. Len(S) /\ n \in 0 .. Len(Append(S, seg))
  BY <1>1 DEF AttestedTo
<1>3. ASSUME NEW i \in 1 .. Len(C), C[i].body.session = s
      PROVE  Append(S, seg)[C[i].body.segLast + 1].hash = C[i].body.head
  <2>1. C[i] \in CkptRow
    BY ElementOfSeq
  <2>2. C[i].body.segFirst \in Int /\ C[i].body.segLast \in Int
    BY <2>1 DEF CkptRow, Body
  <2>3. /\ 0 <= C[i].body.segFirst /\ C[i].body.segFirst <= C[i].body.segLast
        /\ C[i].body.segLast < n /\ S[C[i].body.segLast + 1].hash = C[i].body.head
    BY <1>3 DEF AttestedTo
  <2>4. C[i].body.segLast + 1 \in 1 .. Len(S)
    BY <1>1, <1>2, <2>2, <2>3
  <2> QED  BY <1>1, <2>3, <2>4
<1> QED  BY <1>2, <1>3 DEF AttestedTo

----------------------------------------------------------------------------
(* Signing a checkpoint *)

\* A checkpoint over all that is not attested yet attests every segment.
LEMMA AttestedAll ==
    ASSUME NEW C \in Seq(CkptRow), NEW S \in Seq(SegRow), NEW s, NEW n, AttestedTo(C, S, s, n),
           NEW c \in CkptRow, c.body.session = s, n < Len(S),
           c.body.segFirst = n, c.body.segLast = Len(S) - 1, c.body.head = S[Len(S)].hash
    PROVE  AttestedTo(Append(C, c), S, s, Len(S))
<1> DEFINE D == Append(C, c)
           N == Len(C)
           z == Len(S)
<1>1. /\ N \in Nat /\ Len(D) = N + 1 /\ D[N + 1] = c
      /\ \A i \in 1 .. N : D[i] = C[i]
      /\ \A i \in 1 .. Len(D) : i \in 1 .. N \/ i = N + 1
  BY Positions
<1>2. z \in Nat /\ n \in 0 .. z /\ n < z /\ z \in 0 .. z /\ (z - 1) + 1 = z
  BY DEF AttestedTo
<1>3. ASSUME NEW i \in 1 .. N, C[i].body.session = s
      PROVE  /\ C[i].body.segFirst \in Int /\ C[i].body.segLast \in Int
             /\ 0 <= C[i].body.segFirst /\ C[i].body.segFirst <= C[i].body.segLast
             /\ C[i].body.segLast < n /\ S[C[i].body.segLast + 1].hash = C[i].body.head
  <2>1. C[i] \in CkptRow
    BY ElementOfSeq
  <2> QED  BY <1>3, <2>1 DEF AttestedTo, CkptRow, Body
<1> HIDE DEF D, N
<1>4. ASSUME NEW i \in 1 .. Len(D), D[i].body.session = s
      PROVE  /\ 0 <= D[i].body.segFirst /\ D[i].body.segFirst <= D[i].body.segLast
             /\ D[i].body.segLast < z /\ S[D[i].body.segLast + 1].hash = D[i].body.head
  <2>1. CASE i \in 1 .. N
    <3>1. D[i] = C[i] /\ C[i].body.session = s
      BY <1>1, <1>4, <2>1
    <3>2. /\ C[i].body.segLast \in Int /\ C[i].body.segLast < n
          /\ 0 <= C[i].body.segFirst /\ C[i].body.segFirst <= C[i].body.segLast
          /\ S[C[i].body.segLast + 1].hash = C[i].body.head
      BY <1>3, <2>1, <3>1
    <3>3. C[i].body.segLast < z
      BY <1>2, <3>2
    <3> QED  BY <3>1, <3>2, <3>3
  <2>2. CASE i = N + 1
    <3>1. D[i] = c
      BY <1>1, <2>2
    <3>2. 0 <= c.body.segFirst /\ c.body.segFirst <= c.body.segLast /\ c.body.segLast < z
      BY <1>2
    <3>3. S[c.body.segLast + 1].hash = c.body.head
      BY <1>2
    <3> QED  BY <3>1, <3>2, <3>3
  <2> QED  BY <1>1, <2>1, <2>2
<1>5. ASSUME NEW q \in 0 .. z - 1
      PROVE  \E i \in 1 .. Len(D) :
                D[i].body.session = s /\ q \in D[i].body.segFirst .. D[i].body.segLast
  <2>1. CASE q < n
    <3>1. q \in 0 .. n - 1
      BY <1>2, <2>1
    <3>2. PICK i \in 1 .. N :
             C[i].body.session = s /\ q \in C[i].body.segFirst .. C[i].body.segLast
      BY <3>1 DEF AttestedTo, N
    <3>3. i \in 1 .. Len(D) /\ D[i] = C[i]
      BY <1>1
    <3> QED  BY <3>2, <3>3
  <2>2. CASE ~(q < n)
    <3>1. q \in c.body.segFirst .. c.body.segLast
      BY <1>2, <2>2
    <3>2. N + 1 \in 1 .. Len(D) /\ D[N + 1] = c
      BY <1>1
    <3> QED  BY <3>1, <3>2
  <2> QED  BY <2>1, <2>2
<1>6. ASSUME NEW i \in 1 .. Len(D), NEW j \in 1 .. Len(D), i < j,
             D[i].body.session = s, D[j].body.session = s
      PROVE  D[i].body.segLast < D[j].body.segFirst
  <2>1. i \in 1 .. N /\ D[i] = C[i]
    BY <1>1, <1>6
  <2>2. CASE j \in 1 .. N
    BY <1>1, <1>6, <2>1, <2>2 DEF AttestedTo, N
  <2>3. CASE j = N + 1
    BY <1>1, <1>3, <1>6, <2>1, <2>3
  <2> QED  BY <1>1, <2>2, <2>3
<1> QED  BY <1>2, <1>4, <1>5, <1>6 DEF AttestedTo, D

\* A checkpoint of another session attests nothing here.
LEMMA AttestedOther ==
    ASSUME NEW C \in Seq(CkptRow), NEW S, NEW s, NEW n, AttestedTo(C, S, s, n),
           NEW c \in CkptRow, c.body.session # s
    PROVE  AttestedTo(Append(C, c), S, s, n)
<1> DEFINE D == Append(C, c)
           N == Len(C)
<1>1. /\ N \in Nat /\ Len(D) = N + 1 /\ D[N + 1] = c
      /\ \A i \in 1 .. N : D[i] = C[i] /\ i \in 1 .. Len(D)
      /\ \A i \in 1 .. Len(D) : i \in 1 .. N \/ i = N + 1
  BY Positions
<1> HIDE DEF D
<1>2. ASSUME NEW i \in 1 .. Len(D), D[i].body.session = s
      PROVE  i \in 1 .. N /\ D[i] = C[i]
  BY <1>1, <1>2
<1>3. n \in 0 .. Len(S)
  BY DEF AttestedTo
<1>4. \A i \in 1 .. Len(D) : D[i].body.session = s =>
          /\ 0 <= D[i].body.segFirst /\ D[i].body.segFirst <= D[i].body.segLast
          /\ D[i].body.segLast < n
          /\ S[D[i].body.segLast + 1].hash = D[i].body.head
  BY <1>2 DEF AttestedTo
<1>5. \A q \in 0 .. n - 1 : \E i \in 1 .. Len(D) :
          D[i].body.session = s /\ q \in D[i].body.segFirst .. D[i].body.segLast
  <2> SUFFICES ASSUME NEW q \in 0 .. n - 1
               PROVE  \E i \in 1 .. Len(D) :
                         D[i].body.session = s /\ q \in D[i].body.segFirst .. D[i].body.segLast
    OBVIOUS
  <2>1. PICK i \in 1 .. N :
           C[i].body.session = s /\ q \in C[i].body.segFirst .. C[i].body.segLast
    BY DEF AttestedTo
  <2> QED  BY <1>1, <2>1
<1>6. \A i, j \in 1 .. Len(D) : (i < j /\ D[i].body.session = s /\ D[j].body.session = s)
          => D[i].body.segLast < D[j].body.segFirst
  BY <1>2 DEF AttestedTo
<1> QED  BY <1>3, <1>4, <1>5, <1>6 DEF AttestedTo, D

----------------------------------------------------------------------------
(* Loading a session's chain state *)

TableOK(L, s) ==
    /\ Ascending(L.rows[s], L.lastRow)
    /\ Segmented(L.rows[s], L.segs[s])
    /\ \E n \in 0 .. Len(L.segs[s]) : AttestedTo(L.ckpts, L.segs[s], s, n)

\* The chain state m of s continues the tables of L.
AccOK(L, s, m) ==
    /\ m.segIndex = Len(L.segs[s]) /\ m.prev = LastSegHash(L, s)
    /\ Accumulates(L.rows[s], L.segs[s], m)
    /\ AttestedTo(L.ckpts, L.segs[s], s, m.segIndex - m.pending)

\* The tables of a session, with their types.
LEMMA TableTypes ==
    ASSUME NEW L \in Ledger, NEW s \in Session
    PROVE  /\ L.rows[s] \in Seq(Row) /\ L.segs[s] \in Seq(SegRow) /\ L.ckpts \in Seq(CkptRow)
           /\ L.lastRow \in Nat /\ Len(L.segs[s]) \in Nat /\ Len(L.rows[s]) \in Nat
           /\ Len(L.ckpts) \in Nat
  BY DEF Ledger

\* A checkpoint's fields are integers.
LEMMA BodyInts ==
    ASSUME NEW C \in Seq(CkptRow), NEW i \in 1 .. Len(C)
    PROVE  /\ C[i] \in CkptRow /\ C[i].body \in Body
           /\ C[i].body.segFirst \in Int /\ C[i].body.segLast \in Int
<1>1. C[i] \in CkptRow
  BY ElementOfSeq
<1> QED  BY <1>1 DEF CkptRow, Body

\* The segment found at a position has that position's number.
LEMMA SegNumber ==
    ASSUME NEW L \in Ledger, NEW s \in Session, TableOK(L, s), NEW k \in 1 .. Len(L.segs[s])
    PROVE  L.segs[s][k].header.seg = k - 1
  BY DEF TableOK, Segmented, SegmentOK

\* A segment is attested exactly when its number is below n.
LEMMA AttestedBelow ==
    ASSUME NEW L \in Ledger, NEW s \in Session, NEW n \in Nat,
           AttestedTo(L.ckpts, L.segs[s], s, n), NEW q \in Nat
    PROVE  Attested(L, s, q) <=> q < n
<1>1. ASSUME q < n PROVE Attested(L, s, q)
  <2>1. q \in 0 .. n - 1
    BY <1>1
  <2>2. PICK i \in 1 .. Len(L.ckpts) :
           /\ L.ckpts[i].body.session = s
           /\ q \in L.ckpts[i].body.segFirst .. L.ckpts[i].body.segLast
    BY <2>1 DEF AttestedTo
  <2>3. L.ckpts[i].body.segLast \in Int
    BY TableTypes, BodyInts
  <2>4. L.ckpts[i].body.segLast >= q
    BY <2>2, <2>3
  <2> QED  BY <2>2, <2>4 DEF Attested
<1>2. ASSUME Attested(L, s, q) PROVE q < n
  <2>1. PICK i \in 1 .. Len(L.ckpts) :
           L.ckpts[i].body.session = s /\ L.ckpts[i].body.segLast >= q
    BY <1>2 DEF Attested
  <2>2. L.ckpts[i].body.segLast \in Int
    BY TableTypes, BodyInts
  <2>3. L.ckpts[i].body.segLast < n
    BY <2>1 DEF AttestedTo
  <2> QED  BY <2>1, <2>2, <2>3
<1> QED  BY <1>1, <1>2

\* openOrInitSessionLocked continues what is durable: the next segment's
\* index, the last hash, an empty accumulator and the unattested segments.
LEMMA LoadedOK ==
    ASSUME NEW L \in Ledger, NEW s \in Session, TableOK(L, s)
    PROVE  AccOK(L, s, Loaded(L, s))
<1> DEFINE S == L.segs[s]
           z == Len(S)
           m == Loaded(L, s)
<1>1. S \in Seq(SegRow) /\ z \in Nat
  BY TableTypes
<1>2. PICK n \in 0 .. z : AttestedTo(L.ckpts, S, s, n)
  BY DEF TableOK
<1>3. PendingSegs(L, s) = n + 1 .. z
  <2>1. ASSUME NEW k \in 1 .. z
        PROVE  k \in PendingSegs(L, s) <=> k \in n + 1 .. z
    <3>1. S[k].header.seg = k - 1 /\ k - 1 \in Nat /\ n \in Nat
      BY <1>1, SegNumber
    <3>2. Attested(L, s, k - 1) <=> k - 1 < n
      BY <1>2, <3>1, AttestedBelow
    <3> QED  BY <1>1, <3>1, <3>2 DEF PendingSegs
  <2>2. PendingSegs(L, s) \subseteq 1 .. z /\ n + 1 .. z \subseteq 1 .. z
    BY <1>1 DEF PendingSegs
  <2> HIDE DEF z, S
  <2> QED  BY <2>1, <2>2
<1>4. Cardinality(PendingSegs(L, s)) = z - n
  <2>1. n + 1 \in Int /\ z \in Int /\ n <= z
    BY <1>1
  <2>2. Cardinality(n + 1 .. z) = IF n + 1 > z THEN 0 ELSE z - (n + 1) + 1
    BY <2>1, FS_Interval
  <2> QED  BY <1>3, <2>1, <2>2
<1>5. NextSeg(L, s) = z
  <2>1. CASE S = << >>
    BY <2>1 DEF NextSeg
  <2>2. CASE S # << >>
    <3>1. z \in 1 .. z
      BY <1>1, <2>2
    <3>2. S[z].header.seg = z - 1
      BY <3>1, SegNumber
    <3> QED  BY <1>1, <2>2, <3>2 DEF NextSeg
  <2> QED  BY <2>1, <2>2
<1>6. /\ m.segIndex = NextSeg(L, s) /\ m.prev = LastSegHash(L, s)
      /\ m.pending = Cardinality(PendingSegs(L, s))
      /\ m.first = 0 /\ m.leaves = << >> /\ m.gaps = NoGaps
  BY DEF Loaded, Unknown
<1> HIDE DEF m
<1>7. Accumulates(L.rows[s], S, m)
  BY <1>6, GapsNone DEF Accumulates
<1>8. m.segIndex - m.pending = n
  BY <1>1, <1>4, <1>5, <1>6
<1> QED  BY <1>2, <1>5, <1>6, <1>7, <1>8 DEF AccOK, m

----------------------------------------------------------------------------
(* What the readers find in such tables *)

\* A set of positions that fills an interval has its ends as extremes.
LEMMA Extremes ==
    ASSUME NEW a \in Int, NEW b \in Int, a <= b
    PROVE  LeastIn(a .. b) = a /\ GreatestIn(a .. b) = b
<1>1. \A i \in a .. b : (\A j \in a .. b : i <= j) => i = a
  OBVIOUS
<1>2. a \in a .. b /\ \A j \in a .. b : a <= j
  OBVIOUS
<1>3. \A i \in a .. b : (\A j \in a .. b : j <= i) => i = b
  OBVIOUS
<1>4. b \in a .. b /\ \A j \in a .. b : j <= b
  OBVIOUS
<1>5. LeastIn(a .. b) = a
  BY <1>1, <1>2 DEF LeastIn
<1>6. GreatestIn(a .. b) = b
  BY <1>3, <1>4 DEF GreatestIn
<1> QED  BY <1>5, <1>6

\* The rows in the rowid range of a segment are those it was built from.
LEMMA EventsFound ==
    ASSUME NEW L \in Ledger, NEW s \in Session, Ascending(L.rows[s], L.lastRow),
           NEW h \in Header, NEW a \in 1 .. Len(L.rows[s]), NEW b \in 1 .. Len(L.rows[s]),
           RangeOf(L.rows[s], h, a, b)
    PROVE  SegmentEvents(L, s, h.first, h.last) = h.root
<1> DEFINE R == L.rows[s]
           n == Len(R)
<1>1. /\ R \in Seq(Row) /\ n \in Nat
      /\ a <= b /\ R[a].rowid = h.first /\ R[b].rowid = h.last /\ h.root = EventsOf(R, a, b)
  BY TableTypes DEF RangeOf
<1>2. ASSUME NEW i \in 1 .. n PROVE R[i].rowid \in Nat
  <2>1. R[i] \in Row
    BY <1>1, ElementOfSeq
  <2> QED  BY <2>1 DEF Row
<1>3. \A i, j \in 1 .. n : i < j => R[i].rowid < R[j].rowid
  BY DEF Ascending
<1>4. RowsIn(L, s, h.first, h.last) = a .. b
  <2>1. ASSUME NEW i \in 1 .. n
        PROVE  (h.first <= R[i].rowid /\ R[i].rowid <= h.last) <=> i \in a .. b
    <3>1. a \in 1 .. n /\ b \in 1 .. n
      OBVIOUS
    <3>2. CASE i < a
      <4>1. R[i].rowid < R[a].rowid
        BY <1>3, <3>1, <3>2
      <4> QED  BY <1>1, <1>2, <3>1, <3>2, <4>1
    <3>3. CASE i > b
      <4>1. R[b].rowid < R[i].rowid
        BY <1>3, <3>1, <3>3
      <4> QED  BY <1>1, <1>2, <3>1, <3>3, <4>1
    <3>4. CASE a <= i /\ i <= b
      <4>1. i = a \/ R[a].rowid < R[i].rowid
        BY <1>3, <3>1, <3>4
      <4>2. i = b \/ R[i].rowid < R[b].rowid
        BY <1>3, <3>1, <3>4
      <4> QED  BY <1>1, <1>2, <3>1, <3>4, <4>1, <4>2
    <3> QED  BY <3>2, <3>3, <3>4
  <2>2. RowsIn(L, s, h.first, h.last) =
            {i \in 1 .. n : h.first <= R[i].rowid /\ R[i].rowid <= h.last}
    BY DEF RowsIn
  <2>3. a .. b \subseteq 1 .. n
    OBVIOUS
  <2> HIDE DEF R, n
  <2> QED  BY <2>1, <2>2, <2>3
<1>5. a .. b # {} /\ LeastIn(a .. b) = a /\ GreatestIn(a .. b) = b
  <2>1. a \in Int /\ b \in Int /\ a \in a .. b
    BY <1>1
  <2> QED  BY <1>1, <2>1, Extremes
<1>6. SegmentEvents(L, s, h.first, h.last) = [k \in 1 .. b - a + 1 |-> R[a + k - 1].ev]
  BY <1>4, <1>5 DEF SegmentEvents
<1> QED  BY <1>1, <1>6 DEF EventsOf

\* verifySession finds nothing in a session whose tables are in order,
LEMMA SessionVerifies ==
    ASSUME NEW L \in Ledger, NEW s \in Session, TableOK(L, s), NEW k \in 1 .. Len(L.segs[s])
    PROVE  SegmentClean(L, s, k)
<1> DEFINE S == L.segs[s]
           h == S[k].header
<1>1. S[k] \in SegRow /\ h \in Header
  <2>1. S[k] \in SegRow
    BY TableTypes, ElementOfSeq
  <2> QED  BY <2>1 DEF SegRow
<1>2. SegmentOK(L.rows[s], S, k) /\ Ascending(L.rows[s], L.lastRow)
  BY DEF TableOK, Segmented
<1>3. PICK a, b \in 1 .. Len(L.rows[s]) : RangeOf(L.rows[s], h, a, b)
  BY <1>2 DEF SegmentOK
<1>4. SegmentEvents(L, s, h.first, h.last) = h.root
  BY <1>1, <1>2, <1>3, EventsFound
<1>5. /\ h.count = Len(h.root) /\ h.gaps = GapCounts(h.root)
      /\ S[k].hash = SegHash(S[k].prev, h)
      /\ S[k].prev = (IF k = 1 THEN Zero ELSE S[k - 1].hash)
  BY <1>2 DEF SegmentOK
<1>6. RowContinuity(L, s, k) /\ GapHonest(L, s, k)
  BY <1>4, <1>5 DEF RowContinuity, GapHonest
<1>7. MerkleMatches(L, s, k)
  BY <1>4 DEF MerkleMatches, MerkleRoot
<1>8. HeaderHashMatches(L, s, k) /\ ChainLinked(L, s, k)
  BY <1>5 DEF HeaderHashMatches, ChainLinked
<1> QED  BY <1>6, <1>7, <1>8 DEF SegmentClean

\* nor `rana verify` in a ledger of such sessions with its checkpoints chained.
LEMMA LedgerVerifies ==
    ASSUME NEW L \in Ledger, \A s \in Session : TableOK(L, s), Chained(L)
    PROVE  VerifyCode(L) = CodeOK
<1>1. ASSUME NEW s \in L.sessions, NEW k \in 1 .. Len(L.segs[s])
      PROVE  SegmentClean(L, s, k)
  <2>1. s \in Session
    BY DEF Ledger
  <2> QED  BY <2>1, SessionVerifies
<1>2. ASSUME NEW i \in 1 .. Len(L.ckpts)
      PROVE  CkptSegmentPresent(L, L.ckpts[i]) /\ CkptHeadMatches(L, L.ckpts[i])
  <2> DEFINE c == L.ckpts[i]
             s == c.body.session
             q == c.body.segLast
  <2>1. s \in Session /\ q \in Int
    <3>1. L.ckpts \in Seq(CkptRow)
      BY DEF Ledger
    <3>2. c \in CkptRow
      BY <3>1, ElementOfSeq
    <3> QED  BY <3>2 DEF CkptRow, Body
  <2>2. PICK n \in 0 .. Len(L.segs[s]) : AttestedTo(L.ckpts, L.segs[s], s, n)
    BY <2>1 DEF TableOK
  <2>3. /\ 0 <= c.body.segFirst /\ c.body.segFirst <= q /\ q < n
        /\ L.segs[s][q + 1].hash = c.body.head /\ c.body.segFirst \in Int
    <3>1. c.body.segFirst \in Int
      <4>1. L.ckpts \in Seq(CkptRow)
        BY DEF Ledger
      <4> QED  BY <4>1, BodyInts
    <3> QED  BY <2>2, <3>1 DEF AttestedTo
  <2>4. q + 1 \in 1 .. Len(L.segs[s]) /\ Len(L.segs[s]) \in Nat
    <3>1. Len(L.segs[s]) \in Nat
      BY <2>1, TableTypes
    <3> HIDE DEF q, s
    <3> QED  BY <2>1, <2>3, <3>1
  <2>5. \A k \in 1 .. Len(L.segs[s]) : L.segs[s][k].header.seg = k - 1
    BY <2>1, SegNumber
  <2> HIDE DEF c, s, q
  <2>6. L.segs[s][q + 1].header.seg = q
    <3>1. (q + 1) - 1 = q
      BY <2>1
    <3> QED  BY <2>4, <2>5, <3>1
  <2>7. \A k \in 1 .. Len(L.segs[s]) : L.segs[s][k].header.seg = q => k = q + 1
    <3> SUFFICES ASSUME NEW k \in 1 .. Len(L.segs[s]), L.segs[s][k].header.seg = q
                 PROVE  k = q + 1
      OBVIOUS
    <3>1. k - 1 = q
      BY <2>5
    <3> QED  BY <2>1, <2>4, <3>1
  <2>8. CkptSegmentPresent(L, c)
    BY <2>4, <2>6 DEF CkptSegmentPresent, s, q
  <2>9. CkptHeadMatches(L, c)
    BY <2>3, <2>7 DEF CkptHeadMatches, s, q
  <2> QED  BY <2>8, <2>9 DEF c
<1>3. VerifyClean(L)
  BY <1>1, <1>2 DEF VerifyClean, Chained
<1> QED  BY <1>3 DEF VerifyCode

\* No row is in the range of two segments.
LEMMA RowInOne ==
    ASSUME NEW L \in Ledger, NEW s \in Session, TableOK(L, s), NEW r \in Nat
    PROVE  Cardinality({k \in 1 .. Len(L.segs[s]) :
              r \in L.segs[s][k].header.first .. L.segs[s][k].header.last}) <= 1
<1> DEFINE S == L.segs[s]
           K == {k \in 1 .. Len(S) : r \in S[k].header.first .. S[k].header.last}
<1>1. ASSUME NEW k \in 1 .. Len(S)
      PROVE  S[k].header.first \in Nat /\ S[k].header.last \in Nat
  <2>1. S[k] \in SegRow
    BY TableTypes, ElementOfSeq
  <2> QED  BY <2>1 DEF SegRow, Header
<1>2. ASSUME NEW j \in K, NEW k \in K, j < k
      PROVE  FALSE
  <2>1. S[j].header.last < S[k].header.first
    BY <1>2 DEF TableOK, Segmented
  <2>2. r <= S[j].header.last /\ S[k].header.first <= r
    BY <1>1
  <2>3. S[j].header.last \in Nat /\ S[k].header.first \in Nat
    BY <1>1
  <2> QED  BY <2>1, <2>2, <2>3
<1>3. K \subseteq 1 .. Len(S) /\ Len(S) \in Nat
  BY TableTypes
<1> HIDE DEF K, S
<1>4. ASSUME NEW j \in K, NEW k \in K PROVE j = k
  <2>1. j \in Nat /\ k \in Nat
    BY <1>3
  <2>2. ~(j < k) /\ ~(k < j)
    BY <1>2
  <2> QED  BY <2>1, <2>2
<1>5. CASE K = {}
  <2>1. Cardinality(K) = 0
    BY <1>5, FS_EmptySet
  <2> QED  BY <2>1 DEF K, S
<1>6. CASE K # {}
  <2>1. PICK k \in K : K = {k}
    BY <1>4, <1>6
  <2>2. Cardinality(K) = 1
    BY <2>1, FS_Singleton
  <2> QED  BY <2>2 DEF K, S
<1> QED  BY <1>5, <1>6

\* An attested segment is attested by one checkpoint.
LEMMA SegInOne ==
    ASSUME NEW L \in Ledger, NEW s \in Session, TableOK(L, s),
           NEW q \in Nat, Attested(L, s, q)
    PROVE  Cardinality({i \in 1 .. Len(L.ckpts) :
              /\ L.ckpts[i].body.session = s
              /\ q \in L.ckpts[i].body.segFirst .. L.ckpts[i].body.segLast}) = 1
<1> DEFINE C == L.ckpts
           I == {i \in 1 .. Len(C) : /\ C[i].body.session = s
                                     /\ q \in C[i].body.segFirst .. C[i].body.segLast}
<1>1. PICK n \in 0 .. Len(L.segs[s]) : AttestedTo(C, L.segs[s], s, n)
  BY DEF TableOK
<1>2. \A i \in 1 .. Len(C) : C[i].body.segFirst \in Int /\ C[i].body.segLast \in Int
  BY TableTypes, BodyInts
<1>3. q < n /\ n \in Nat
  <2>1. n \in Nat
    BY TableTypes
  <2> QED  BY <1>1, <2>1, AttestedBelow
<1>4. PICK i \in I : TRUE
  <2>1. q \in 0 .. n - 1
    BY <1>3
  <2> QED  BY <1>1, <2>1 DEF AttestedTo
<1>5. ASSUME NEW j \in I, NEW k \in I, j < k
      PROVE  FALSE
  <2>1. C[j].body.segLast < C[k].body.segFirst
    BY <1>1, <1>5 DEF AttestedTo
  <2>2. /\ q <= C[j].body.segLast /\ C[k].body.segFirst <= q
        /\ C[j].body.segLast \in Int /\ C[k].body.segFirst \in Int
    BY <1>2
  <2> QED  BY <2>1, <2>2
<1>6. I \subseteq Nat
  BY TableTypes
<1> HIDE DEF I
<1>7. ASSUME NEW j \in I PROVE j = i
  <2>1. j \in Nat /\ i \in Nat
    BY <1>6
  <2>2. ~(j < i) /\ ~(i < j)
    BY <1>5
  <2> QED  BY <2>1, <2>2
<1>8. I = {i}
  BY <1>7
<1> QED  BY <1>8, FS_Singleton DEF I

----------------------------------------------------------------------------
(* What the statements of a transaction do to the tables *)

\* Tables and chain state of a session that a step leaves alone.
LEMMA SameTables ==
    ASSUME NEW L, NEW M, NEW s, M.rows[s] = L.rows[s], M.segs[s] = L.segs[s],
           M.ckpts = L.ckpts, M.lastRow = L.lastRow
    PROVE  /\ TableOK(L, s) => TableOK(M, s)
           /\ \A m : AccOK(L, s, m) => AccOK(M, s, m)
  BY DEF TableOK, AccOK, LastSegHash

\* A row is inserted for session s.
LEMMA InsertTables ==
    ASSUME NEW L \in Ledger, NEW s \in Session, NEW seg \in Nat, NEW ev \in Event,
           NEW t \in Session, TableOK(L, t)
    PROVE  LET N == Inserted(L, s, seg, ev)
           IN  /\ TableOK(N, t)
               /\ t # s => \A m : AccOK(L, t, m) => AccOK(N, t, m)
               /\ t = s => \A m \in Mem : AccOK(L, t, m)
                              => AccOK(N, t, Accumulated(m, ev, L.lastRow + 1))
<1> DEFINE N == Inserted(L, s, seg, ev)
           row == [rowid |-> L.lastRow + 1, seg |-> seg, ev |-> ev]
           R == L.rows[t]
           S == L.segs[t]
           C == L.ckpts
           top == L.lastRow
<1>1. R \in Seq(Row) /\ S \in Seq(SegRow) /\ C \in Seq(CkptRow) /\ top \in Nat
  BY TableTypes
<1>2. /\ N.segs = L.segs /\ N.ckpts = C /\ N.lastRow = top + 1
      /\ N.rows = [L.rows EXCEPT ![s] = Append(@, row)] /\ L.rows \in [Session -> Seq(Row)]
  BY DEF Inserted, Ledger
<1>3. row \in Row /\ row.rowid = top + 1 /\ row.ev = ev
  BY <1>1 DEF Row
<1>4. N.rows[t] = IF t = s THEN Append(R, row) ELSE R
  BY <1>2
<1>5. /\ Ascending(R, top) /\ Segmented(R, S)
      /\ \E n \in 0 .. Len(S) : AttestedTo(C, S, t, n)
  BY DEF TableOK
<1> HIDE DEF N, row
<1>6. CASE t = s
  <2>1. Ascending(Append(R, row), top + 1) /\ Segmented(Append(R, row), S)
    BY <1>1, <1>3, <1>5, AscendingAppend, SegmentedAppend
  <2>2. TableOK(N, t)
    BY <1>2, <1>4, <1>5, <1>6, <2>1 DEF TableOK
  <2>3. ASSUME NEW m \in Mem, AccOK(L, t, m)
        PROVE  AccOK(N, t, Accumulated(m, ev, top + 1))
    <3> DEFINE acc == Accumulated(m, ev, top + 1)
    <3>1. Accumulates(Append(R, row), S, acc)
      BY <1>1, <1>3, <1>5, <2>3, AccumulatesRow DEF AccOK
    <3>2. /\ acc.segIndex = m.segIndex /\ acc.prev = m.prev /\ acc.pending = m.pending
      BY DEF Accumulated, Mem
    <3> HIDE DEF acc
    <3>3. LastSegHash(N, t) = LastSegHash(L, t)
      BY <1>2 DEF LastSegHash
    <3> QED  BY <1>2, <1>4, <1>6, <2>3, <3>1, <3>2, <3>3 DEF AccOK, acc
  <2> QED  BY <1>6, <2>2, <2>3 DEF N
<1>7. CASE t # s
  <2>1. Ascending(R, top + 1)
    <3>1. ASSUME NEW i \in 1 .. Len(R) PROVE R[i].rowid <= top + 1
      <4>1. R[i] \in Row
        BY <1>1, ElementOfSeq
      <4>2. R[i].rowid \in Nat /\ R[i].rowid <= top
        BY <1>5, <4>1 DEF Ascending, Row
      <4> QED  BY <1>1, <4>2
    <3> QED  BY <1>5, <3>1 DEF Ascending
  <2>2. TableOK(N, t)
    BY <1>2, <1>4, <1>5, <1>7, <2>1 DEF TableOK
  <2>3. ASSUME NEW m, AccOK(L, t, m) PROVE AccOK(N, t, m)
    BY <1>2, <1>4, <1>7, <2>3 DEF AccOK, LastSegHash
  <2> QED  BY <1>7, <2>2, <2>3 DEF N
<1> QED  BY <1>6, <1>7

\* The open segment of session s is sealed.
LEMMA SealTables ==
    ASSUME NEW L \in Ledger, NEW s \in Session, NEW m \in Mem, now \in Nat,
           TableOK(L, s), AccOK(L, s, m), m.leaves # << >>
    PROVE  LET h == NewHeader(s, m)
               hash == SegHash(m.prev, h)
               N == [L EXCEPT !.segs[s] =
                        Append(@, [header |-> h, prev |-> m.prev, hash |-> hash])]
           IN  TableOK(N, s) /\ AccOK(N, s, Sealed(m, hash))
<1> DEFINE h == NewHeader(s, m)
           hash == SegHash(m.prev, h)
           seg == [header |-> h, prev |-> m.prev, hash |-> hash]
           N == [L EXCEPT !.segs[s] = Append(@, seg)]
           R == L.rows[s]
           S == L.segs[s]
           C == L.ckpts
           T == Append(S, seg)
           n == m.segIndex - m.pending
           z == Sealed(m, hash)
<1>1. /\ R \in Seq(Row) /\ S \in Seq(SegRow) /\ C \in Seq(CkptRow) /\ L.lastRow \in Nat
      /\ Len(S) \in Nat
  BY TableTypes
<1>2. /\ m.leaves \in Seq(Event) /\ m.prev \in SegHashes /\ m.segIndex \in Nat
      /\ m.pending \in Nat
  BY DEF Mem
<1>3. /\ h \in Header /\ h.seg = m.segIndex /\ h.first = m.first /\ h.last = m.last
      /\ h.count = Len(m.leaves) /\ h.root = m.leaves /\ h.gaps = m.gaps
  BY HeaderType DEF NewHeader, MerkleRoot
<1>4. /\ N.rows = L.rows /\ N.ckpts = C /\ N.lastRow = L.lastRow /\ N.segs[s] = T
  BY DEF Ledger
<1>5. /\ m.segIndex = Len(S) /\ m.prev = LastSegHash(L, s)
      /\ Accumulates(R, S, m) /\ AttestedTo(C, S, s, n)
  BY DEF AccOK
<1>6. /\ z.segIndex = m.segIndex + 1 /\ z.prev = hash /\ z.pending = m.pending + 1
      /\ z.leaves = << >> /\ z.first = 0 /\ z.gaps = NoGaps
  BY DEF Sealed, Mem
<1> HIDE DEF h, N, z
<1>7. seg \in SegRow /\ hash \in SegHashes
  <2>1. hash \in SegHashes
    BY <1>2, <1>3 DEF SegHash, SegHashes
  <2> QED  BY <1>2, <1>3, <2>1 DEF SegRow
<1>8. Segmented(R, T)
  <2>1. PICK a \in 1 .. Len(R) :
           /\ m.first = R[a].rowid /\ m.last = R[Len(R)].rowid
           /\ m.leaves = EventsOf(R, a, Len(R))
           /\ \A k \in 1 .. Len(S) : S[k].header.last < m.first
    BY <1>5 DEF Accumulates
  <2>2. Len(R) \in 1 .. Len(R) /\ a <= Len(R)
    BY <1>1
  <2>3. RangeOf(R, h, a, Len(R))
    BY <1>3, <2>1, <2>2 DEF RangeOf
  <2>4. Segmented(R, S) /\ h.gaps = GapCounts(h.root) /\ h.seg = Len(S) /\ h.count = Len(h.root)
    BY <1>3, <1>5 DEF TableOK, Accumulates
  <2>5. m.prev = (IF S = << >> THEN Zero ELSE S[Len(S)].hash)
    BY <1>5 DEF LastSegHash
  <2>6. \A k \in 1 .. Len(S) : S[k].header.last < h.first
    BY <1>3, <2>1
  <2> QED  BY <1>1, <1>2, <1>3, <2>2, <2>3, <2>4, <2>5, <2>6, SegmentedSeal
<1>9. /\ T # << >> /\ Len(T) = Len(S) + 1 /\ T[Len(T)] = seg
  BY <1>1, <1>7, Positions
<1> HIDE DEF seg
<1>10. AttestedTo(C, T, s, n)
  BY <1>1, <1>5, <1>7, AttestedSeal
<1> HIDE DEF T
<1>11. TableOK(N, s)
  <2>1. n \in 0 .. Len(T)
    BY <1>10 DEF AttestedTo
  <2> QED  BY <1>4, <1>8, <1>10, <2>1 DEF TableOK
<1>12. Accumulates(R, T, z)
  BY <1>6, GapsNone DEF Accumulates
<1>13. LastSegHash(N, s) = hash
  <2>1. seg.hash = hash
    BY DEF seg
  <2> QED  BY <1>4, <1>9, <2>1 DEF LastSegHash
<1>14. z.segIndex - z.pending = n /\ z.segIndex = Len(T)
  BY <1>2, <1>5, <1>6, <1>9
<1>15. AccOK(N, s, z)
  BY <1>4, <1>6, <1>10, <1>12, <1>13, <1>14 DEF AccOK
<1> QED  BY <1>11, <1>15 DEF N, z, seg, h

\* The pending segments of session s are attested.
LEMMA CkptTables ==
    ASSUME NEW L \in Ledger, NEW s \in Session, NEW m \in Mem, now \in Nat,
           NEW prev \in CkptHashes, AccOK(L, s, m), m.pending # 0,
           NEW t \in Session, TableOK(L, t)
    PROVE  LET N == [L EXCEPT !.ckpts = Append(@, [body |-> NewBody(s, m), prev |-> prev])]
           IN  /\ TableOK(N, t)
               /\ t # s => \A x : AccOK(L, t, x) => AccOK(N, t, x)
               /\ t = s => AccOK(N, t, Attesting(m))
<1> DEFINE b == NewBody(s, m)
           c == [body |-> b, prev |-> prev]
           N == [L EXCEPT !.ckpts = Append(@, c)]
           R == L.rows[t]
           S == L.segs[t]
           C == L.ckpts
           n == m.segIndex - m.pending
           y == Attesting(m)
<1>1. /\ R \in Seq(Row) /\ S \in Seq(SegRow) /\ C \in Seq(CkptRow) /\ L.lastRow \in Nat
      /\ Len(S) \in Nat
  BY TableTypes
<1>2. m.prev \in SegHashes /\ m.segIndex \in Nat /\ m.pending \in Nat
  BY DEF Mem
<1>3. /\ b \in Body /\ b.session = s /\ b.segFirst = n /\ b.segLast = m.segIndex - 1
      /\ b.head = m.prev
  BY BodyType DEF NewBody
<1>4. N.rows = L.rows /\ N.segs = L.segs /\ N.lastRow = L.lastRow /\ N.ckpts = Append(C, c)
  BY DEF Ledger
<1>5. /\ y.segIndex = m.segIndex /\ y.prev = m.prev /\ y.pending = 0
      /\ y.leaves = m.leaves /\ y.first = m.first /\ y.last = m.last /\ y.gaps = m.gaps
  BY DEF Attesting, Mem
<1> HIDE DEF b, y
<1>6. c \in CkptRow /\ c.body = b
  BY <1>3 DEF CkptRow
<1> HIDE DEF c, N
<1>7. \A x : LastSegHash(N, x) = LastSegHash(L, x)
  BY <1>4 DEF LastSegHash
<1>8. CASE t = s
  <2>1. /\ m.segIndex = Len(S) /\ m.prev = LastSegHash(L, s)
        /\ Accumulates(R, S, m) /\ AttestedTo(C, S, s, n)
    BY <1>8 DEF AccOK
  <2>2. n \in 0 .. Len(S) /\ n < Len(S)
    BY <1>1, <1>2, <2>1 DEF AttestedTo
  <2>3. S # << >>
    BY <1>1, <2>2
  <2>4. b.head = S[Len(S)].hash
    BY <1>3, <1>8, <2>1, <2>3 DEF LastSegHash
  <2>5. AttestedTo(Append(C, c), S, s, Len(S))
    BY <1>1, <1>3, <1>6, <2>1, <2>2, <2>4, AttestedAll
  <2>6. TableOK(N, t)
    <3>1. Len(S) \in 0 .. Len(S)
      BY <1>1
    <3> QED  BY <1>4, <1>8, <2>5, <3>1 DEF TableOK
  <2>7. y.segIndex - y.pending = Len(S)
    BY <1>1, <1>5, <2>1
  <2>8. Accumulates(R, S, y)
    BY <1>5, <2>1 DEF Accumulates
  <2>9. AccOK(N, t, y)
    BY <1>4, <1>5, <1>7, <1>8, <2>1, <2>5, <2>7, <2>8 DEF AccOK
  <2> QED  BY <1>8, <2>6, <2>9 DEF N, c, b, y
<1>9. CASE t # s
  <2>1. \A k : AttestedTo(C, S, t, k) => AttestedTo(Append(C, c), S, t, k)
    BY <1>1, <1>3, <1>6, <1>9, AttestedOther
  <2>2. TableOK(N, t)
    BY <1>4, <2>1 DEF TableOK
  <2>3. \A x : AccOK(L, t, x) => AccOK(N, t, x)
    BY <1>4, <1>7, <2>1 DEF AccOK
  <2> QED  BY <1>9, <2>2, <2>3 DEF N, c, b
<1> QED  BY <1>8, <1>9

----------------------------------------------------------------------------
(* The chain state between the statements *)

\* Whichever session the goroutine works on has been loaded, and its open
\* segment is one that seals.
MemOK ==
    /\ \A s \in Session : /\ mem[s].leaves # << >> => mem[s].open /\ mem[s].known
    /\ pc \in {"insert", "seal", "ckpt"} => mem[cur].known
    /\ pc = "insert" => mem[cur].open
    /\ pc = "ckpt" => mem[cur].leaves = << >>
    /\ \A s \in touched : mem[s].known
    /\ (pc \in {"seal", "ckpt", "commit"} /\ why = "force") => cur = req /\ req \in Session
    /\ (pc = "commit" /\ why = "force") => mem[cur].leaves = << >>

\* Loading leaves the open segment alone, or empty.
LEMMA StateOfLeaves ==
    ASSUME CtlInv, MemOK, NEW s \in Session
    PROVE  /\ StateOf(tx, s) \in Mem /\ StateOf(tx, s).known
           /\ StateOf(tx, s).leaves # << >> => StateOf(tx, s).open
           /\ StateOf(tx, s).leaves = mem[s].leaves
<1>1. StateOf(tx, s) \in Mem
  BY StateOfType DEF CtlInv
<1>2. CASE mem[s].known
  BY <1>1, <1>2 DEF StateOf, MemOK
<1>3. CASE ~mem[s].known
  <2>1. StateOf(tx, s) = Loaded(tx, s)
    BY <1>3 DEF StateOf
  <2>2. Loaded(tx, s).known /\ Loaded(tx, s).leaves = << >>
    BY DEF Loaded, Unknown
  <2>3. mem[s].leaves = << >>
    BY <1>3 DEF MemOK
  <2> QED  BY <1>1, <2>1, <2>2, <2>3
<1> QED  BY <1>2, <1>3

\* Opening changes nothing of an open accumulator, and nothing that is sealed.
LEMMA OpenedFields ==
    ASSUME NEW m \in Mem, m.leaves # << >> => m.open
    PROVE  /\ Opened(m).leaves = m.leaves /\ Opened(m).open /\ Opened(m).known = m.known
           /\ Opened(m).segIndex = m.segIndex /\ Opened(m).prev = m.prev
           /\ Opened(m).pending = m.pending /\ Opened(m).first = m.first
           /\ Opened(m).last = m.last
           /\ Opened(m).gaps = IF m.open THEN m.gaps ELSE NoGaps
  BY DEF Opened, Mem

\* Nothing is loaded at the start.
LEMMA InitMem == Init => MemOK
<1> SUFFICES ASSUME Init PROVE MemOK
  OBVIOUS
<1>1. \A s \in Session : mem[s].leaves = << >>
  BY DEF Init, Unknown
<1>2. pc = "select" /\ touched = {}
  BY DEF Init
<1> QED  BY <1>1, <1>2 DEF MemOK

\* A step that changes one chain state keeps the others.
LEMMA MemStep ==
    ASSUME CtlInv, MemOK, NEW s \in Session, NEW m \in Mem, mem' = [mem EXCEPT ![s] = m],
           m.known, m.leaves # << >> => m.open
    PROVE  /\ \A t \in Session : /\ mem'[t].leaves # << >> => mem'[t].open /\ mem'[t].known
                                 /\ mem[t].known => mem'[t].known
                                 /\ t # s => mem'[t] = mem[t]
           /\ mem'[s] = m
<1>1. \A t \in Session : mem'[t] = IF t = s THEN m ELSE mem[t]
  BY DEF CtlInv, TypeOK
<1> QED  BY <1>1 DEF MemOK

\* Every step keeps the chain states loaded and open as they must be.
LEMMA NextMem == CtlInv /\ MemOK /\ [Next]_vars => MemOK'
<1> SUFFICES ASSUME CtlInv, MemOK, [Next]_vars PROVE MemOK'
  OBVIOUS
<1>T. /\ touched \subseteq Session /\ mem \in [Session -> Mem]
      /\ pc \in {"insert", "seal", "ckpt"} => cur \in Session /\ mem[cur] \in Mem
      /\ pc \notin {"seal", "ckpt", "commit"} => why # "force"
  BY DEF CtlInv, TypeOK, ControlOK
<1>1. ASSUME Callers \/ Tick \/ UNCHANGED vars PROVE MemOK'
  <2>1. UNCHANGED <<mem, pc, cur, why, req, touched>>
    BY <1>1 DEF Callers, BeginAppend, Enqueue, RefuseClosed, Close, Tick, vars, loopVars,
         memVars, sealVars
  <2> QED  BY <2>1 DEF MemOK
<1>2. CASE Select
  <2>1. mem' = mem /\ touched' \subseteq touched /\ pc' \in {"select", "row", "force", "exited"}
    BY <1>2 DEF Select, Receive, TimerFlush, ServeSeal, Drain, StartBatch, After, memVars
  <2> QED  BY <2>1 DEF MemOK
<1>3. CASE OpenRow
  <2> DEFINE s == batch[at].session
  <2>1. s \in Session /\ why # "force"
    <3>1. batch \in Seq(Event) /\ at \in 1 .. Len(batch) /\ why # "force"
      BY <1>3 DEF OpenRow, CtlInv, TypeOK, ControlOK
    <3>2. batch[at] \in Event
      BY <3>1
    <3> QED  BY <3>1, <3>2 DEF Event
  <2>2. /\ pc' = "insert" /\ cur' = s /\ mem' = [mem EXCEPT ![s] = Opened(StateOf(tx, s))]
        /\ UNCHANGED <<touched, why>>
    BY <1>3 DEF OpenRow
  <2> HIDE DEF s
  <2>3. /\ Opened(StateOf(tx, s)) \in Mem /\ Opened(StateOf(tx, s)).open
        /\ Opened(StateOf(tx, s)).known
    BY <2>1, StateOfLeaves, OpenedType, OpenedFields DEF CtlInv, TypeOK
  <2>4. /\ mem'[s] = Opened(StateOf(tx, s))
        /\ \A t \in Session : /\ mem'[t].leaves # << >> => mem'[t].open /\ mem'[t].known
                              /\ mem[t].known => mem'[t].known
    BY <2>1, <2>2, <2>3, MemStep
  <2> QED  BY <1>T, <2>1, <2>2, <2>3, <2>4 DEF MemOK
<1>4. CASE InsertRow
  <2> DEFINE m == Accumulated(mem[cur], batch[at], tx.lastRow + 1)
  <2>1. cur \in Session /\ mem[cur].known /\ mem[cur].open /\ mem[cur] \in Mem
    BY <1>4, <1>T DEF InsertRow, MemOK
  <2>2. m \in Mem /\ m.known /\ m.open
    <3>1. batch[at] \in Event /\ tx.lastRow + 1 \in Nat
      <4>1. batch \in Seq(Event) /\ at \in 1 .. Len(batch) /\ tx.lastRow \in Nat
        BY <1>4 DEF InsertRow, CtlInv, TypeOK, ControlOK, Ledger
      <4> QED  BY <4>1
    <3>2. m \in Mem
      BY <2>1, <3>1, AccumulatedType
    <3>3. m.known = mem[cur].known /\ m.open = mem[cur].open
      BY <2>1 DEF Accumulated, Mem
    <3> QED  BY <2>1, <3>2, <3>3
  <2>3. /\ pc' = "seal" /\ cur' = cur /\ why' = "event" /\ touched' = touched \cup {cur}
        /\ mem' = [mem EXCEPT ![cur] = m]
    BY <1>4 DEF InsertRow
  <2> HIDE DEF m
  <2>4. /\ mem'[cur] = m
        /\ \A t \in Session : /\ mem'[t].leaves # << >> => mem'[t].open /\ mem'[t].known
                              /\ mem[t].known => mem'[t].known
    BY <2>1, <2>2, <2>3, MemStep
  <2> QED  BY <1>T, <2>1, <2>2, <2>3, <2>4 DEF MemOK
<1>5. ASSUME NEW s \in Session, FinalPass(s) PROVE MemOK'
  <2>1. /\ mem' = mem /\ touched' \subseteq touched /\ cur' \in touched /\ pc' = "seal"
        /\ why' = "final"
    BY <1>5 DEF FinalPass, memVars
  <2> QED  BY <2>1 DEF MemOK
<1>6. CASE EndBatch
  <2>1. pc = "row" /\ pc' = "commit" /\ UNCHANGED <<mem, touched, why, cur, req>>
    BY <1>6 DEF EndBatch, loopVars, memVars, sealVars
  <2> QED  BY <1>T, <2>1 DEF MemOK
<1>7. CASE OpenForced
  <2> DEFINE m == StateOf(tx, req)
  <2>1. req \in Session /\ m \in Mem /\ m.known /\ (m.leaves # << >> => m.open)
    <3>1. req \in Session
      BY <1>7 DEF OpenForced, CtlInv, ControlOK
    <3> QED  BY <3>1, StateOfLeaves
  <2>2. /\ pc' = "seal" /\ cur' = req /\ req' = req /\ touched' = touched
        /\ mem' = [mem EXCEPT ![req] = m]
    BY <1>7 DEF OpenForced, sealVars
  <2> HIDE DEF m
  <2>3. /\ mem'[req] = m
        /\ \A t \in Session : /\ mem'[t].leaves # << >> => mem'[t].open /\ mem'[t].known
                              /\ mem[t].known => mem'[t].known
    BY <2>1, <2>2, MemStep
  <2> QED  BY <1>T, <2>1, <2>2, <2>3 DEF MemOK
<1>8. CASE SkipSeal
  <2>1. /\ pc = "seal" /\ pc' = Return /\ UNCHANGED <<mem, touched, why, cur, req>>
        /\ ~SealDue(mem[cur], why = "force")
    BY <1>8 DEF SkipSeal, loopVars, memVars, sealVars
  <2>2. why = "force" => mem[cur].leaves = << >>
    BY <1>T, <2>1 DEF MemOK, SealDue
  <2> QED  BY <2>1, <2>2 DEF MemOK, Return
<1>9. CASE SealSegment
  <2> DEFINE m == Sealed(mem[cur], SegHash(mem[cur].prev, NewHeader(cur, mem[cur])))
  <2>1. cur \in Session /\ mem[cur].known /\ mem[cur] \in Mem /\ now \in Nat
    BY <1>9, <1>T DEF SealSegment, MemOK, CtlInv, TypeOK
  <2>2. m \in Mem /\ m.known /\ m.leaves = << >>
    <3>1. SegHash(mem[cur].prev, NewHeader(cur, mem[cur])) \in SegHashes
      BY <2>1, HeaderType DEF SegHash, SegHashes, Mem
    <3>2. m \in Mem
      BY <2>1, <3>1, SealedType
    <3>3. m.known = mem[cur].known /\ m.leaves = << >>
      BY <2>1 DEF Sealed, Mem
    <3> QED  BY <2>1, <3>2, <3>3
  <2>3. /\ pc = "seal" /\ pc' = "ckpt" /\ UNCHANGED <<touched, why, cur, req>>
        /\ mem' = [mem EXCEPT ![cur] = m]
    BY <1>9 DEF SealSegment, loopVars, sealVars
  <2> HIDE DEF m
  <2>4. /\ mem'[cur] = m
        /\ \A t \in Session : /\ mem'[t].leaves # << >> => mem'[t].open /\ mem'[t].known
                              /\ mem[t].known => mem'[t].known
    BY <2>1, <2>2, <2>3, MemStep
  <2> QED  BY <1>T, <2>1, <2>2, <2>3, <2>4 DEF MemOK
<1>10. CASE SkipCheckpoint
  <2>1. /\ pc = "ckpt" /\ pc' = Return /\ UNCHANGED <<mem, touched, why, cur, req>>
    BY <1>10 DEF SkipCheckpoint, loopVars, memVars, sealVars
  <2> QED  BY <2>1 DEF MemOK, Return
<1>11. CASE WriteCheckpoint
  <2> DEFINE m == Attesting(mem[cur])
  <2>1. cur \in Session /\ mem[cur].known /\ mem[cur] \in Mem /\ mem[cur].leaves = << >>
    BY <1>11, <1>T DEF WriteCheckpoint, MemOK
  <2>2. m \in Mem /\ m.known /\ m.leaves = << >>
    BY <2>1, AttestingType DEF Attesting, Mem
  <2>3. /\ pc = "ckpt" /\ pc' = Return /\ UNCHANGED <<touched, why, cur, req>>
        /\ mem' = [mem EXCEPT ![cur] = m]
    BY <1>11 DEF WriteCheckpoint, loopVars, sealVars
  <2> HIDE DEF m
  <2>4. /\ mem'[cur] = m
        /\ \A t \in Session : /\ mem'[t].leaves # << >> => mem'[t].open /\ mem'[t].known
                              /\ mem[t].known => mem'[t].known
    BY <2>1, <2>2, <2>3, MemStep
  <2> QED  BY <1>T, <2>1, <2>2, <2>3, <2>4 DEF MemOK, Return
<1>12. ASSUME Commits \/ Rollbacks PROVE MemOK'
  <2>1. mem' = mem /\ touched' \subseteq touched /\ pc' \in {"select", "force", "exited"}
    BY <1>12 DEF Commits, CommitBatch, CommitForced, Rollbacks, BatchFails, ForcedFails,
         FinishBatch, After, memVars, CtlInv, TypeOK
  <2> QED  BY <2>1 DEF MemOK
<1>13. CASE Crash
  <2>1. pc' = "down" /\ touched' = {} /\ mem' = [s \in Session |-> Unknown]
    BY <1>13 DEF Crash, Forgotten
  <2>2. \A s \in Session : mem'[s].leaves = << >>
    BY <2>1 DEF Unknown
  <2> QED  BY <2>1, <2>2 DEF MemOK
<1>14. CASE Restart
  <2>1. mem' = mem /\ touched' = touched /\ pc' = "select"
    BY <1>14 DEF Restart, loopVars
  <2> QED  BY <2>1 DEF MemOK
<1> QED  BY <1>1, <1>2, <1>3, <1>4, <1>5, <1>6, <1>7, <1>8, <1>9, <1>10, <1>11, <1>12, <1>13,
            <1>14 DEF Next, Transaction, Faults, Commits, Rollbacks

----------------------------------------------------------------------------
(* The tables stay in order *)

\* Nothing was rolled back since the chain state was last loaded, and nothing
\* was committed after such a rollback.
Sound == ~tainted /\ ~rolledBack

TxHonest ==
    \A s \in Session : TableOK(tx, s) /\ (mem[s].known => AccOK(tx, s, mem[s]))

DbHonest == \A s \in Session : TableOK(db, s)

\* Inductive: the durable tables are in order, and those of the transaction
\* with the chain state that continues them.
Honest == (Sound => TxHonest) /\ (~tainted => DbHonest)

\* The tables of a new ledger are in order.
LEMMA EmptyOK ==
    ASSUME NEW s \in Session
    PROVE  TableOK(EmptyLedger, s)
<1>1. /\ EmptyLedger.rows[s] = << >> /\ EmptyLedger.segs[s] = << >>
      /\ EmptyLedger.ckpts = << >> /\ EmptyLedger.lastRow = 0
  BY DEF EmptyLedger
<1>2. Ascending(<< >>, 0)
  BY DEF Ascending
<1>3. Segmented(<< >>, << >>)
  BY DEF Segmented
<1>4. AttestedTo(<< >>, << >>, s, 0)
  BY DEF AttestedTo
<1>5. 0 \in 0 .. Len(<< >>)
  OBVIOUS
<1> QED  BY <1>1, <1>2, <1>3, <1>4, <1>5 DEF TableOK

\* A writer starts with an empty ledger and nothing loaded.
LEMMA InitHonest == Init => Honest
<1> SUFFICES ASSUME Init PROVE Honest
  OBVIOUS
<1>1. tx = EmptyLedger /\ db = EmptyLedger /\ \A s \in Session : ~mem[s].known
  BY DEF Init, Unknown
<1> QED  BY <1>1, EmptyOK DEF Honest, TxHonest, DbHonest

\* Loading a session, with or without opening its accumulator.
LEMMA LoadHonest ==
    ASSUME CtlInv, MemOK, TxHonest, NEW s \in Session,
           NEW m, m = StateOf(tx, s) \/ m = Opened(StateOf(tx, s)),
           mem' = [mem EXCEPT ![s] = m],
           tx' = IF mem[s].known THEN tx ELSE [tx EXCEPT !.sessions = @ \cup {s}]
    PROVE  TxHonest'
<1> DEFINE k == StateOf(tx, s)
<1>1. /\ tx \in Ledger /\ mem \in [Session -> Mem]
  BY DEF CtlInv, TypeOK
<1>2. tx'.rows = tx.rows /\ tx'.segs = tx.segs /\ tx'.ckpts = tx.ckpts /\ tx'.lastRow = tx.lastRow
  BY <1>1 DEF Ledger
<1>3. k \in Mem /\ (k.leaves # << >> => k.open)
  BY StateOfLeaves
<1>4. AccOK(tx, s, k)
  <2>1. CASE mem[s].known
    BY <2>1 DEF TxHonest, StateOf
  <2>2. CASE ~mem[s].known
    BY <1>1, <2>2, LoadedOK DEF TxHonest, StateOf
  <2> QED  BY <2>1, <2>2
<1> HIDE DEF k
<1>5. AccOK(tx, s, Opened(k))
  <2>1. /\ Opened(k).leaves = k.leaves /\ Opened(k).segIndex = k.segIndex
        /\ Opened(k).prev = k.prev /\ Opened(k).pending = k.pending
        /\ Opened(k).first = k.first /\ Opened(k).last = k.last
        /\ Opened(k).gaps = IF k.open THEN k.gaps ELSE NoGaps
    BY <1>3, OpenedFields
  <2>2. Accumulates(tx.rows[s], tx.segs[s], k)
    BY <1>4 DEF AccOK
  <2>3. Opened(k).gaps = k.gaps
    BY <1>3, <2>1, <2>2, GapsNone DEF Accumulates
  <2>4. Accumulates(tx.rows[s], tx.segs[s], Opened(k))
    BY <2>1, <2>2, <2>3 DEF Accumulates
  <2> QED  BY <1>4, <2>1, <2>4 DEF AccOK
<1>6. m = k \/ m = Opened(k)
  BY DEF k
<1>7. AccOK(tx, s, m)
  BY <1>4, <1>5, <1>6
<1>8. \A t \in Session : mem'[t] = IF t = s THEN m ELSE mem[t]
  BY <1>1
<1>9. \A t \in Session : TableOK(tx, t) /\ (mem'[t].known => AccOK(tx, t, mem'[t]))
  BY <1>7, <1>8 DEF TxHonest
<1> QED  BY <1>2, <1>9, SameTables DEF TxHonest

\* A statement that changes the tables and one chain state.
LEMMA StatementHonest ==
    ASSUME CtlInv, TxHonest, NEW s \in Session, NEW m, mem' = [mem EXCEPT ![s] = m],
           \A t \in Session : TableOK(tx', t),
           \A t \in Session \ {s} : \A x : AccOK(tx, t, x) => AccOK(tx', t, x),
           AccOK(tx', s, m)
    PROVE  TxHonest'
<1>1. \A t \in Session : mem'[t] = IF t = s THEN m ELSE mem[t]
  BY DEF CtlInv, TypeOK
<1> QED  BY <1>1 DEF TxHonest

\* Every step keeps the tables in order.
LEMMA NextHonest == CtlInv /\ MemOK /\ Honest /\ [Next]_vars => Honest'
<1> SUFFICES ASSUME CtlInv, MemOK, Honest, [Next]_vars PROVE Honest'
  OBVIOUS
<1>T. /\ tx \in Ledger /\ mem \in [Session -> Mem] /\ now \in Nat /\ ckptHash \in CkptHashes
      /\ rolledBack \in BOOLEAN /\ tainted \in BOOLEAN
      /\ pc \in {"insert", "seal", "ckpt"} => cur \in Session /\ mem[cur] \in Mem
  BY DEF CtlInv, TypeOK, ControlOK
<1>0. ASSUME UNCHANGED <<db, rolledBack, tainted>>, Sound => TxHonest'
      PROVE  Honest'
  BY <1>0 DEF Honest, Sound, DbHonest
<1>1. CASE Elsewhere
  <2>1. Sound => TxHonest'
    BY <1>1 DEF Elsewhere, Honest, TxHonest
  <2> QED  BY <1>0, <1>1, <2>1 DEF Elsewhere
<1>2. CASE Moves
  <2>1. UNCHANGED <<db, rolledBack, tainted, tx, mem>>
    BY <1>2 DEF Moves, FinalPass, memVars, durable, faultVars
  <2> QED  BY <1>0, <2>1 DEF Honest, TxHonest
<1>3. CASE OpenRow
  <2>1. batch[at].session \in Session
    <3>1. batch \in Seq(Event) /\ at \in 1 .. Len(batch)
      BY <1>3 DEF OpenRow, CtlInv, TypeOK
    <3>2. batch[at] \in Event
      BY <3>1
    <3> QED  BY <3>2 DEF Event
  <2> DEFINE s == batch[at].session
  <2>2. /\ mem' = [mem EXCEPT ![s] = Opened(StateOf(tx, s))]
        /\ tx' = IF mem[s].known THEN tx ELSE [tx EXCEPT !.sessions = @ \cup {s}]
        /\ UNCHANGED <<db, rolledBack, tainted>>
    BY <1>3 DEF OpenRow, durable, faultVars
  <2> HIDE DEF s
  <2>3. Sound => TxHonest'
    BY <2>1, <2>2, LoadHonest DEF Honest, s
  <2> QED  BY <1>0, <2>2, <2>3
<1>4. CASE OpenForced
  <2>1. req \in Session
    BY <1>4 DEF OpenForced, CtlInv, ControlOK
  <2>2. /\ mem' = [mem EXCEPT ![req] = StateOf(tx, req)]
        /\ tx' = IF mem[req].known THEN tx ELSE [tx EXCEPT !.sessions = @ \cup {req}]
        /\ UNCHANGED <<db, rolledBack, tainted>>
    BY <1>4 DEF OpenForced, durable, faultVars
  <2>3. Sound => TxHonest'
    BY <2>1, <2>2, LoadHonest DEF Honest
  <2> QED  BY <1>0, <2>2, <2>3
<1>5. CASE InsertRow
  <2> DEFINE m == mem[cur]
             ev == batch[at]
             acc == Accumulated(m, ev, tx.lastRow + 1)
  <2>1. pc = "insert" /\ mem[cur].known
    BY <1>5 DEF InsertRow, MemOK
  <2>2. cur \in Session /\ m \in Mem /\ m.segIndex \in Nat
    BY <1>T, <2>1 DEF Mem
  <2>3. ev \in Event
    <3>1. batch \in Seq(Event) /\ at \in 1 .. Len(batch)
      BY <2>1 DEF CtlInv, TypeOK, ControlOK
    <3> QED  BY <3>1
  <2>4. /\ tx' = Inserted(tx, cur, m.segIndex, ev) /\ mem' = [mem EXCEPT ![cur] = acc]
        /\ UNCHANGED <<db, rolledBack, tainted>>
    BY <1>5 DEF InsertRow, durable, faultVars
  <2> HIDE DEF m, ev, acc
  <2>5. ASSUME TxHonest PROVE TxHonest'
    <3>1. AccOK(tx, cur, m)
      BY <2>1, <2>2, <2>5 DEF TxHonest, m
    <3>2. \A t \in Session :
             /\ TableOK(tx', t)
             /\ t # cur => \A x : AccOK(tx, t, x) => AccOK(tx', t, x)
             /\ t = cur => \A x \in Mem : AccOK(tx, t, x)
                              => AccOK(tx', t, Accumulated(x, ev, tx.lastRow + 1))
      BY <1>T, <2>2, <2>3, <2>4, <2>5, InsertTables DEF TxHonest
    <3>3. AccOK(tx', cur, acc)
      BY <2>2, <3>1, <3>2 DEF acc
    <3> QED  BY <2>2, <2>4, <2>5, <3>2, <3>3, StatementHonest
  <2> QED  BY <1>0, <2>4, <2>5 DEF Honest
<1>6. CASE SealSegment
  <2> DEFINE m == mem[cur]
             h == NewHeader(cur, m)
             hash == SegHash(m.prev, h)
             N == [tx EXCEPT !.segs[cur] =
                      Append(@, [header |-> h, prev |-> m.prev, hash |-> hash])]
  <2>1. pc = "seal" /\ mem[cur].known /\ m.leaves # << >>
    BY <1>6 DEF SealSegment, SealDue, MemOK
  <2>2. cur \in Session /\ m \in Mem
    BY <1>T, <2>1
  <2>3. /\ tx' = N /\ mem' = [mem EXCEPT ![cur] = Sealed(m, hash)]
        /\ UNCHANGED <<db, rolledBack, tainted>>
    BY <1>6 DEF SealSegment, durable, faultVars
  <2>4. N.rows = tx.rows /\ N.ckpts = tx.ckpts /\ N.lastRow = tx.lastRow
        /\ \A t \in Session : t # cur => N.segs[t] = tx.segs[t]
    BY <1>T, <2>2 DEF Ledger
  <2>5. ASSUME TxHonest PROVE TableOK(N, cur) /\ AccOK(N, cur, Sealed(m, hash))
    BY <1>T, <2>1, <2>2, <2>5, SealTables DEF TxHonest
  <2> HIDE DEF m, hash, h, N
  <2>6. ASSUME TxHonest PROVE TxHonest'
    <3>1. \A t \in Session \ {cur} :
             /\ TableOK(tx, t) => TableOK(N, t)
             /\ \A x : AccOK(tx, t, x) => AccOK(N, t, x)
      BY <2>4, SameTables
    <3>2. \A t \in Session : TableOK(tx', t)
      BY <2>3, <2>5, <2>6, <3>1 DEF TxHonest
    <3> QED  BY <2>2, <2>3, <2>5, <2>6, <3>1, <3>2, StatementHonest
  <2> QED  BY <1>0, <2>3, <2>6 DEF Honest
<1>7. CASE WriteCheckpoint
  <2> DEFINE m == mem[cur]
             N == [tx EXCEPT !.ckpts = Append(@, [body |-> NewBody(cur, m), prev |-> ckptHash])]
  <2>1. pc = "ckpt" /\ mem[cur].known /\ m.pending # 0
    BY <1>7 DEF WriteCheckpoint, CkptDue, MemOK
  <2>2. cur \in Session /\ m \in Mem
    BY <1>T, <2>1
  <2>3. /\ tx' = N /\ mem' = [mem EXCEPT ![cur] = Attesting(m)]
        /\ UNCHANGED <<db, rolledBack, tainted>>
    BY <1>7 DEF WriteCheckpoint, faultVars
  <2>4. ASSUME TxHonest
        PROVE  \A t \in Session : /\ TableOK(N, t)
                                  /\ t # cur => \A x : AccOK(tx, t, x) => AccOK(N, t, x)
                                  /\ t = cur => AccOK(N, t, Attesting(m))
    <3>1. AccOK(tx, cur, m)
      BY <2>1, <2>2, <2>4 DEF TxHonest
    <3> QED  BY <1>T, <2>1, <2>2, <2>4, <3>1, CkptTables DEF TxHonest
  <2> HIDE DEF m, N
  <2>5. ASSUME TxHonest PROVE TxHonest'
    BY <2>2, <2>3, <2>4, <2>5, StatementHonest
  <2> QED  BY <1>0, <2>3, <2>5 DEF Honest
<1>8. CASE Commits
  <2>1. /\ db' = tx /\ tx' = tx /\ mem' = mem /\ rolledBack' = rolledBack
        /\ tainted' = (tainted \/ rolledBack)
    BY <1>8 DEF Commits, CommitBatch, CommitForced, memVars
  <2>2. ~tainted' => TxHonest
    BY <1>T, <2>1 DEF Honest, Sound
  <2> QED  BY <2>1, <2>2 DEF Honest, Sound, TxHonest, DbHonest
<1>9. CASE Rollbacks
  <2>1. /\ db' = db /\ tx' = db /\ mem' = mem /\ rolledBack' = (rolledBack \/ tx # db)
        /\ tainted' = tainted
    BY <1>9 DEF Rollbacks, BatchFails, ForcedFails, Rollback, memVars, durable
  <2>2. Sound' => Sound /\ tx' = tx
    BY <1>T, <2>1 DEF Sound
  <2> QED  BY <2>1, <2>2 DEF Honest, TxHonest, DbHonest
<1>10. CASE Crash
  <2>1. db' = db /\ tx' = db /\ tainted' = tainted /\ mem' = [s \in Session |-> Unknown]
    BY <1>10 DEF Crash, Forgotten, durable
  <2>2. \A s \in Session : ~mem'[s].known
    BY <2>1 DEF Unknown
  <2> QED  BY <2>1, <2>2 DEF Honest, TxHonest, DbHonest, Sound
<1>11. CASE Restart
  BY <1>11 DEF Restart, durable, faultVars, Honest, TxHonest, DbHonest, Sound
<1> QED  BY <1>1, <1>2, <1>3, <1>4, <1>5, <1>6, <1>7, <1>8, <1>9, <1>10, <1>11, StepKinds

----------------------------------------------------------------------------
(* What SealSession seals *)

InSegment(L, s, r) ==
    \E k \in 1 .. Len(L.segs[s]) :
        r \in L.segs[s][k].header.first .. L.segs[s][k].header.last

\* Every row of s is in a sealed segment of L or in the open one, m.
CoveredBy(L, s, m) ==
    \A i \in 1 .. Len(L.rows[s]) :
        \/ InSegment(L, s, L.rows[s][i].rowid)
        \/ m.leaves # << >> /\ m.first <= L.rows[s][i].rowid

\* Inductive: no row of a writer that lost nothing is forgotten by both.
CoverOK ==
    /\ tainted => rolledBack \/ crashes # 0
    /\ (crashes = 0 /\ ~rolledBack) => \A s \in Session : CoveredBy(tx, s, mem[s])

\* The rows of a session and its chain state.
LEMMA RowInts ==
    ASSUME NEW L \in Ledger, NEW s \in Session, NEW i \in 1 .. Len(L.rows[s])
    PROVE  L.rows[s][i] \in Row /\ L.rows[s][i].rowid \in Nat
<1>1. L.rows[s][i] \in Row
  BY TableTypes, ElementOfSeq
<1> QED  BY <1>1 DEF Row

\* Segments that stay keep their rows.
LEMMA SegmentKept ==
    ASSUME NEW L, NEW N, NEW s, NEW r, NEW S \in Seq(SegRow), NEW seg \in SegRow,
           L.segs[s] = S, N.segs[s] = S \/ N.segs[s] = Append(S, seg), InSegment(L, s, r)
    PROVE  InSegment(N, s, r)
<1>1. PICK k \in 1 .. Len(S) : r \in S[k].header.first .. S[k].header.last
  BY DEF InSegment
<1>2. /\ Len(Append(S, seg)) = Len(S) + 1 /\ Len(S) \in Nat
      /\ Append(S, seg)[k] = S[k]
  BY Positions
<1>3. k \in 1 .. Len(N.segs[s]) /\ N.segs[s][k] = S[k]
  BY <1>2
<1> QED  BY <1>1, <1>3 DEF InSegment

\* A new row is in the open segment.
LEMMA InsertCovers ==
    ASSUME NEW L \in Ledger, NEW s \in Session, NEW seg \in Nat, NEW ev \in Event,
           NEW m \in Mem, TableOK(L, s), AccOK(L, s, m), CoveredBy(L, s, m)
    PROVE  CoveredBy(Inserted(L, s, seg, ev), s, Accumulated(m, ev, L.lastRow + 1))
<1> DEFINE N == Inserted(L, s, seg, ev)
           row == [rowid |-> L.lastRow + 1, seg |-> seg, ev |-> ev]
           R == L.rows[s]
           acc == Accumulated(m, ev, L.lastRow + 1)
<1>1. R \in Seq(Row) /\ L.lastRow \in Nat /\ m.first \in Nat /\ m.leaves \in Seq(Event)
  BY TableTypes DEF Mem
<1>2. N.segs = L.segs /\ N.rows[s] = Append(R, row)
  <2>1. N.segs = L.segs /\ N.rows = [L.rows EXCEPT ![s] = Append(@, row)]
    BY DEF Inserted, Ledger
  <2> QED  BY <2>1 DEF Ledger
<1>3. row \in Row /\ row.rowid = L.lastRow + 1
  BY <1>1 DEF Row
<1>4. /\ acc.first = IF m.first = 0 THEN L.lastRow + 1 ELSE m.first
      /\ acc.leaves = Append(m.leaves, ev)
  BY DEF Accumulated, Mem, Leaf
<1>5. acc.leaves # << >>
  BY <1>1, <1>4
<1> HIDE DEF N, row, acc
<1>6. /\ Len(Append(R, row)) = Len(R) + 1 /\ Append(R, row)[Len(R) + 1] = row
      /\ \A i \in 1 .. Len(R) : Append(R, row)[i] = R[i]
      /\ \A i \in 1 .. Len(Append(R, row)) : i \in 1 .. Len(R) \/ i = Len(R) + 1
  BY <1>1, <1>3, Positions
<1>7. m.leaves # << >> => 0 < m.first /\ m.first <= L.lastRow
  <2>1. SUFFICES ASSUME m.leaves # << >> PROVE 0 < m.first /\ m.first <= L.lastRow
    OBVIOUS
  <2>2. PICK a \in 1 .. Len(R) : m.first = R[a].rowid
    BY <2>1 DEF AccOK, Accumulates
  <2> QED  BY <2>2 DEF TableOK, Ascending
<1>8. m.leaves = << >> => m.first = 0
  BY DEF AccOK, Accumulates
<1>9. acc.first <= L.lastRow + 1
  BY <1>1, <1>4, <1>7, <1>8
<1>10. ASSUME NEW i \in 1 .. Len(N.rows[s])
       PROVE  InSegment(N, s, N.rows[s][i].rowid) \/ acc.first <= N.rows[s][i].rowid
  <2>1. CASE i = Len(R) + 1
    BY <1>2, <1>3, <1>6, <1>9, <2>1
  <2>2. CASE i \in 1 .. Len(R)
    <3>1. N.rows[s][i] = R[i]
      BY <1>2, <1>6, <2>2
    <3>2. CASE InSegment(L, s, R[i].rowid)
      BY <1>2, <3>1, <3>2 DEF InSegment
    <3>3. CASE m.leaves # << >> /\ m.first <= R[i].rowid
      BY <1>4, <1>7, <3>1, <3>3
    <3> QED  BY <2>2, <3>2, <3>3 DEF CoveredBy
  <2> QED  BY <1>2, <1>6, <2>1, <2>2
<1>11. CoveredBy(N, s, acc)
  BY <1>5, <1>10 DEF CoveredBy
<1> QED  BY <1>11 DEF N, acc

\* Sealing moves the rows of the open segment into a sealed one.
LEMMA SealMoves ==
    ASSUME NEW L \in Ledger, NEW s \in Session, NEW m \in Mem, now \in Nat,
           TableOK(L, s), AccOK(L, s, m), m.leaves # << >>, CoveredBy(L, s, m),
           NEW hash \in SegHashes, NEW x
    PROVE  CoveredBy([L EXCEPT !.segs[s] = Append(@, [header |-> NewHeader(s, m),
                                                      prev |-> m.prev, hash |-> hash])], s, x)
<1> DEFINE h == NewHeader(s, m)
           seg == [header |-> h, prev |-> m.prev, hash |-> hash]
           N == [L EXCEPT !.segs[s] = Append(@, seg)]
           R == L.rows[s]
           S == L.segs[s]
<1>1. R \in Seq(Row) /\ S \in Seq(SegRow) /\ Len(R) \in Nat
  BY TableTypes
<1>2. h \in Header /\ h.first = m.first /\ h.last = m.last
  BY HeaderType DEF NewHeader
<1>3. N.rows = L.rows /\ N.segs[s] = Append(S, seg)
  BY DEF Ledger
<1> HIDE DEF h, N
<1>4. seg \in SegRow /\ seg.header = h
  <2>1. m.prev \in SegHashes
    BY DEF Mem
  <2> QED  BY <1>2, <2>1 DEF SegRow
<1> HIDE DEF seg
<1>5. Len(Append(S, seg)) \in 1 .. Len(Append(S, seg)) /\ Append(S, seg)[Len(Append(S, seg))] = seg
  BY <1>1, <1>4, Positions
<1>6. m.last = R[Len(R)].rowid
  BY DEF AccOK, Accumulates
<1>7. ASSUME NEW i \in 1 .. Len(R), m.first <= R[i].rowid
      PROVE  InSegment(N, s, R[i].rowid)
  <2>1. R[i].rowid \in Nat /\ R[Len(R)].rowid \in Nat
    BY <1>1, RowInts
  <2>2. R[i].rowid <= R[Len(R)].rowid
    BY <1>1, <2>1 DEF TableOK, Ascending
  <2>3. m.first \in Nat /\ m.last \in Nat
    BY SMTT(60) DEF Mem
  <2>4. R[i].rowid \in seg.header.first .. seg.header.last
    BY <1>2, <1>4, <1>6, <1>7, <2>1, <2>2, <2>3
  <2> QED  BY <1>3, <1>5, <2>4 DEF InSegment
<1>8. ASSUME NEW i \in 1 .. Len(R), InSegment(L, s, R[i].rowid)
      PROVE  InSegment(N, s, R[i].rowid)
  BY <1>1, <1>3, <1>4, <1>8, SegmentKept
<1>9. CoveredBy(N, s, x)
  BY <1>3, <1>7, <1>8 DEF CoveredBy
<1> QED  BY <1>9 DEF N, seg, h

\* A new writer has no rows.
LEMMA InitCover == Init => CoverOK
  BY DEF Init, CoverOK, CoveredBy, EmptyLedger

\* Tables that stay cover what they covered.
LEMMA SameCover ==
    ASSUME NEW L, NEW N, NEW s, NEW m, NEW x, N.rows[s] = L.rows[s], N.segs[s] = L.segs[s],
           x.leaves = m.leaves, m.leaves # << >> => x.first = m.first, CoveredBy(L, s, m)
    PROVE  CoveredBy(N, s, x)
  BY DEF CoveredBy, InSegment

\* Every step keeps the rows covered.
LEMMA NextCover == CtlInv /\ MemOK /\ Honest /\ CoverOK /\ [Next]_vars => CoverOK'
<1> SUFFICES ASSUME CtlInv, MemOK, Honest, CoverOK, [Next]_vars PROVE CoverOK'
  OBVIOUS
<1>T. /\ tx \in Ledger /\ mem \in [Session -> Mem] /\ now \in Nat /\ crashes \in Nat
      /\ rolledBack \in BOOLEAN /\ tainted \in BOOLEAN
      /\ pc \in {"insert", "seal", "ckpt"} => cur \in Session /\ mem[cur] \in Mem
  BY DEF CtlInv, TypeOK, ControlOK
<1> DEFINE Fresh == crashes = 0 /\ ~rolledBack
<1>F. ASSUME Fresh
      PROVE  /\ \A s \in Session : CoveredBy(tx, s, mem[s])
             /\ \A s \in Session : TableOK(tx, s) /\ (mem[s].known => AccOK(tx, s, mem[s]))
  BY <1>T, <1>F DEF CoverOK, Honest, Sound, TxHonest
<1>0. ASSUME UNCHANGED <<rolledBack, tainted, crashes>>,
             Fresh => \A s \in Session : CoveredBy(tx', s, mem'[s])
      PROVE  CoverOK'
  BY <1>0 DEF CoverOK
<1>1. CASE UNCHANGED <<tx, mem, rolledBack, tainted, crashes>>
  BY <1>1 DEF CoverOK
<1>2. CASE OpenRow \/ OpenForced
  <2>0. PICK s \in Session : \E m :
           /\ mem' = [mem EXCEPT ![s] = m] /\ (m = StateOf(tx, s) \/ m = Opened(StateOf(tx, s)))
           /\ tx' = IF mem[s].known THEN tx ELSE [tx EXCEPT !.sessions = @ \cup {s}]
    <3>1. CASE OpenRow
      <4>1. batch \in Seq(Event) /\ at \in 1 .. Len(batch)
        BY <3>1 DEF OpenRow, CtlInv, TypeOK
      <4>2. batch[at].session \in Session
        <5>1. batch[at] \in Event
          BY <4>1
        <5> QED  BY <5>1 DEF Event
      <4> QED  BY <3>1, <4>2 DEF OpenRow
    <3>2. CASE OpenForced
      <4>1. req \in Session
        BY <3>2 DEF OpenForced, CtlInv, ControlOK
      <4> QED  BY <3>2, <4>1 DEF OpenForced
    <3> QED  BY <1>2, <3>1, <3>2
  <2>1. PICK m :
           /\ mem' = [mem EXCEPT ![s] = m] /\ (m = StateOf(tx, s) \/ m = Opened(StateOf(tx, s)))
           /\ tx' = IF mem[s].known THEN tx ELSE [tx EXCEPT !.sessions = @ \cup {s}]
    BY <2>0
  <2>2. UNCHANGED <<rolledBack, tainted, crashes>>
    BY <1>2 DEF OpenRow, OpenForced, faultVars
  <2>3. tx'.rows = tx.rows /\ tx'.segs = tx.segs
    BY <1>T, <2>1 DEF Ledger
  <2>4. \A t \in Session : mem'[t] = IF t = s THEN m ELSE mem[t]
    BY <1>T, <2>1
  <2>5. ASSUME Fresh
        PROVE  m.leaves = mem[s].leaves /\ (m.leaves # << >> => m.first = mem[s].first)
    <3>1. /\ StateOf(tx, s) \in Mem /\ StateOf(tx, s).leaves = mem[s].leaves
          /\ StateOf(tx, s).leaves # << >> => StateOf(tx, s).open
      BY StateOfLeaves
    <3>2. mem[s].leaves # << >> => StateOf(tx, s).first = mem[s].first
      BY DEF MemOK, StateOf
    <3>3. /\ Opened(StateOf(tx, s)).leaves = StateOf(tx, s).leaves
          /\ Opened(StateOf(tx, s)).first = StateOf(tx, s).first
      BY <3>1, OpenedFields
    <3> QED  BY <2>1, <3>1, <3>2, <3>3
  <2>6. ASSUME Fresh, NEW t \in Session PROVE CoveredBy(tx', t, mem'[t])
    BY <1>F, <2>3, <2>4, <2>5, <2>6, SameCover
  <2> QED  BY <1>0, <2>2, <2>6
<1>3. CASE InsertRow
  <2> DEFINE m == mem[cur]
             ev == batch[at]
             acc == Accumulated(m, ev, tx.lastRow + 1)
  <2>1. pc = "insert" /\ mem[cur].known
    BY <1>3 DEF InsertRow, MemOK
  <2>2. cur \in Session /\ m \in Mem /\ m.segIndex \in Nat
    BY <1>T, <2>1 DEF Mem
  <2>3. ev \in Event
    <3>1. batch \in Seq(Event) /\ at \in 1 .. Len(batch)
      BY <2>1 DEF CtlInv, TypeOK, ControlOK
    <3> QED  BY <3>1
  <2>4. /\ tx' = Inserted(tx, cur, m.segIndex, ev) /\ mem' = [mem EXCEPT ![cur] = acc]
        /\ UNCHANGED <<rolledBack, tainted, crashes>>
    BY <1>3 DEF InsertRow, durable, faultVars
  <2>5. ASSUME NEW t \in Session, t # cur
        PROVE  tx'.rows[t] = tx.rows[t] /\ tx'.segs[t] = tx.segs[t] /\ mem'[t] = mem[t]
    BY <1>T, <2>4, <2>5 DEF Inserted, Ledger
  <2>6. mem'[cur] = acc
    BY <1>T, <2>2, <2>4
  <2> HIDE DEF m, ev, acc
  <2>7. ASSUME Fresh PROVE CoveredBy(tx', cur, acc)
    <3>1. TableOK(tx, cur) /\ AccOK(tx, cur, m) /\ CoveredBy(tx, cur, m)
      BY <1>F, <2>1, <2>2, <2>7 DEF m
    <3> QED  BY <1>T, <2>2, <2>3, <2>4, <3>1, InsertCovers DEF acc
  <2>8. ASSUME Fresh, NEW t \in Session PROVE CoveredBy(tx', t, mem'[t])
    BY <1>F, <2>5, <2>6, <2>7, <2>8, SameCover
  <2> QED  BY <1>0, <2>4, <2>8
<1>4. CASE SealSegment
  <2> DEFINE m == mem[cur]
             h == NewHeader(cur, m)
             hash == SegHash(m.prev, h)
             N == [tx EXCEPT !.segs[cur] =
                      Append(@, [header |-> h, prev |-> m.prev, hash |-> hash])]
             z == Sealed(m, hash)
  <2>1. pc = "seal" /\ mem[cur].known /\ m.leaves # << >>
    BY <1>4 DEF SealSegment, SealDue, MemOK
  <2>2. cur \in Session /\ m \in Mem
    BY <1>T, <2>1
  <2>3. /\ tx' = N /\ mem' = [mem EXCEPT ![cur] = z]
        /\ UNCHANGED <<rolledBack, tainted, crashes>>
    BY <1>4 DEF SealSegment, durable, faultVars
  <2>4. N.rows = tx.rows /\ \A t \in Session : t # cur => N.segs[t] = tx.segs[t]
    BY <1>T, <2>2 DEF Ledger
  <2>5. hash \in SegHashes
    BY <1>T, <2>2, HeaderType DEF SegHash, SegHashes, Mem
  <2>6. ASSUME Fresh PROVE CoveredBy(N, cur, z)
    BY <1>F, <1>T, <2>1, <2>2, <2>5, <2>6, SealMoves
  <2> HIDE DEF m, h, hash, N, z
  <2>7. \A t \in Session : mem'[t] = IF t = cur THEN z ELSE mem[t]
    BY <1>T, <2>2, <2>3
  <2>8. ASSUME Fresh, NEW t \in Session PROVE CoveredBy(tx', t, mem'[t])
    <3>1. CASE t = cur
      BY <2>3, <2>6, <2>7, <2>8, <3>1
    <3>2. CASE t # cur
      BY <1>F, <2>3, <2>4, <2>7, <2>8, <3>2, SameCover
    <3> QED  BY <3>1, <3>2
  <2> QED  BY <1>0, <2>3, <2>8
<1>5. CASE WriteCheckpoint
  <2>1. cur \in Session /\ mem[cur] \in Mem
    BY <1>5, <1>T DEF WriteCheckpoint
  <2>2. /\ tx'.rows = tx.rows /\ tx'.segs = tx.segs
        /\ mem' = [mem EXCEPT ![cur] = Attesting(mem[cur])]
        /\ UNCHANGED <<rolledBack, tainted, crashes>>
    BY <1>5, <1>T DEF WriteCheckpoint, faultVars, Ledger
  <2>3. /\ Attesting(mem[cur]).leaves = mem[cur].leaves
        /\ Attesting(mem[cur]).first = mem[cur].first
    BY <2>1 DEF Attesting, Mem
  <2>4. \A t \in Session : mem'[t] = IF t = cur THEN Attesting(mem[cur]) ELSE mem[t]
    BY <1>T, <2>1, <2>2
  <2>5. ASSUME Fresh, NEW t \in Session PROVE CoveredBy(tx', t, mem'[t])
    BY <1>F, <2>2, <2>3, <2>4, <2>5, SameCover
  <2> QED  BY <1>0, <2>2, <2>5
<1>6. CASE Commits
  <2>1. /\ tx' = tx /\ mem' = mem /\ rolledBack' = rolledBack /\ crashes' = crashes
        /\ tainted' = (tainted \/ rolledBack)
    BY <1>6 DEF Commits, CommitBatch, CommitForced, memVars
  <2> QED  BY <1>T, <2>1 DEF CoverOK
<1>7. CASE Rollbacks
  <2>1. /\ tx' = db /\ mem' = mem /\ rolledBack' = (rolledBack \/ tx # db)
        /\ tainted' = tainted /\ crashes' = crashes
    BY <1>7 DEF Rollbacks, BatchFails, ForcedFails, Rollback, memVars, durable
  <2>2. ~rolledBack' => ~rolledBack /\ tx' = tx
    BY <1>T, <2>1
  <2> QED  BY <1>T, <2>1, <2>2 DEF CoverOK
<1>8. CASE Crash
  <2>1. crashes' = crashes + 1
    BY <1>8 DEF Crash
  <2>2. crashes' # 0
    BY <1>T, <2>1
  <2> QED  BY <2>2 DEF CoverOK
<1>9. ASSUME Elsewhere \/ Moves \/ Restart PROVE CoverOK'
  <2>1. UNCHANGED <<tx, mem, rolledBack, tainted>>
    BY <1>9 DEF Elsewhere, Moves, FinalPass, Restart, memVars, faultVars
  <2>2. ASSUME ~Crash PROVE crashes' = crashes
    BY <2>2, <1>9 DEF vars, faultVars, Next, Callers, BeginAppend, Enqueue, RefuseClosed, Close,
      Select, Receive, TimerFlush, ServeSeal, Drain, Transaction, OpenRow, InsertRow, FinalPass,
      EndBatch, OpenForced, SkipSeal, SealSegment, SkipCheckpoint, WriteCheckpoint, CommitBatch,
      CommitForced, Faults, BatchFails, ForcedFails, Restart, Tick
  <2> QED  BY <1>1, <1>8, <2>1, <2>2
<1> QED  BY <1>2, <1>3, <1>4, <1>5, <1>6, <1>7, <1>8, <1>9, StepKinds

\* Only the commit of a forced seal answers a request with success.
LEMMA AnsweredOk ==
    ASSUME [Next]_vars, sealRes = "pending", sealRes' = "ok"
    PROVE  CommitForced
<1>1. ASSUME ~CommitForced PROVE sealRes' = sealRes \/ sealRes' \in {"pending", "error", "none"}
  BY <1>1 DEF vars, sealVars, Next, Callers, BeginAppend, Enqueue, RefuseClosed, Close,
      Select, Receive, TimerFlush, ServeSeal, Drain, Transaction, OpenRow, InsertRow, FinalPass,
      EndBatch, OpenForced, SkipSeal, SealSegment, SkipCheckpoint, WriteCheckpoint, CommitBatch,
      Faults, BatchFails, ForcedFails, Crash, Forgotten, Restart, Tick
<1> QED  BY <1>1

\* A forced seal that commits has sealed every row of its session.
LEMMA SealedAll ==
    ASSUME CtlInv, MemOK, CoverOK, CommitForced, crashes = 0, ~rolledBack,
           NEW i \in 1 .. Len(db'.rows[req])
    PROVE  \E k \in 1 .. Len(db'.segs[req]) :
              db'.rows[req][i].rowid \in db'.segs[req][k].header.first
                                          .. db'.segs[req][k].header.last
<1>1. db' = tx /\ pc = "commit" /\ why = "force"
  BY DEF CommitForced
<1>2. cur = req /\ req \in Session /\ mem[req].leaves = << >>
  BY <1>1 DEF MemOK
<1>3. CoveredBy(tx, req, mem[req])
  BY <1>2 DEF CoverOK
<1> QED  BY <1>1, <1>2, <1>3 DEF CoveredBy, InSegment

----------------------------------------------------------------------------
(* The mirror of the reported heads *)

\* A non-empty set of positions has a greatest one.
LEMMA GreatestInType ==
    ASSUME NEW n \in Nat, NEW J \in SUBSET (1 .. n), J # {}
    PROVE  GreatestIn(J) \in J
<1> DEFINE R == {ss \in Nat \X Nat : ss[1] < ss[2]}
           K == {n - j : j \in J}
<1>1. IsWellFoundedOn(R, Nat)
  BY NatLessThanWellFounded DEF OpToRel
<1>2. K \subseteq Nat /\ K # {}
  <2>1. ASSUME NEW j \in J PROVE n - j \in Nat /\ n - j \in K
    <3>1. j \in 1 .. n
      OBVIOUS
    <3> QED  BY <3>1
  <2>2. PICK j \in J : TRUE
    OBVIOUS
  <2>3. n - j \in K
    BY <2>1
  <2> QED  BY <2>1, <2>3
<1>3. PICK i \in K : \A j \in K : <<j, i>> \notin R
  <2> HIDE DEF R, K
  <2> QED  BY <1>1, <1>2, WFMin
<1>4. PICK g \in J : i = n - g
  OBVIOUS
<1>5. ASSUME NEW j \in J PROVE j <= g
  <2>1. n - j \in K
    OBVIOUS
  <2>2. <<n - j, i>> \in Nat \X Nat /\ n - j \in Nat /\ i \in Nat
    BY <1>2, <2>1
  <2>3. ~(n - j < i)
    BY <1>3, <2>1, <2>2
  <2>4. j \in Nat /\ g \in Nat
    OBVIOUS
  <2> QED  BY <1>4, <2>2, <2>3, <2>4
<1> QED  BY <1>5 DEF GreatestIn

\* A position behind all others is the greatest.
LEMMA GreatestNew ==
    ASSUME NEW n \in Nat, NEW J \in SUBSET (1 .. n)
    PROVE  GreatestIn(J \cup {n + 1}) = n + 1
<1>1. \A j \in J \cup {n + 1} : j <= n + 1
  OBVIOUS
<1>2. ASSUME NEW i \in J \cup {n + 1}, \A j \in J \cup {n + 1} : j <= i
      PROVE  i = n + 1
  <2>1. n + 1 <= i
    BY <1>2
  <2> QED  BY <2>1
<1> QED  BY <1>1, <1>2 DEF GreatestIn

\* What the mirror says of a checkpoint c.
Mirrored(u, c) ==
    LET J == MirrorIndex(u, c.body.session, c.body.segLast)
    IN  J # {} => /\ u[GreatestIn(J)].head = c.body.head
                  /\ u[GreatestIn(J)].ckpt = CheckpointHash(c.prev, c.body)

\* A report of another segment's head changes nothing for c,
LEMMA MirroredKept ==
    ASSUME NEW u \in Seq(HeadReport), NEW r \in HeadReport, NEW c, Mirrored(u, c),
           ~(c.body.session = r.session /\ c.body.segLast = r.segLast)
    PROVE  Mirrored(Append(u, r), c)
<1> DEFINE J == MirrorIndex(u, c.body.session, c.body.segLast)
           v == Append(u, r)
<1>1. /\ Len(u) \in Nat /\ Len(v) = Len(u) + 1 /\ v[Len(u) + 1] = r
      /\ \A i \in 1 .. Len(u) : v[i] = u[i]
  BY Positions
<1> HIDE DEF v
<1>2. MirrorIndex(v, c.body.session, c.body.segLast) = J
  BY <1>1 DEF MirrorIndex
<1>3. J # {} => v[GreatestIn(J)] = u[GreatestIn(J)]
  <2>1. J \in SUBSET (1 .. Len(u))
    BY DEF MirrorIndex
  <2> HIDE DEF J
  <2> QED  BY <1>1, <2>1, GreatestInType
<1> QED  BY <1>2, <1>3 DEF Mirrored, v

\* and the report of c itself is the one that counts.
LEMMA MirroredNew ==
    ASSUME NEW u \in Seq(HeadReport), NEW r \in HeadReport, NEW c,
           c.body.session = r.session, c.body.segLast = r.segLast,
           c.body.head = r.head, r.ckpt = CheckpointHash(c.prev, c.body)
    PROVE  Mirrored(Append(u, r), c)
<1> DEFINE J == MirrorIndex(u, c.body.session, c.body.segLast)
           v == Append(u, r)
<1>1. /\ Len(u) \in Nat /\ Len(v) = Len(u) + 1 /\ v[Len(u) + 1] = r
      /\ \A i \in 1 .. Len(u) : v[i] = u[i]
  BY Positions
<1> HIDE DEF v
<1>2. MirrorIndex(v, c.body.session, c.body.segLast) = J \cup {Len(u) + 1}
  BY <1>1 DEF MirrorIndex
<1>3. GreatestIn(J \cup {Len(u) + 1}) = Len(u) + 1
  <2>1. J \in SUBSET (1 .. Len(u))
    BY DEF MirrorIndex
  <2> HIDE DEF J
  <2> QED  BY <1>1, <2>1, GreatestNew
<1> QED  BY <1>1, <1>2, <1>3 DEF Mirrored, v

\* verifyMirror asks this of every checkpoint.
LEMMA MirrorAll ==
    ASSUME NEW L, NEW u
    PROVE  MirrorMatches(L, u) <=> \A i \in 1 .. Len(L.ckpts) : Mirrored(u, L.ckpts[i])
  BY DEF MirrorMatches, Mirrored

\* The durable checkpoints of s attest no segment that m has pending.
Behind(L, s, m) ==
    \A i \in 1 .. Len(L.ckpts) : L.ckpts[i].body.session = s
        => L.ckpts[i].body.segLast < m.segIndex - m.pending

\* Nothing of s is in the transaction that is not durable.
Untouched(s) ==
    /\ tx.segs[s] = db.segs[s]
    /\ \A i \in 1 .. Len(tx.ckpts) : tx.ckpts[i].body.session = s => i <= Len(db.ckpts)

\* Inductive: heads are reported before they are durable, but none that is
\* durable is ever reported again.
HeadsOK ==
    /\ ~tainted => MirrorMatches(db, heads)
    /\ Sound => MirrorMatches(tx, heads)
    /\ ~tainted => \A s \in Session : mem[s].known => Behind(db, s, mem[s])
    /\ ~tainted => \A s \in Session : ~mem[s].known => Untouched(s)

\* A chain state that continues the tables is ahead of their checkpoints.
LEMMA AccBehind ==
    ASSUME NEW L, NEW s, NEW m, AccOK(L, s, m)
    PROVE  Behind(L, s, m)
  BY DEF AccOK, AttestedTo, Behind

\* A session's chain state, loaded while the writer's transaction holds
\* nothing of it, is ahead of the durable checkpoints.
LEMMA LoadedBehind ==
    ASSUME CtlInv, TxOK, NEW s \in Session, TableOK(db, s), Untouched(s)
    PROVE  Behind(db, s, Loaded(tx, s))
<1>1. db \in Ledger /\ tx \in Ledger
  BY DEF CtlInv, TypeOK
<1>2. AppendOnly!Grown(db.ckpts, tx.ckpts)
  BY DEF TxOK, AppendOnly!Step, AppendOnly!Extends
<1>3. Len(db.ckpts) \in Nat /\ Len(tx.ckpts) \in Nat /\ tx.segs[s] = db.segs[s]
  BY <1>1, TableTypes DEF Untouched
<1>4. \A q : Attested(tx, s, q) <=> Attested(db, s, q)
  BY <1>2, <1>3 DEF Attested, Untouched, AppendOnly!Grown
<1>5. PendingSegs(tx, s) = PendingSegs(db, s)
  BY <1>3, <1>4 DEF PendingSegs
<1>6. Loaded(tx, s) = Loaded(db, s)
  BY <1>3, <1>5 DEF Loaded, NextSeg, LastSegHash
<1> QED  BY <1>1, <1>6, LoadedOK, AccBehind

\* Only a checkpoint is reported.
LEMMA HeadsSame ==
    ASSUME [Next]_vars, ~WriteCheckpoint
    PROVE  heads' = heads
  BY DEF vars, durable, Next, Callers, BeginAppend, Enqueue, RefuseClosed, Close,
      Select, Receive, TimerFlush, ServeSeal, Drain, Transaction, OpenRow, InsertRow, FinalPass,
      EndBatch, OpenForced, SkipSeal, SealSegment, SkipCheckpoint, CommitBatch, CommitForced,
      Faults, BatchFails, ForcedFails, Crash, Restart, Tick

\* A new mirror is empty.
LEMMA InitHeads == Init => HeadsOK
<1> SUFFICES ASSUME Init PROVE HeadsOK
  OBVIOUS
<1>1. /\ tx = EmptyLedger /\ db = EmptyLedger /\ EmptyLedger.ckpts = << >>
      /\ \A s \in Session : ~mem[s].known
  BY DEF Init, Unknown, EmptyLedger
<1> QED  BY <1>1 DEF HeadsOK, MirrorMatches, Untouched

\* Steps that report nothing and change no checkpoint of the transaction.
LEMMA QuietHeads ==
    ASSUME HeadsOK, UNCHANGED <<db, heads, rolledBack, tainted>>, tx'.ckpts = tx.ckpts,
           NEW s \in Session, NEW m, m.known,
           \A t \in Session : mem'[t] = IF t = s THEN m ELSE mem[t],
           ~tainted => Behind(db, s, m),
           \A t \in Session \ {s} : tx'.segs[t] = tx.segs[t]
    PROVE  HeadsOK'
<1>1. ~tainted' => MirrorMatches(db', heads')
  BY DEF HeadsOK
<1>2. Sound' => MirrorMatches(tx', heads')
  BY MirrorAll DEF HeadsOK, Sound
<1>3. ASSUME ~tainted', NEW t \in Session, mem'[t].known PROVE Behind(db', t, mem'[t])
  BY <1>3 DEF HeadsOK
<1>4. ASSUME ~tainted', NEW t \in Session, ~mem'[t].known PROVE Untouched(t)'
  <2>1. t # s /\ ~mem[t].known
    BY <1>4
  <2>2. Untouched(t)
    BY <1>4, <2>1 DEF HeadsOK
  <2> QED  BY <2>1, <2>2 DEF Untouched
<1> QED  BY <1>1, <1>2, <1>3, <1>4 DEF HeadsOK

\* Every step keeps the reports ahead of the durable checkpoints.
LEMMA NextHeads ==
    CtlInv /\ TxOK /\ MemOK /\ Honest /\ HeadsOK /\ [Next]_vars => HeadsOK'
<1> SUFFICES ASSUME CtlInv, TxOK, MemOK, Honest, HeadsOK, [Next]_vars PROVE HeadsOK'
  OBVIOUS
<1>T. /\ tx \in Ledger /\ db \in Ledger /\ mem \in [Session -> Mem] /\ heads \in Seq(HeadReport)
      /\ rolledBack \in BOOLEAN /\ tainted \in BOOLEAN /\ ckptHash \in CkptHashes
      /\ now \in Nat
      /\ pc \in {"insert", "seal", "ckpt"} => cur \in Session /\ mem[cur] \in Mem
  BY DEF CtlInv, TypeOK, ControlOK
<1>1. CASE UNCHANGED <<tx, mem, db, heads, rolledBack, tainted>>
  BY <1>1 DEF HeadsOK, Untouched, Sound
<1>2. CASE OpenRow \/ OpenForced
  <2>0. PICK s \in Session : \E m :
           /\ mem' = [mem EXCEPT ![s] = m] /\ (m = StateOf(tx, s) \/ m = Opened(StateOf(tx, s)))
           /\ tx' = IF mem[s].known THEN tx ELSE [tx EXCEPT !.sessions = @ \cup {s}]
    <3>1. CASE OpenRow
      <4>1. batch \in Seq(Event) /\ at \in 1 .. Len(batch)
        BY <3>1 DEF OpenRow, CtlInv, TypeOK
      <4>2. batch[at].session \in Session
        <5>1. batch[at] \in Event
          BY <4>1
        <5> QED  BY <5>1 DEF Event
      <4> QED  BY <3>1, <4>2 DEF OpenRow
    <3>2. CASE OpenForced
      <4>1. req \in Session
        BY <3>2 DEF OpenForced, CtlInv, ControlOK
      <4> QED  BY <3>2, <4>1 DEF OpenForced
    <3> QED  BY <1>2, <3>1, <3>2
  <2>1. PICK m :
           /\ mem' = [mem EXCEPT ![s] = m] /\ (m = StateOf(tx, s) \/ m = Opened(StateOf(tx, s)))
           /\ tx' = IF mem[s].known THEN tx ELSE [tx EXCEPT !.sessions = @ \cup {s}]
    BY <2>0
  <2>2. UNCHANGED <<db, heads, rolledBack, tainted>>
    BY <1>2 DEF OpenRow, OpenForced, faultVars, durable
  <2>3. tx'.segs = tx.segs /\ tx'.ckpts = tx.ckpts
    BY <1>T, <2>1 DEF Ledger
  <2>4. \A t \in Session : mem'[t] = IF t = s THEN m ELSE mem[t]
    BY <1>T, <2>1
  <2>5. /\ StateOf(tx, s) \in Mem /\ StateOf(tx, s).known
        /\ StateOf(tx, s).leaves # << >> => StateOf(tx, s).open
    BY StateOfLeaves
  <2>6. /\ m.known /\ m.segIndex = StateOf(tx, s).segIndex /\ m.pending = StateOf(tx, s).pending
    BY <2>1, <2>5, OpenedFields
  <2>7. ASSUME ~tainted PROVE Behind(db, s, StateOf(tx, s))
    <3>1. CASE mem[s].known
      BY <2>7, <3>1 DEF StateOf, HeadsOK
    <3>2. CASE ~mem[s].known
      BY <2>7, <3>2, LoadedBehind DEF StateOf, HeadsOK, Honest, DbHonest
    <3> QED  BY <3>1, <3>2
  <2>8. ~tainted => Behind(db, s, m)
    BY <2>6, <2>7 DEF Behind
  <2> QED  BY <2>2, <2>3, <2>4, <2>6, <2>8, QuietHeads
<1>3. CASE InsertRow
  <2> DEFINE m == mem[cur]
             acc == Accumulated(m, batch[at], tx.lastRow + 1)
  <2>1. pc = "insert" /\ mem[cur].known
    BY <1>3 DEF InsertRow, MemOK
  <2>2. cur \in Session /\ m \in Mem
    BY <1>T, <2>1
  <2>3. /\ tx' = Inserted(tx, cur, m.segIndex, batch[at]) /\ mem' = [mem EXCEPT ![cur] = acc]
        /\ UNCHANGED <<db, heads, rolledBack, tainted>>
    BY <1>3 DEF InsertRow, durable, faultVars
  <2>4. tx'.segs = tx.segs /\ tx'.ckpts = tx.ckpts
    BY <1>T, <2>3 DEF Inserted, Ledger
  <2>5. acc.known = m.known /\ acc.segIndex = m.segIndex /\ acc.pending = m.pending
    BY <2>2 DEF Accumulated, Mem
  <2>6. \A t \in Session : mem'[t] = IF t = cur THEN acc ELSE mem[t]
    BY <1>T, <2>2, <2>3
  <2>7. ~tainted => Behind(db, cur, m)
    BY <2>1, <2>2 DEF HeadsOK
  <2> HIDE DEF acc, m
  <2>8. ~tainted => Behind(db, cur, acc)
    BY <2>5, <2>7 DEF Behind
  <2>9. acc.known
    BY <2>1, <2>5 DEF m
  <2> QED  BY <2>2, <2>3, <2>4, <2>6, <2>8, <2>9, QuietHeads
<1>4. CASE SealSegment
  <2> DEFINE m == mem[cur]
             h == NewHeader(cur, m)
             hash == SegHash(m.prev, h)
             seg == [header |-> h, prev |-> m.prev, hash |-> hash]
             z == Sealed(m, hash)
  <2>1. pc = "seal" /\ mem[cur].known
    BY <1>4 DEF SealSegment, MemOK
  <2>2. cur \in Session /\ m \in Mem
    BY <1>T, <2>1
  <2>3. /\ tx' = [tx EXCEPT !.segs[cur] = Append(@, seg)] /\ mem' = [mem EXCEPT ![cur] = z]
        /\ UNCHANGED <<db, heads, rolledBack, tainted>>
    BY <1>4 DEF SealSegment, durable, faultVars
  <2>4. /\ z.known = m.known /\ z.segIndex = m.segIndex + 1 /\ z.pending = m.pending + 1
        /\ m.segIndex \in Nat /\ m.pending \in Nat
    BY <2>2 DEF Sealed, Mem
  <2>5. ~tainted => Behind(db, cur, m)
    BY <2>1, <2>2 DEF HeadsOK
  <2> HIDE DEF seg, z, m
  <2>6. tx'.ckpts = tx.ckpts /\ \A t \in Session \ {cur} : tx'.segs[t] = tx.segs[t]
    BY <1>T, <2>2, <2>3 DEF Ledger
  <2>7. \A t \in Session : mem'[t] = IF t = cur THEN z ELSE mem[t]
    BY <1>T, <2>2, <2>3
  <2>8. z.segIndex - z.pending = m.segIndex - m.pending
    BY <2>4
  <2>9. ~tainted => Behind(db, cur, z)
    BY <2>5, <2>8 DEF Behind
  <2>10. z.known
    BY <2>1, <2>4 DEF m
  <2> QED  BY <2>2, <2>3, <2>6, <2>7, <2>9, <2>10, QuietHeads
<1>5. CASE WriteCheckpoint
  <2> DEFINE m == mem[cur]
             b == NewBody(cur, m)
             c == [body |-> b, prev |-> ckptHash]
             r == Report(cur, m, CheckpointHash(ckptHash, b))
             z == Attesting(m)
  <2>1. pc = "ckpt" /\ mem[cur].known /\ m.pending # 0
    BY <1>5 DEF WriteCheckpoint, CkptDue, MemOK
  <2>2. /\ cur \in Session /\ m \in Mem /\ m.segIndex \in Nat /\ m.pending \in Nat
        /\ m.prev \in SegHashes
    BY <1>T, <2>1 DEF Mem
  <2>3. /\ tx' = [tx EXCEPT !.ckpts = Append(@, c)] /\ mem' = [mem EXCEPT ![cur] = z]
        /\ heads' = Append(heads, r) /\ UNCHANGED <<db, rolledBack, tainted>>
    BY <1>5 DEF WriteCheckpoint, faultVars
  <2>4. /\ b \in Body /\ b.session = cur /\ b.segLast = m.segIndex - 1 /\ b.head = m.prev
    BY <1>T, <2>2, BodyType DEF NewBody
  <2>5. /\ z.known = m.known /\ z.segIndex = m.segIndex /\ z.pending = 0
    BY <2>2 DEF Attesting, Mem
  <2>6. /\ r.session = cur /\ r.segLast = m.segIndex - 1 /\ r.head = m.prev
        /\ r.ckpt = CheckpointHash(ckptHash, b)
    BY DEF Report
  <2>7. r \in HeadReport
    <3>1. CheckpointHash(ckptHash, b) \in CkptHashes
      BY <1>T, <2>4 DEF CheckpointHash, CkptHashes
    <3>2. m.segIndex - 1 \in Int
      BY <2>2
    <3> QED  BY <2>2, <3>1, <3>2 DEF Report, HeadReport
  <2>8. ~tainted => Behind(db, cur, m)
    BY <2>1, <2>2 DEF HeadsOK
  <2>9. Sound => Behind(tx, cur, m)
    BY <2>1, <2>2, AccBehind DEF Honest, TxHonest
  <2> HIDE DEF m, b, r, z
  <2>10. c \in CkptRow /\ c.body = b /\ c.prev = ckptHash
    BY <1>T, <2>4 DEF CkptRow
  <2> HIDE DEF c
  <2>11. \A t \in Session : mem'[t] = IF t = cur THEN z ELSE mem[t]
    BY <1>T, <2>2, <2>3
  <2>12. ASSUME NEW L \in Ledger, Behind(L, cur, m), MirrorMatches(L, heads),
                NEW i \in 1 .. Len(L.ckpts)
         PROVE  Mirrored(heads', L.ckpts[i])
    <3>1. Mirrored(heads, L.ckpts[i])
      BY <2>12, MirrorAll
    <3>2. ASSUME L.ckpts[i].body.session = cur, L.ckpts[i].body.segLast = r.segLast
          PROVE  FALSE
      <4>1. L.ckpts[i].body.segLast < m.segIndex - m.pending
        BY <2>12, <3>2 DEF Behind
      <4> QED  BY <2>1, <2>2, <2>6, <3>2, <4>1 DEF m
    <3> QED  BY <1>T, <2>3, <2>6, <2>7, <3>1, <3>2, MirroredKept
  <2>13. ASSUME ~tainted' PROVE MirrorMatches(db', heads')
    <3>1. MirrorMatches(db, heads) /\ Behind(db, cur, m)
      BY <2>3, <2>8, <2>13 DEF HeadsOK
    <3>2. MirrorMatches(db, heads')
      BY <1>T, <2>12, <3>1, MirrorAll
    <3> QED  BY <2>3, <3>2
  <2>14. /\ Len(tx'.ckpts) = Len(tx.ckpts) + 1 /\ tx'.ckpts[Len(tx.ckpts) + 1] = c
         /\ \A i \in 1 .. Len(tx.ckpts) : tx'.ckpts[i] = tx.ckpts[i]
         /\ \A i \in 1 .. Len(tx'.ckpts) : i \in 1 .. Len(tx.ckpts) \/ i = Len(tx.ckpts) + 1
         /\ tx'.segs = tx.segs
    <3>1. tx'.ckpts = Append(tx.ckpts, c) /\ tx'.segs = tx.segs
      BY <1>T, <2>3 DEF Ledger
    <3>2. tx.ckpts \in Seq(CkptRow)
      BY <1>T DEF Ledger
    <3> QED  BY <2>10, <3>1, <3>2, Positions
  <2>15. ASSUME Sound' PROVE MirrorMatches(tx', heads')
    <3>1. Sound /\ MirrorMatches(tx, heads) /\ Behind(tx, cur, m)
      BY <2>3, <2>9, <2>15 DEF HeadsOK, Sound
    <3>2. Mirrored(heads', c)
      BY <1>T, <2>3, <2>4, <2>6, <2>7, <2>10, MirroredNew
    <3>3. \A i \in 1 .. Len(tx'.ckpts) : Mirrored(heads', tx'.ckpts[i])
      BY <1>T, <2>12, <2>14, <3>1, <3>2
    <3> QED  BY <3>3, MirrorAll
  <2>16. ASSUME ~tainted', NEW t \in Session, mem'[t].known PROVE Behind(db', t, mem'[t])
    <3>1. CASE t # cur
      BY <2>3, <2>11, <2>16, <3>1 DEF HeadsOK
    <3>2. CASE t = cur
      <4>1. Behind(db, cur, m)
        BY <2>3, <2>8, <2>16
      <4>2. ASSUME NEW i \in 1 .. Len(db.ckpts), db.ckpts[i].body.session = cur
            PROVE  db.ckpts[i].body.segLast < z.segIndex - z.pending
        <5>1. db.ckpts[i].body.segLast < m.segIndex - m.pending
          BY <4>1, <4>2 DEF Behind
        <5>2. db.ckpts[i].body.segLast \in Int
          BY <1>T, TableTypes, BodyInts
        <5> QED  BY <2>2, <2>5, <5>1, <5>2
      <4>3. Behind(db, cur, z)
        BY <4>2 DEF Behind
      <4> QED  BY <2>2, <2>3, <2>11, <3>2, <4>3
    <3> QED  BY <3>1, <3>2
  <2>17. ASSUME ~tainted', NEW t \in Session, ~mem'[t].known PROVE Untouched(t)'
    <3>1. t # cur /\ ~mem[t].known
      BY <2>1, <2>5, <2>11, <2>17 DEF m
    <3>2. Untouched(t)
      BY <2>3, <2>17, <3>1 DEF HeadsOK
    <3> QED  BY <2>3, <2>4, <2>10, <2>14, <3>1, <3>2 DEF Untouched
  <2> QED  BY <2>13, <2>15, <2>16, <2>17 DEF HeadsOK
<1>H. ASSUME ~WriteCheckpoint PROVE heads' = heads
  BY <1>H, HeadsSame
<1>6. CASE Commits
  <2>1. /\ db' = tx /\ tx' = tx /\ mem' = mem /\ rolledBack' = rolledBack /\ heads' = heads
        /\ tainted' = (tainted \/ rolledBack)
    BY <1>6 DEF Commits, CommitBatch, CommitForced, memVars
  <2>2. ASSUME ~tainted' PROVE Sound
    BY <1>T, <2>1, <2>2 DEF Sound
  <2>3. ~tainted' => MirrorMatches(tx, heads)
    BY <2>2 DEF HeadsOK
  <2>4. ASSUME ~tainted', NEW t \in Session, mem[t].known PROVE Behind(tx, t, mem[t])
    BY <2>2, <2>4, AccBehind DEF Honest, TxHonest
  <2>5. \A t \in Session : Untouched(t)'
    <3>1. Len(tx.ckpts) \in Nat
      BY <1>T DEF Ledger
    <3> QED  BY <2>1, <3>1 DEF Untouched
  <2>6. Sound' => ~tainted'
    BY DEF Sound
  <2> QED  BY <2>1, <2>3, <2>4, <2>5, <2>6 DEF HeadsOK
<1>7. ASSUME Rollbacks \/ Crash PROVE HeadsOK'
  <2>1. /\ db' = db /\ tx' = db /\ tainted' = tainted /\ heads' = heads
    BY <1>7 DEF Rollbacks, BatchFails, ForcedFails, Rollback, Crash, durable
  <2>2. mem' = mem \/ \A s \in Session : ~mem'[s].known
    BY <1>7 DEF Rollbacks, BatchFails, ForcedFails, Crash, Forgotten, memVars, Unknown
  <2>3. \A t \in Session : Untouched(t)'
    <3>1. Len(db.ckpts) \in Nat
      BY <1>T DEF Ledger
    <3> QED  BY <2>1, <3>1 DEF Untouched
  <2>4. Sound' => ~tainted
    BY <2>1 DEF Sound
  <2> QED  BY <2>1, <2>2, <2>3, <2>4 DEF HeadsOK
<1>8. ASSUME Elsewhere \/ Moves \/ Restart PROVE HeadsOK'
  <2>1. UNCHANGED <<tx, mem, db, rolledBack, tainted>>
    BY <1>8 DEF Elsewhere, Moves, FinalPass, Restart, memVars, faultVars, durable
  <2> QED  BY <1>1, <1>5, <1>H, <2>1
<1> QED  BY <1>2, <1>3, <1>4, <1>5, <1>6, <1>7, <1>8, StepKinds

----------------------------------------------------------------------------
(* The theorems *)

HonestInv == WriterInv /\ MemOK /\ Honest /\ CoverOK /\ HeadsOK

\* A new writer is honest,
LEMMA InitHonestInv == Init => HonestInv
  BY InitInv, InitMem, InitHonest, InitCover, InitHeads DEF HonestInv

\* and no step of it, whatever fails, makes it otherwise.
LEMMA NextHonestInv == HonestInv /\ [Next]_vars => HonestInv'
<1>1. WriterInv => CtlInv /\ TxOK
  BY DEF WriterInv, CtlInv
<1> QED  BY <1>1, NextInv, NextMem, NextHonest, NextCover, NextHeads DEF HonestInv

\* The inductive invariant holds in every reachable state.
THEOREM HonestInvariant == Spec => []HonestInv
  BY InitHonestInv, NextHonestInv, PTL DEF Spec

\* `rana verify` finds nothing, and `rana verify --mirror` no mismatch, on the
\* ledger of a writer that never committed after a rolled-back transaction,
\* through any number of sessions, crashes and restarts: what commitBatchTx
\* and maybeSealLocked leave is what verifySession and verifyMirror rebuild.
THEOREM WriterIsHonest == Spec => []LedgerHonest
<1>1. ASSUME HonestInv PROVE VerifiesUnlessTainted
  <2>1. db \in Ledger
    BY <1>1 DEF HonestInv, WriterInv, TypeOK
  <2>2. ASSUME ~tainted PROVE (\A s \in Session : TableOK(db, s)) /\ Chained(db)
    BY <1>1, <2>2 DEF HonestInv, WriterInv, CkptCacheOK, CheckpointsChained, Chained, Honest,
         DbHonest
  <2> QED  BY <2>1, <2>2, LedgerVerifies DEF VerifiesUnlessTainted
<1>2. HonestInv => MirrorAgrees
  BY DEF HonestInv, HeadsOK, MirrorAgrees
<1>3. HonestInv => LedgerHonest
  BY <1>1, <1>2 DEF LedgerHonest
<1> QED  BY <1>3, HonestInvariant, PTL

\* No row is in two segments of its session and no segment in two checkpoints,
\* although the rowid ranges of sessions interleave and a restart recounts
\* what is pending (loadPendingSegStats).
THEOREM NothingTwice == Spec => []SealedAndAttestedOnce
<1>1. ASSUME HonestInv, ~tainted, NEW s \in Session
      PROVE  TableOK(db, s) /\ db \in Ledger
  BY <1>1 DEF HonestInv, WriterInv, TypeOK, Honest, DbHonest
<1>2. HonestInv => RowSealedOnce
  <2> SUFFICES ASSUME HonestInv, ~tainted, NEW s \in Session, NEW i \in 1 .. Len(db.rows[s])
               PROVE  Cardinality({k \in 1 .. Len(db.segs[s]) :
                         db.rows[s][i].rowid \in db.segs[s][k].header.first
                                                  .. db.segs[s][k].header.last}) <= 1
    BY DEF RowSealedOnce
  <2>1. db.rows[s][i].rowid \in Nat
    BY <1>1, RowInts
  <2> QED  BY <1>1, <2>1, RowInOne
<1>3. HonestInv => AttestedOnce
  <2> DEFINE q(s, k) == db.segs[s][k].header.seg
  <2> SUFFICES ASSUME HonestInv, ~tainted, NEW s \in Session, NEW k \in 1 .. Len(db.segs[s]),
                      Attested(db, s, q(s, k))
               PROVE  Cardinality({i \in 1 .. Len(db.ckpts) :
                         /\ db.ckpts[i].body.session = s
                         /\ q(s, k) \in db.ckpts[i].body.segFirst
                                         .. db.ckpts[i].body.segLast}) = 1
    BY DEF AttestedOnce
  <2>1. q(s, k) \in Nat
    <3>1. q(s, k) = k - 1 /\ Len(db.segs[s]) \in Nat
      BY <1>1, SegNumber, TableTypes
    <3> QED  BY <3>1
  <2> HIDE DEF q
  <2> QED  BY <1>1, <2>1, SegInOne
<1>4. HonestInv => SealedAndAttestedOnce
  BY <1>2, <1>3 DEF SealedAndAttestedOnce
<1> QED  BY <1>4, HonestInvariant, PTL

\* SealSession answers nil only when every row of its session is sealed,
\* whichever batches the rows came in (forceSealSession), as long as no
\* transaction failed and the process never died.
THEOREM SealCovers == Spec => SealCoversRows
<1> DEFINE Covers ==
       (sealRes = "pending" /\ sealRes' = "ok" /\ crashes = 0 /\ ~rolledBack) =>
         \A i \in 1 .. Len(db'.rows[req]) : \E k \in 1 .. Len(db'.segs[req]) :
            db'.rows[req][i].rowid \in db'.segs[req][k].header.first
                                        .. db'.segs[req][k].header.last
<1>1. ASSUME HonestInv, [Next]_vars PROVE [Covers]_vars
  <2>1. CtlInv /\ MemOK /\ CoverOK
    BY <1>1 DEF HonestInv, WriterInv, CtlInv
  <2> QED  BY <1>1, <2>1, AnsweredOk, SealedAll
<1> HIDE DEF Covers
<1>2. Spec => [][Covers]_vars
  BY <1>1, HonestInvariant, PTL DEF Spec
<1> QED  BY <1>2 DEF SealCoversRows, Covers

=============================================================================
