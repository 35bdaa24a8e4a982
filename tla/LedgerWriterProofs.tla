------------------------ MODULE LedgerWriterProofs -------------------------
(***************************************************************************)
(* What holds of LedgerWriter for every number of sessions, callers and    *)
(* events, every threshold, and any number of failures and restarts.       *)
(***************************************************************************)
EXTENDS LedgerWriter, FiniteSetTheorems, SequenceTheorems, WellFoundedInduction, TLAPS

----------------------------------------------------------------------------
(* The operators the writer is built from keep their types. *)

\* The number of unattested segments a restart counts is a natural number.
LEMMA PendingFinite ==
    ASSUME NEW L \in Ledger, NEW s \in Session
    PROVE  Cardinality(PendingSegs(L, s)) \in Nat
<1>1. Len(L.segs[s]) \in Nat
  BY DEF Ledger
<1>2. IsFiniteSet(1 .. Len(L.segs[s]))
  BY <1>1, FS_Interval
<1>3. IsFiniteSet(PendingSegs(L, s))
  BY <1>2, FS_Subset DEF PendingSegs
<1> QED  BY <1>3, FS_CardinalityType

\* A non-empty set of positions has a least one.
LEMMA LeastInType ==
    ASSUME NEW n \in Nat, NEW I \in SUBSET (1 .. n), I # {}
    PROVE  LeastIn(I) \in I
<1> DEFINE R == {ss \in Nat \X Nat : ss[1] < ss[2]}
<1>1. IsWellFoundedOn(R, Nat)
  BY NatLessThanWellFounded DEF OpToRel
<1>2. PICK i \in I : \A j \in I : <<j, i>> \notin R
  <2>1. I \subseteq Nat
    OBVIOUS
  <2> HIDE DEF R
  <2> QED  BY <1>1, <2>1, WFMin
<1>3. ASSUME NEW j \in I
      PROVE  i <= j
  <2>1. <<j, i>> \in Nat \X Nat /\ i \in Nat /\ j \in Nat
    OBVIOUS
  <2>2. ~(j < i)
    BY <1>2, <2>1
  <2> QED  BY <2>1, <2>2
<1> QED  BY <1>3 DEF LeastIn

\* What a restart reads of a session's last segment is a hash and an index.
LEMMA LastSegTypes ==
    ASSUME NEW L \in Ledger, NEW s \in Session
    PROVE  LastSegHash(L, s) \in SegHashes /\ NextSeg(L, s) \in Nat
<1>1. L.segs[s] \in Seq(SegRow)
  BY DEF Ledger
<1>2. CASE L.segs[s] = << >>
  BY <1>2 DEF LastSegHash, NextSeg, Zero, SegHashes
<1>3. CASE L.segs[s] # << >>
  <2>1. L.segs[s][Len(L.segs[s])] \in SegRow
    BY <1>1, <1>3
  <2> QED  BY <1>3, <2>1 DEF LastSegHash, NextSeg, SegRow, Header
<1> QED  BY <1>2, <1>3

\* What a restart reads of the newest checkpoint is a hash.
LEMMA LastCkptType ==
    ASSUME NEW L \in Ledger
    PROVE  LastCkptHash(L) \in CkptHashes
<1>1. L.ckpts \in Seq(CkptRow)
  BY DEF Ledger
<1>2. CASE L.ckpts = << >>
  BY <1>2 DEF LastCkptHash, Zero, CkptHashes
<1>3. CASE L.ckpts # << >>
  <2>1. L.ckpts[Len(L.ckpts)] \in CkptRow
    BY <1>1, <1>3
  <2> QED  BY <1>3, <2>1 DEF LastCkptHash, CheckpointHash, CkptRow, CkptHashes
<1> QED  BY <1>2, <1>3

\* The state of a session the writer has not seen is a chain state.
LEMMA UnknownType == Unknown \in Mem
<1>1. NoGaps \in GapTally
  BY DEF NoGaps, GapTally
<1> QED  BY <1>1 DEF Unknown, Mem, Zero, SegHashes

\* openOrInitSessionLocked loads a chain state from any ledger.
LEMMA LoadedType ==
    ASSUME NEW L \in Ledger, NEW s \in Session
    PROVE  Loaded(L, s) \in Mem
<1> DEFINE P == PendingSegs(L, s)
           oldest == IF P = {} THEN 0 ELSE L.segs[s][LeastIn(P)].header.sealed
<1>1. oldest \in Nat
  <2>1. L.segs[s] \in Seq(SegRow) /\ P \in SUBSET (1 .. Len(L.segs[s]))
    BY DEF Ledger, PendingSegs
  <2> HIDE DEF P
  <2>2. CASE P # {}
    <3> DEFINE n == Len(L.segs[s])
    <3>0. n \in Nat
      BY <2>1
    <3> HIDE DEF n
    <3>1. LeastIn(P) \in 1 .. n
      BY <2>1, <2>2, <3>0, LeastInType DEF n
    <3>2. L.segs[s][LeastIn(P)] \in SegRow
      BY <2>1, <3>1 DEF n
    <3> QED  BY <2>2, <3>2 DEF SegRow, Header
  <2> QED  BY <2>2
<1>2. Cardinality(P) \in Nat
  BY PendingFinite
<1> HIDE DEF P
<1> QED  BY <1>1, <1>2, LastSegTypes, UnknownType DEF Loaded, Mem, Unknown, P

\* The empty tally is a tally.
LEMMA NoGapsType == NoGaps \in GapTally
  BY DEF NoGaps, GapTally

\* Opening the accumulator keeps the type of the chain state.
LEMMA OpenedType ==
    ASSUME NEW m \in Mem, now \in Nat
    PROVE  Opened(m) \in Mem
<1>1. << >> \in Seq(Event) /\ TRUE \in BOOLEAN
  OBVIOUS
<1>2. [m EXCEPT !.open = TRUE, !.firstTs = now, !.leaves = << >>, !.gaps = NoGaps] \in Mem
  BY <1>1, NoGapsType, Zenon DEF Mem
<1> QED  BY <1>2 DEF Opened

\* So does adding an event's leaf to it,
LEMMA AccumulatedType ==
    ASSUME NEW m \in Mem, NEW ev \in Event, NEW rowid \in Nat
    PROVE  Accumulated(m, ev, rowid) \in Mem
<1> DEFINE first  == IF m.first = 0 THEN rowid ELSE m.first
           leaves == Append(m.leaves, Leaf(ev))
           gaps   == Tallied(m.gaps, ev.gap)
<1>1. m.leaves \in Seq(Event) /\ m.gaps \in GapTally
  BY DEF Mem
<1>2. ev.gap # NoGap => [m.gaps EXCEPT ![ev.gap] = @ + 1] \in GapTally
  BY <1>1 DEF GapTally, Event
<1>3. first \in Nat /\ leaves \in Seq(Event) /\ gaps \in GapTally
  BY <1>1, <1>2 DEF Mem, Leaf, Tallied
<1>4. Accumulated(m, ev, rowid) =
          [m EXCEPT !.first = first, !.last = rowid, !.leaves = leaves, !.gaps = gaps]
  BY DEF Accumulated
<1> HIDE DEF first, leaves, gaps
<1>5. [m EXCEPT !.first = first, !.last = rowid, !.leaves = leaves, !.gaps = gaps] \in Mem
  BY <1>3, Zenon DEF Mem
<1> QED  BY <1>4, <1>5

\* sealing its segment,
LEMMA SealedType ==
    ASSUME NEW m \in Mem, NEW hash \in SegHashes, now \in Nat
    PROVE  Sealed(m, hash) \in Mem
<1>1. /\ m.pending + 1 \in Nat /\ m.segIndex + 1 \in Nat /\ 0 \in Nat
      /\ TRUE \in BOOLEAN /\ FALSE \in BOOLEAN
      /\ (IF m.haveOldest THEN m.oldest ELSE now) \in Nat
      /\ << >> \in Seq(Event)
  BY DEF Mem
<1> QED  BY <1>1, NoGapsType, Zenon DEF Sealed, Mem

\* and signing its pending segments.
LEMMA AttestingType ==
    ASSUME NEW m \in Mem
    PROVE  Attesting(m) \in Mem
  BY DEF Attesting, Mem

\* maybeSealLocked builds a segment header.
LEMMA HeaderType ==
    ASSUME NEW s \in Session, NEW m \in Mem, now \in Nat
    PROVE  NewHeader(s, m) \in Header
  BY DEF NewHeader, Header, Mem, MerkleRoot

\* maybeCheckpointLocked builds a checkpoint body.
LEMMA BodyType ==
    ASSUME NEW s \in Session, NEW m \in Mem, now \in Nat
    PROVE  NewBody(s, m) \in Body
  BY DEF NewBody, Body, Mem

\* A ledger stays one when a row is inserted,
LEMMA InsertedType ==
    ASSUME NEW L \in Ledger, NEW s \in Session, NEW seg \in Nat, NEW ev \in Event
    PROVE  Inserted(L, s, seg, ev) \in Ledger
<1> DEFINE row == [rowid |-> L.lastRow + 1, seg |-> seg, ev |-> ev]
<1>1. row \in Row
  BY DEF Ledger, Row
<1> HIDE DEF row
<1>2. L.rows[s] \in Seq(Row)
  BY DEF Ledger
<1>3. Append(L.rows[s], row) \in Seq(Row)
  BY <1>1, <1>2
<1>4. [L.rows EXCEPT ![s] = Append(@, row)] \in [Session -> Seq(Row)]
  BY <1>3 DEF Ledger
<1>5. L.lastRow + 1 \in Nat
  BY DEF Ledger
<1>6. [L EXCEPT !.lastRow = @ + 1, !.rows[s] = Append(@, row)] \in Ledger
  BY <1>4, <1>5, Zenon DEF Ledger
<1> QED  BY <1>6 DEF Inserted, row

\* when a segment is,
LEMMA SegAddedType ==
    ASSUME NEW L \in Ledger, NEW s \in Session, NEW seg \in SegRow
    PROVE  [L EXCEPT !.segs[s] = Append(@, seg)] \in Ledger
<1>1. L.segs[s] \in Seq(SegRow)
  BY DEF Ledger
<1>2. Append(L.segs[s], seg) \in Seq(SegRow)
  BY <1>1
<1>3. [L.segs EXCEPT ![s] = Append(@, seg)] \in [Session -> Seq(SegRow)]
  BY <1>2 DEF Ledger
<1> QED  BY <1>3 DEF Ledger

\* and when a checkpoint is.
LEMMA CkptAddedType ==
    ASSUME NEW L \in Ledger, NEW c \in CkptRow
    PROVE  [L EXCEPT !.ckpts = Append(@, c)] \in Ledger
<1>1. Append(L.ckpts, c) \in Seq(CkptRow)
  BY DEF Ledger
<1> QED  BY <1>1 DEF Ledger

----------------------------------------------------------------------------
(* Type correctness and the control state *)

CtlInv == TypeOK /\ ControlOK

\* A writer on a new database has its types and its control state.
LEMMA InitCtl == Init => CtlInv
<1> SUFFICES ASSUME Init PROVE CtlInv
  OBVIOUS
<1>1. EmptyLedger \in Ledger
  BY DEF EmptyLedger, Ledger
<1>2. mem \in [Session -> Mem]
  BY UnknownType DEF Init
<1>3. << >> \in Seq(Event) /\ << >> \in Seq(HeadReport) /\ Zero \in CkptHashes /\ Len(<< >>) = 0
  BY DEF Zero, CkptHashes
<1>4. TypeOK
  <2>1. /\ sending = {} /\ acked = {} /\ queue = << >> /\ batch = << >> /\ heads = << >>
        /\ at = 1 /\ touched = {} /\ after = "loop" /\ why = "event" /\ pc = "select"
        /\ cur = NoSession /\ req = NoSession /\ sealRes = "none" /\ closed = FALSE
        /\ ckptHash = Zero /\ commitErr = FALSE /\ db = EmptyLedger /\ tx = EmptyLedger
        /\ now = 0 /\ nextId = 0 /\ errors = 0 /\ crashes = 0 /\ seals = 0
        /\ rolledBack = FALSE /\ tainted = FALSE /\ raced = {} /\ failed = {} /\ gone = {}
    BY DEF Init
  <2>2. /\ sending \subseteq Event /\ acked \subseteq Event /\ touched \subseteq Session
        /\ raced \subseteq Event /\ failed \subseteq Event /\ gone \subseteq Event
        /\ queue \in Seq(Event) /\ batch \in Seq(Event) /\ heads \in Seq(HeadReport)
    BY <1>3, <2>1
  <2>3. Len(queue) <= QueueCap /\ Len(batch) <= BatchMax /\ at \in 1 .. Len(batch) + 1
    BY <1>3, <2>1, WriterAssumption
  <2> QED  BY <1>1, <1>2, <1>3, <2>1, <2>2, <2>3 DEF TypeOK
<1>5. ControlOK
  BY WriterAssumption DEF Init, ControlOK
<1> QED  BY <1>4, <1>5 DEF CtlInv

\* What drainQueue takes are events, as many as it was asked for.
LEMMA TakenType ==
    ASSUME queue \in Seq(Event), batch \in Seq(Event), NEW n \in 0 .. Len(queue)
    PROVE  /\ Taken(n) \in Seq(Event)
           /\ Len(Taken(n)) = Len(batch) + n
           /\ SubSeq(queue, n + 1, Len(queue)) \in Seq(Event)
           /\ Len(SubSeq(queue, n + 1, Len(queue))) = Len(queue) - n
  BY DEF Taken

\* The chain state a transaction works on has its type.
LEMMA StateOfType ==
    ASSUME TypeOK, NEW s \in Session
    PROVE  StateOf(tx, s) \in Mem
  BY LoadedType DEF StateOf, TypeOK

\* Whatever follows a batch finds the goroutine in a legal control state.
LEMMA FinishBatchCtl ==
    ASSUME CtlInv, FinishBatch, UNCHANGED <<req, queue>>
    PROVE  /\ batch' \in Seq(Event) /\ at' \in 1 .. Len(batch') + 1 /\ touched' \subseteq Session
           /\ after' = "loop" /\ why' = "event" /\ cur' = NoSession /\ batch' = << >>
           /\ pc' \in {"select", "force", "exited"}
           /\ pc' = "force" => req' \in Session
  BY DEF FinishBatch, Idle, After, CtlInv, TypeOK, ControlOK

\* Every step of the writer keeps its types and its control state.
LEMMA NextCtl == CtlInv /\ [Next]_vars => CtlInv'
<1> SUFFICES ASSUME CtlInv, [Next]_vars PROVE CtlInv'
  OBVIOUS
<1> USE WriterAssumption DEF CtlInv
<1>1. ASSUME NEW s \in Session, NEW g \in GapReason \cup {NoGap}, BeginAppend(s, g)
      PROVE  CtlInv'
  <2>1. [id |-> nextId, session |-> s, gap |-> g] \in Event /\ nextId + 1 \in Nat
    BY DEF TypeOK, Event
  <2> QED  BY <1>1, <2>1 DEF BeginAppend, TypeOK, ControlOK, loopVars, sealVars, memVars,
                durable, faultVars
<1>2. ASSUME NEW ev \in sending, Enqueue(ev)
      PROVE  CtlInv'
  <2>1. ev \in Event /\ Append(queue, ev) \in Seq(Event)
        /\ Len(Append(queue, ev)) <= QueueCap
    BY <1>2 DEF TypeOK, Enqueue
  <2> QED  BY <1>2, <2>1 DEF Enqueue, TypeOK, ControlOK, loopVars, sealVars, memVars,
                durable, faultVars
<1>3. ASSUME NEW ev \in sending, RefuseClosed(ev)
      PROVE  CtlInv'
  BY <1>3 DEF RefuseClosed, TypeOK, ControlOK, loopVars, sealVars, memVars, durable,
       faultVars
<1>4. CASE Close
  BY <1>4 DEF Close, TypeOK, ControlOK, callerVars, loopVars, sealVars, memVars, durable,
       faultVars
<1>5. CASE Receive
  <2> DEFINE b == Append(batch, Head(queue))
  <2>1. /\ Head(queue) \in Event /\ Tail(queue) \in Seq(Event)
        /\ Len(Tail(queue)) <= QueueCap
        /\ b \in Seq(Event) /\ Len(b) = Len(batch) + 1
        /\ Len(batch) < BatchMax
    BY <1>5 DEF Receive, TypeOK, ControlOK
  <2> HIDE DEF b
  <2>2. /\ queue' = Tail(queue) /\ batch' = b /\ pc = "select" /\ why # "force"
        /\ UNCHANGED <<callerVars, closed, cur, why, sealVars, memVars, durable, tx, now,
                       faultVars>>
    BY <1>5 DEF Receive, StartBatch, b, ControlOK
  <2>3. CASE Len(b) >= BatchMax
    <3>1. at' = 1 /\ touched' = {} /\ pc' = "row" /\ after' = "loop"
      BY <1>5, <2>3 DEF Receive, StartBatch, b
    <3> QED  BY <2>1, <2>2, <3>1 DEF TypeOK, ControlOK, callerVars, sealVars, memVars,
                  durable, faultVars
  <2>4. CASE ~(Len(b) >= BatchMax)
    <3>1. UNCHANGED <<at, touched, pc, after>>
      BY <1>5, <2>4 DEF Receive, StartBatch, b
    <3> QED  BY <2>1, <2>2, <2>4, <3>1 DEF TypeOK, ControlOK, callerVars, sealVars, memVars,
                  durable, faultVars
  <2> QED  BY <2>3, <2>4
<1>6. CASE TimerFlush
  <2> DEFINE n == TopUp
  <2>1. n \in 0 .. Len(queue) /\ Len(batch) + n <= BatchMax
    BY <1>6 DEF TimerFlush, TopUp, TypeOK, ControlOK
  <2> HIDE DEF n
  <2>2. queue \in Seq(Event) /\ batch \in Seq(Event)
    BY DEF TypeOK
  <2>3. /\ batch' = Taken(n) /\ at' = 1 /\ touched' = {} /\ pc' = "row" /\ after' = "loop"
        /\ queue' = SubSeq(queue, n + 1, Len(queue)) /\ why # "force" /\ pc = "select"
        /\ UNCHANGED <<callerVars, closed, cur, why, sealVars, memVars, durable, tx, now,
                       faultVars>>
    BY <1>6 DEF TimerFlush, StartBatch, n, ControlOK
  <2> QED  BY <2>1, <2>2, <2>3, TakenType DEF TypeOK, ControlOK, callerVars, sealVars,
                memVars, durable, faultVars
<1>7. ASSUME NEW s \in Session, ServeSeal(s)
      PROVE  CtlInv'
  <2> DEFINE n == Len(queue)
  <2>1. n \in 0 .. Len(queue) /\ queue \in Seq(Event) /\ batch \in Seq(Event)
        /\ seals + 1 \in Nat /\ pc = "select" /\ why # "force"
    BY <1>7 DEF TypeOK, ControlOK, ServeSeal
  <2> HIDE DEF n
  <2>2. Taken(n) \in Seq(Event) /\ Len(Taken(n)) \in Nat
    BY <2>1, TakenType
  <2>3. CASE batch = << >> /\ queue = << >>
    BY <1>7, <2>1, <2>3 DEF ServeSeal, After, TypeOK, ControlOK, callerVars, memVars, durable,
         faultVars
  <2>4. CASE ~(batch = << >> /\ queue = << >>)
    BY <1>7, <2>1, <2>2, <2>4 DEF ServeSeal, StartBatch, n, TypeOK, ControlOK, callerVars,
         memVars, durable, faultVars
  <2> QED  BY <2>3, <2>4
<1>8. CASE Drain
  <2> DEFINE n == Len(queue)
  <2>1. n \in 0 .. Len(queue) /\ queue \in Seq(Event) /\ batch \in Seq(Event)
        /\ pc = "select" /\ why # "force"
    BY <1>8 DEF TypeOK, ControlOK, Drain
  <2> HIDE DEF n
  <2>2. Taken(n) \in Seq(Event) /\ Len(Taken(n)) \in Nat
    BY <2>1, TakenType
  <2>3. CASE batch = << >> /\ queue = << >>
    BY <1>8, <2>1, <2>3 DEF Drain, After, TypeOK, ControlOK, callerVars, sealVars, memVars,
         durable, faultVars
  <2>4. CASE ~(batch = << >> /\ queue = << >>)
    BY <1>8, <2>1, <2>2, <2>4 DEF Drain, StartBatch, n, TypeOK, ControlOK, callerVars,
         sealVars, memVars, durable, faultVars
  <2> QED  BY <2>3, <2>4
<1>9. CASE OpenRow
  <2> DEFINE s == batch[at].session
  <2>1. at \in 1 .. Len(batch) /\ batch[at] \in Event /\ s \in Session /\ why # "force"
    <3>1. batch \in Seq(Event) /\ at \in 1 .. Len(batch) /\ why # "force"
      BY <1>9 DEF OpenRow, TypeOK, ControlOK
    <3>2. batch[at] \in Event
      BY <3>1
    <3> QED  BY <3>1, <3>2 DEF Event
  <2> HIDE DEF s
  <2>2. Opened(StateOf(tx, s)) \in Mem
    BY <2>1, StateOfType, OpenedType DEF TypeOK
  <2>3. tx' \in Ledger
    BY <1>9, <2>1 DEF OpenRow, TypeOK, s, Ledger
  <2>4. mem' \in [Session -> Mem]
    BY <1>9, <2>1, <2>2 DEF OpenRow, TypeOK, s
  <2>5. TypeOK'
    <3>1. /\ pc' = "insert" /\ cur' = s
          /\ UNCHANGED <<callerVars, queue, closed, batch, at, touched, why, after, sealVars,
                         ckptHash, commitErr, durable, now, faultVars>>
      BY <1>9 DEF OpenRow, s
    <3> QED  BY <2>1, <2>3, <2>4, <3>1 DEF TypeOK, callerVars, sealVars, durable, faultVars
  <2>6. ControlOK'
    <3>1. /\ pc = "row" /\ pc' = "insert" /\ cur' = s /\ at <= Len(batch)
          /\ UNCHANGED <<batch, at, why, after, req>>
      BY <1>9 DEF OpenRow, s, sealVars
    <3> QED  BY <2>1, <3>1 DEF ControlOK
  <2> QED  BY <2>5, <2>6
<1>10. CASE InsertRow
  <2>1. at \in 1 .. Len(batch) /\ batch[at] \in Event /\ cur \in Session
        /\ mem[cur] \in Mem /\ tx.lastRow + 1 \in Nat
    <3>1. batch \in Seq(Event) /\ at \in 1 .. Len(batch) /\ cur \in Session
      BY <1>10 DEF InsertRow, TypeOK, ControlOK
    <3>2. batch[at] \in Event
      BY <3>1
    <3>3. mem \in [Session -> Mem] /\ tx.lastRow \in Nat
      BY DEF TypeOK, Ledger
    <3> QED  BY <3>1, <3>2, <3>3
  <2>2. tx' \in Ledger
    BY <1>10, <2>1, InsertedType DEF InsertRow, TypeOK, Mem
  <2>3. mem' \in [Session -> Mem]
    BY <1>10, <2>1, AccumulatedType DEF InsertRow, TypeOK
  <2> QED  BY <1>10, <2>1, <2>2, <2>3 DEF InsertRow, TypeOK, ControlOK, callerVars, sealVars,
                durable, faultVars
<1>11. ASSUME NEW s \in Session, FinalPass(s)
       PROVE  CtlInv'
  BY <1>11 DEF FinalPass, TypeOK, ControlOK, callerVars, sealVars, memVars, durable, faultVars
<1>12. CASE EndBatch
  BY <1>12 DEF EndBatch, TypeOK, ControlOK, callerVars, loopVars, sealVars, memVars, durable,
       faultVars
<1>13. CASE OpenForced
  <2>1. req \in Session /\ batch = << >>
    BY <1>13 DEF OpenForced, ControlOK
  <2>2. StateOf(tx, req) \in Mem
    BY <2>1, StateOfType
  <2>3. tx' \in Ledger
    BY <1>13, <2>1 DEF OpenForced, TypeOK, Ledger
  <2>4. mem' \in [Session -> Mem]
    BY <1>13, <2>1, <2>2 DEF OpenForced, TypeOK
  <2> QED  BY <1>13, <2>1, <2>3, <2>4 DEF OpenForced, TypeOK, ControlOK, callerVars, sealVars,
                durable, faultVars
<1>14. CASE SkipSeal
  BY <1>14 DEF SkipSeal, Return, TypeOK, ControlOK, callerVars, loopVars, sealVars, memVars,
       durable, faultVars
<1>15. CASE SealSegment
  <2>1. cur \in Session /\ mem[cur] \in Mem
    BY <1>15 DEF SealSegment, TypeOK, ControlOK
  <2> DEFINE h    == NewHeader(cur, mem[cur])
             hash == SegHash(mem[cur].prev, h)
  <2>2. h \in Header /\ hash \in SegHashes /\ mem[cur].prev \in SegHashes
    BY <2>1, HeaderType DEF SegHash, SegHashes, Mem, TypeOK
  <2>3. /\ tx' = [tx EXCEPT !.segs[cur] =
                        Append(@, [header |-> h, prev |-> mem[cur].prev, hash |-> hash])]
        /\ mem' = [mem EXCEPT ![cur] = Sealed(mem[cur], hash)]
    BY <1>15 DEF SealSegment
  <2> HIDE DEF h, hash
  <2>4. tx' \in Ledger
    <3>1. [header |-> h, prev |-> mem[cur].prev, hash |-> hash] \in SegRow
      BY <2>2 DEF SegRow
    <3> QED  BY <2>1, <2>3, <3>1, SegAddedType DEF TypeOK
  <2>5. mem' \in [Session -> Mem]
    BY <2>1, <2>2, <2>3, SealedType DEF TypeOK
  <2>6. /\ pc = "seal" /\ pc' = "ckpt"
        /\ UNCHANGED <<callerVars, queue, closed, loopVars, sealVars, ckptHash, commitErr,
                       durable, now, faultVars>>
    BY <1>15 DEF SealSegment
  <2>7. TypeOK'
    BY <2>4, <2>5, <2>6 DEF TypeOK, callerVars, loopVars, sealVars, durable, faultVars
  <2>8. ControlOK'
    BY <2>6 DEF ControlOK, loopVars, sealVars
  <2> QED  BY <2>7, <2>8
<1>16. CASE SkipCheckpoint
  BY <1>16 DEF SkipCheckpoint, Return, TypeOK, ControlOK, callerVars, loopVars, sealVars,
       memVars, durable, faultVars
<1>17. CASE WriteCheckpoint
  <2> DEFINE m == mem[cur]
             b == NewBody(cur, m)
  <2>1. cur \in Session /\ m \in Mem /\ ckptHash \in CkptHashes
    BY <1>17 DEF WriteCheckpoint, TypeOK, ControlOK
  <2>2. tx' \in Ledger /\ b \in Body
    <3>1. b \in Body
      BY <2>1, BodyType DEF TypeOK
    <3> HIDE DEF b
    <3>2. [body |-> b, prev |-> ckptHash] \in CkptRow
      BY <2>1, <3>1 DEF CkptRow
    <3>3. tx' = [tx EXCEPT !.ckpts = Append(@, [body |-> b, prev |-> ckptHash])]
      BY <1>17 DEF WriteCheckpoint, b
    <3> QED  BY <3>1, <3>2, <3>3, CkptAddedType DEF TypeOK
  <2>3. CheckpointHash(ckptHash, b) \in CkptHashes
    BY <2>1, <2>2 DEF CheckpointHash, CkptHashes
  <2>4. mem' \in [Session -> Mem]
    BY <1>17, <2>1, AttestingType DEF WriteCheckpoint, TypeOK
  <2>5. Report(cur, m, CheckpointHash(ckptHash, b)) \in HeadReport
    BY <2>1, <2>3 DEF Report, HeadReport, Mem
  <2> HIDE DEF m, b
  <2>6. heads' \in Seq(HeadReport) /\ ckptHash' \in CkptHashes
    BY <1>17, <2>3, <2>5 DEF WriteCheckpoint, NextCkptHash, TypeOK, m, b
  <2>7. /\ pc = "ckpt" /\ pc' = Return
        /\ UNCHANGED <<callerVars, queue, closed, loopVars, sealVars, commitErr, db, now,
                       faultVars>>
    BY <1>17 DEF WriteCheckpoint
  <2>8. TypeOK'
    BY <2>2, <2>4, <2>6, <2>7 DEF Return, TypeOK, callerVars, loopVars, sealVars, faultVars
  <2>9. ControlOK'
    BY <2>7 DEF Return, ControlOK, loopVars, sealVars
  <2> QED  BY <2>8, <2>9
<1>18. CASE CommitBatch
  BY <1>18, FinishBatchCtl DEF CommitBatch, TypeOK, ControlOK, callerVars, sealVars, memVars
<1>19. CASE CommitForced
  BY <1>19 DEF CommitForced, Idle, TypeOK, ControlOK, callerVars, memVars
<1>20. CASE BatchFails
  BY <1>20, FinishBatchCtl DEF BatchFails, Rollback, RecordError, TypeOK, ControlOK,
       callerVars, sealVars, durable
<1>21. CASE ForcedFails
  BY <1>21 DEF ForcedFails, Forcing, Rollback, Idle, TypeOK, ControlOK, callerVars, memVars,
       durable
<1>22. CASE Crash
  <2>1. mem' \in [Session -> Mem] /\ ckptHash' \in CkptHashes
    BY <1>22, UnknownType DEF Crash, Forgotten, Zero, CkptHashes
  <2>2. acked' \subseteq Event /\ raced' \subseteq Event /\ failed' \subseteq Event
        /\ gone' \subseteq Event
    BY <1>22 DEF Crash, TypeOK
  <2>3. /\ << >> \in Seq(Event) /\ Len(<< >>) = 0 /\ crashes + 1 \in Nat
        /\ sending' = {} /\ queue' = << >> /\ batch' = << >> /\ at' = 1 /\ touched' = {}
        /\ pc' = "down" /\ tx' = db /\ cur' = NoSession /\ why' = "event" /\ after' = "loop"
        /\ req' = NoSession /\ sealRes' = "none" /\ commitErr' = FALSE /\ rolledBack' = FALSE
        /\ crashes' = crashes + 1
        /\ UNCHANGED <<nextId, closed, seals, durable, now, tainted, errors>>
    BY <1>22 DEF Crash, Forgotten, Idle, TypeOK
  <2>4. TypeOK'
    <3>1. /\ sending' \subseteq Event /\ touched' \subseteq Session
          /\ queue' \in Seq(Event) /\ batch' \in Seq(Event)
      BY <2>3
    <3>2. Len(queue') <= QueueCap /\ Len(batch') <= BatchMax /\ at' \in 1 .. Len(batch') + 1
      BY <2>3
    <3> QED  BY <2>1, <2>2, <2>3, <3>1, <3>2 DEF TypeOK, durable
  <2>5. ControlOK'
    BY <2>3 DEF ControlOK
  <2> QED  BY <2>4, <2>5
<1>23. CASE Restart
  <2>1. ckptHash' \in CkptHashes
    BY <1>23, LastCkptType DEF Restart, TypeOK
  <2>2. batch = << >> /\ Len(<< >>) = 0 /\ why # "force"
    BY <1>23 DEF Restart, ControlOK
  <2>3. TypeOK'
    <3>1. /\ pc' \in {"select", "row", "insert", "force", "seal", "ckpt", "commit", "exited", "down"}
          /\ closed' \in BOOLEAN /\ mem' \in [Session -> Mem]
      BY <1>23 DEF Restart, TypeOK
    <3> QED  BY <1>23, <2>1, <3>1 DEF Restart, TypeOK, callerVars, loopVars, sealVars, durable, faultVars
  <2>4. ControlOK'
    BY <1>23, <2>2 DEF Restart, ControlOK, loopVars, sealVars
  <2> QED  BY <2>3, <2>4
<1>24. CASE Tick
  BY <1>24 DEF Tick, TypeOK, ControlOK, callerVars, loopVars, sealVars, memVars, durable,
       faultVars
<1>25. CASE UNCHANGED vars
  BY <1>25 DEF vars, TypeOK, ControlOK, callerVars, loopVars, sealVars, memVars, durable,
       faultVars
<1> QED  BY <1>1, <1>2, <1>3, <1>4, <1>5, <1>6, <1>7, <1>8, <1>9, <1>10, <1>11, <1>12, <1>13,
            <1>14, <1>15, <1>16, <1>17, <1>18, <1>19, <1>20, <1>21, <1>22, <1>23, <1>24, <1>25
         DEF Next, Callers, Select, Transaction, Faults

\* Every variable keeps its type, and a commit cut by the loop itself holds at
\* most groupCommitMaxEvents events, whatever the thresholds and the faults.
THEOREM TypeCorrect == Spec => []TypeOK
<1>1. CtlInv => TypeOK
  BY DEF CtlInv
<1> QED  BY <1>1, InitCtl, NextCtl, PTL DEF Spec

----------------------------------------------------------------------------
(* The append-only ledger *)

\* A table that is left alone has grown by nothing.
LEMMA GrownRefl ==
    ASSUME NEW S, NEW u \in Seq(S)
    PROVE  AppendOnly!Grown(u, u)
  BY DEF AppendOnly!Grown

\* A table one row was appended to has grown.
LEMMA GrownAppend ==
    ASSUME NEW S, NEW u \in Seq(S), NEW v \in Seq(S), NEW e \in S, AppendOnly!Grown(u, v)
    PROVE  /\ AppendOnly!Grown(u, Append(v, e))
           /\ Len(Append(v, e)) = Len(v) + 1
           /\ Append(v, e)[Len(v) + 1] = e
           /\ \A i \in 1 .. Len(v) : Append(v, e)[i] = v[i]
  BY DEF AppendOnly!Grown

\* An empty transaction is a step of the append-only ledger.
LEMMA StepRefl ==
    ASSUME NEW L \in Ledger
    PROVE  AppendOnly!Step(L, L)
<1>1. AppendOnly!Extends(L, L)
  BY DEF AppendOnly!Extends, AppendOnly!Grown, Ledger
<1>2. AppendOnly!RowsFresh(L, L) /\ AppendOnly!CkptsBacked(L, L)
  <2>1. /\ L.ckpts \in Seq(CkptRow)
        /\ \A s \in Session : L.rows[s] \in Seq(Row)
    BY DEF Ledger
  <2> QED  BY <2>1 DEF AppendOnly!RowsFresh, AppendOnly!CkptsBacked
<1> QED  BY <1>1, <1>2 DEF AppendOnly!Step

\* A transaction stays a step when it names a session, ...
LEMMA StepSession ==
    ASSUME NEW L \in Ledger, NEW M \in Ledger, NEW s \in Session, AppendOnly!Step(L, M)
    PROVE  AppendOnly!Step(L, [M EXCEPT !.sessions = @ \cup {s}])
<1> DEFINE N == [M EXCEPT !.sessions = @ \cup {s}]
<1>1. /\ N.sessions = M.sessions \cup {s} /\ N.lastRow = M.lastRow /\ N.rows = M.rows
      /\ N.segs = M.segs /\ N.ckpts = M.ckpts
  BY DEF Ledger
<1> HIDE DEF N
<1>2. AppendOnly!Extends(L, M) /\ AppendOnly!RowsFresh(L, M) /\ AppendOnly!CkptsBacked(L, M)
  BY DEF AppendOnly!Step
<1>3. AppendOnly!Extends(L, N)
  BY <1>1, <1>2 DEF AppendOnly!Extends
<1>4. AppendOnly!RowsFresh(L, N)
  BY <1>1, <1>2 DEF AppendOnly!RowsFresh
<1>5. AppendOnly!CkptsBacked(L, N)
  BY <1>1, <1>2 DEF AppendOnly!CkptsBacked, AppendOnly!Signs
<1> QED  BY <1>3, <1>4, <1>5 DEF AppendOnly!Step, N

\* ... inserts a row, ...
LEMMA StepRow ==
    ASSUME NEW L \in Ledger, NEW M \in Ledger, NEW s \in Session, NEW seg \in Nat,
           NEW ev \in Event, AppendOnly!Step(L, M)
    PROVE  AppendOnly!Step(L, Inserted(M, s, seg, ev))
<1> DEFINE N == Inserted(M, s, seg, ev)
           row == [rowid |-> M.lastRow + 1, seg |-> seg, ev |-> ev]
<1>1. /\ N.sessions = M.sessions /\ N.lastRow = M.lastRow + 1
      /\ N.segs = M.segs /\ N.ckpts = M.ckpts
      /\ N.rows = [M.rows EXCEPT ![s] = Append(@, row)]
  BY DEF Ledger, Inserted
<1>2. row \in Row /\ row.rowid = M.lastRow + 1
  BY DEF Row, Ledger
<1> HIDE DEF N, row
<1>3. /\ L.lastRow \in Nat /\ M.lastRow \in Nat /\ L.lastRow <= M.lastRow
      /\ L.sessions \subseteq M.sessions
      /\ \A t \in Session : /\ L.rows[t] \in Seq(Row) /\ M.rows[t] \in Seq(Row)
                              /\ AppendOnly!Grown(L.rows[t], M.rows[t])
                              /\ AppendOnly!Grown(L.segs[t], M.segs[t])
      /\ AppendOnly!Grown(L.ckpts, M.ckpts)
  BY DEF AppendOnly!Step, AppendOnly!Extends, Ledger
<1>4. ASSUME NEW t \in Session
      PROVE  N.rows[t] = IF t = s THEN Append(M.rows[s], row) ELSE M.rows[t]
  BY <1>1 DEF Ledger
<1>5. AppendOnly!Extends(L, N)
  <2>1. ASSUME NEW t \in Session
        PROVE  AppendOnly!Grown(L.rows[t], N.rows[t])
    BY <1>2, <1>3, <1>4, GrownAppend
  <2> QED  BY <1>1, <1>3, <2>1 DEF AppendOnly!Extends
<1>6. AppendOnly!RowsFresh(L, N)
  <2> SUFFICES ASSUME NEW t \in Session, NEW i \in Len(L.rows[t]) + 1 .. Len(N.rows[t])
               PROVE  L.lastRow < N.rows[t][i].rowid /\ N.rows[t][i].rowid <= N.lastRow
    BY DEF AppendOnly!RowsFresh
  <2> DEFINE u == M.rows[t]
             A == Append(M.rows[s], row)
  <2>1. /\ Len(L.rows[t]) \in Nat /\ Len(u) \in Nat /\ Len(L.rows[t]) <= Len(u)
        /\ \A k \in Len(L.rows[t]) + 1 .. Len(u) :
              u[k] \in Row /\ L.lastRow < u[k].rowid /\ u[k].rowid <= M.lastRow
    BY <1>3 DEF AppendOnly!Step, AppendOnly!RowsFresh, AppendOnly!Grown
  <2>2. /\ Len(A) = Len(M.rows[s]) + 1 /\ A[Len(M.rows[s]) + 1] = row
        /\ \A k \in 1 .. Len(M.rows[s]) : A[k] = M.rows[s][k]
    BY <1>2, <1>3
  <2>3. N.rows[t] = IF t = s THEN A ELSE u
    BY <1>4
  <2> HIDE DEF A, u
  <2>4. CASE i \in Len(L.rows[t]) + 1 .. Len(u)
    <3>1. N.rows[t][i] = u[i]
      BY <2>1, <2>2, <2>3, <2>4 DEF u
    <3>2. u[i].rowid \in Nat /\ L.lastRow < u[i].rowid /\ u[i].rowid <= M.lastRow
      BY <2>1, <2>4 DEF Row
    <3>3. M.lastRow \in Nat /\ N.lastRow = M.lastRow + 1
      BY <1>1, <1>3
    <3>4. u[i].rowid <= N.lastRow
      BY <3>2, <3>3
    <3> QED  BY <3>1, <3>2, <3>4
  <2>5. CASE i \notin Len(L.rows[t]) + 1 .. Len(u)
    <3>1. t = s
      BY <2>3, <2>5
    <3>2. u = M.rows[s] /\ N.rows[t] = A
      BY <2>3, <3>1 DEF u
    <3>3. i = Len(M.rows[s]) + 1
      <4>1. Len(A) = Len(u) + 1
        BY <2>2, <3>2
      <4>2. i \in Len(L.rows[t]) + 1 .. Len(A)
        BY <3>2
      <4> QED  BY <2>1, <2>5, <3>2, <4>1, <4>2
    <3>4. N.rows[t][i] = row
      BY <2>2, <3>2, <3>3
    <3>5. L.lastRow \in Nat /\ M.lastRow \in Nat /\ L.lastRow <= M.lastRow
          /\ row.rowid = M.lastRow + 1 /\ N.lastRow = M.lastRow + 1
      BY <1>1, <1>2, <1>3
    <3> QED  BY <3>4, <3>5
  <2> QED  BY <2>4, <2>5
<1>7. AppendOnly!CkptsBacked(L, N)
  <2>1. AppendOnly!CkptsBacked(L, M)
    BY DEF AppendOnly!Step
  <2>2. N.ckpts = M.ckpts /\ N.segs = M.segs
    BY <1>1
  <2>3. \A c : AppendOnly!Signs(M, c) => AppendOnly!Signs(N, c)
    BY <2>2 DEF AppendOnly!Signs
  <2> QED  BY <2>1, <2>2, <2>3 DEF AppendOnly!CkptsBacked
<1> QED  BY <1>5, <1>6, <1>7 DEF AppendOnly!Step, N

\* ... inserts a segment, ...
LEMMA StepSegment ==
    ASSUME NEW L \in Ledger, NEW M \in Ledger, NEW s \in Session, NEW seg \in SegRow,
           AppendOnly!Step(L, M)
    PROVE  AppendOnly!Step(L, [M EXCEPT !.segs[s] = Append(@, seg)])
<1> DEFINE N == [M EXCEPT !.segs[s] = Append(@, seg)]
<1>1. /\ N.sessions = M.sessions /\ N.lastRow = M.lastRow /\ N.rows = M.rows
      /\ N.ckpts = M.ckpts /\ N.segs = [M.segs EXCEPT ![s] = Append(@, seg)]
  BY DEF Ledger
<1> HIDE DEF N
<1>2. /\ L.lastRow <= M.lastRow /\ L.sessions \subseteq M.sessions
      /\ \A t \in Session : /\ L.segs[t] \in Seq(SegRow) /\ M.segs[t] \in Seq(SegRow)
                              /\ AppendOnly!Grown(L.rows[t], M.rows[t])
                              /\ AppendOnly!Grown(L.segs[t], M.segs[t])
      /\ AppendOnly!Grown(L.ckpts, M.ckpts)
  BY DEF AppendOnly!Step, AppendOnly!Extends, Ledger
<1>3. ASSUME NEW t \in Session
      PROVE  N.segs[t] = IF t = s THEN Append(M.segs[s], seg) ELSE M.segs[t]
  BY <1>1 DEF Ledger
<1>4. AppendOnly!Extends(L, N)
  <2>1. ASSUME NEW t \in Session
        PROVE  AppendOnly!Grown(L.segs[t], N.segs[t])
    BY <1>2, <1>3, GrownAppend
  <2> QED  BY <1>1, <1>2, <2>1 DEF AppendOnly!Extends
<1>5. AppendOnly!RowsFresh(L, N)
  <2>1. AppendOnly!RowsFresh(L, M)
    BY DEF AppendOnly!Step
  <2> QED  BY <1>1, <2>1 DEF AppendOnly!RowsFresh
<1>6. ASSUME NEW c, c.body.session \in Session, AppendOnly!Signs(M, c)
      PROVE  AppendOnly!Signs(N, c)
  <2> DEFINE t == c.body.session
  <2>1. AppendOnly!Grown(M.segs[t], N.segs[t])
    BY <1>2, <1>3, <1>6, GrownAppend, GrownRefl
  <2>2. Len(M.segs[t]) \in Nat /\ Len(N.segs[t]) \in Nat
    BY <1>2, <1>3, <1>6
  <2>3. PICK k \in 1 .. Len(M.segs[t]) :
           M.segs[t][k].header.seg = c.body.segLast /\ M.segs[t][k].hash = c.body.head
    BY <1>6 DEF AppendOnly!Signs
  <2>4. k \in 1 .. Len(N.segs[t]) /\ N.segs[t][k] = M.segs[t][k]
    BY <2>1, <2>2 DEF AppendOnly!Grown
  <2> QED  BY <2>3, <2>4 DEF AppendOnly!Signs
<1>7. AppendOnly!CkptsBacked(L, N)
  <2> SUFFICES ASSUME NEW i \in Len(L.ckpts) + 1 .. Len(M.ckpts)
               PROVE  AppendOnly!Signs(N, M.ckpts[i])
    BY <1>1 DEF AppendOnly!CkptsBacked
  <2>1. AppendOnly!Signs(M, M.ckpts[i])
    BY DEF AppendOnly!Step, AppendOnly!CkptsBacked
  <2>2. M.ckpts \in Seq(CkptRow) /\ Len(L.ckpts) \in Nat
    BY DEF Ledger
  <2>3. M.ckpts[i].body.session \in Session
    <3>1. M.ckpts[i] \in CkptRow
      BY <2>2
    <3> QED  BY <3>1 DEF CkptRow, Body
  <2> QED  BY <1>6, <2>1, <2>3
<1> QED  BY <1>4, <1>5, <1>7 DEF AppendOnly!Step, N

\* ... or inserts a checkpoint whose segment it holds.
LEMMA StepCheckpoint ==
    ASSUME NEW L \in Ledger, NEW M \in Ledger, NEW c \in CkptRow,
           AppendOnly!Step(L, M), AppendOnly!Signs(M, c)
    PROVE  AppendOnly!Step(L, [M EXCEPT !.ckpts = Append(@, c)])
<1> DEFINE N == [M EXCEPT !.ckpts = Append(@, c)]
<1>1. /\ N.sessions = M.sessions /\ N.lastRow = M.lastRow /\ N.rows = M.rows
      /\ N.segs = M.segs /\ N.ckpts = Append(M.ckpts, c)
  BY DEF Ledger
<1> HIDE DEF N
<1>2. /\ L.ckpts \in Seq(CkptRow) /\ M.ckpts \in Seq(CkptRow)
      /\ AppendOnly!Grown(L.ckpts, M.ckpts)
  BY DEF AppendOnly!Step, AppendOnly!Extends, Ledger
<1>3. AppendOnly!Grown(L.ckpts, N.ckpts)
  BY <1>1, <1>2, GrownAppend
<1>4. AppendOnly!Extends(L, N) /\ AppendOnly!RowsFresh(L, N)
  BY <1>1, <1>3 DEF AppendOnly!Step, AppendOnly!Extends, AppendOnly!RowsFresh
<1>5. AppendOnly!CkptsBacked(L, N)
  <2> SUFFICES ASSUME NEW i \in Len(L.ckpts) + 1 .. Len(N.ckpts)
               PROVE  AppendOnly!Signs(N, N.ckpts[i])
    BY DEF AppendOnly!CkptsBacked
  <2>1. /\ Len(N.ckpts) = Len(M.ckpts) + 1 /\ N.ckpts[Len(M.ckpts) + 1] = c
        /\ \A k \in 1 .. Len(M.ckpts) : N.ckpts[k] = M.ckpts[k]
        /\ Len(L.ckpts) \in Nat /\ Len(M.ckpts) \in Nat
    BY <1>1, <1>2
  <2>2. AppendOnly!Signs(M, N.ckpts[i])
    <3>1. CASE i = Len(M.ckpts) + 1
      BY <2>1, <3>1
    <3>2. CASE i # Len(M.ckpts) + 1
      <4>1. i \in Len(L.ckpts) + 1 .. Len(M.ckpts) /\ N.ckpts[i] = M.ckpts[i]
        BY <2>1, <3>2
      <4> QED  BY <4>1 DEF AppendOnly!Step, AppendOnly!CkptsBacked
    <3> QED  BY <3>1, <3>2
  <2> QED  BY <1>1, <2>2 DEF AppendOnly!Signs
<1> QED  BY <1>4, <1>5 DEF AppendOnly!Step, N

----------------------------------------------------------------------------
(* Every step of the writer, sorted by what it does to the two ledgers *)

\* The steps that leave the ledgers and the chain state alone.
Elsewhere ==
    /\ UNCHANGED <<db, tx, mem, ckptHash, cur, rolledBack, tainted>>
    /\ pc' = pc \/ (pc # "down" /\ pc' \notin {"ckpt", "down"})

Moves == FinalPass(cur') /\ cur' \in Session

Commits == CommitBatch \/ CommitForced

Rollbacks == BatchFails \/ ForcedFails

\* Every step of the writer does one of these things to the transaction.
LEMMA StepKinds ==
    ASSUME CtlInv, [Next]_vars
    PROVE  \/ Elsewhere \/ Moves \/ OpenRow \/ InsertRow \/ OpenForced \/ SealSegment
           \/ WriteCheckpoint \/ Commits \/ Rollbacks \/ Crash \/ Restart
<1>1. ASSUME Callers \/ Tick \/ UNCHANGED vars PROVE Elsewhere
  BY <1>1 DEF Callers, BeginAppend, Enqueue, RefuseClosed, Close, Tick, Elsewhere, vars,
       loopVars, memVars, durable, faultVars
<1>2. ASSUME Receive \/ TimerFlush PROVE Elsewhere
  BY <1>2 DEF Receive, TimerFlush, StartBatch, Elsewhere, memVars, durable, faultVars
<1>3. ASSUME NEW s \in Session, ServeSeal(s) PROVE Elsewhere
  BY <1>3 DEF ServeSeal, After, StartBatch, Elsewhere, memVars, durable, faultVars
<1>4. ASSUME Drain PROVE Elsewhere
  BY <1>4 DEF Drain, After, StartBatch, Elsewhere, memVars, durable, faultVars
<1>5. ASSUME EndBatch \/ SkipSeal \/ SkipCheckpoint PROVE Elsewhere
  BY <1>5 DEF EndBatch, SkipSeal, SkipCheckpoint, Return, Elsewhere, loopVars, memVars,
       durable, faultVars
<1>6. ASSUME NEW s \in Session, FinalPass(s) PROVE Moves
  BY <1>6 DEF FinalPass, Moves
<1> QED  BY <1>1, <1>2, <1>3, <1>4, <1>5, <1>6
         DEF Next, Select, Transaction, Faults, Commits, Rollbacks

\* The transaction and checkpoint-cache invariants hold at the start.
LEMMA InitTx == Init => TxOK /\ CkptCacheOK
<1> SUFFICES ASSUME Init PROVE TxOK /\ CkptCacheOK
  OBVIOUS
<1>1. /\ db = EmptyLedger /\ tx = EmptyLedger /\ pc = "select" /\ ckptHash = Zero
      /\ EmptyLedger \in Ledger /\ EmptyLedger.ckpts = << >>
  BY DEF Init, EmptyLedger, Ledger
<1> QED  BY <1>1, StepRefl DEF TxOK, CkptCacheOK, CheckpointsChained, LastCkptHash

\* The open transaction stays a step of the append-only ledger.
LEMMA NextTx == CtlInv /\ CtlInv' /\ TxOK /\ [Next]_vars => TxOK'
<1> SUFFICES ASSUME CtlInv, CtlInv', TxOK, [Next]_vars PROVE TxOK'
  OBVIOUS
<1>0. /\ db \in Ledger /\ tx \in Ledger /\ AppendOnly!Step(db, tx)
  BY DEF CtlInv, TypeOK, TxOK
<1>1. CASE Elsewhere
  BY <1>1 DEF Elsewhere, TxOK
<1>2. CASE Moves
  BY <1>2 DEF Moves, FinalPass, TxOK, memVars, durable
<1>3. CASE OpenRow
  <2>1. db' = db /\ pc' = "insert" /\ batch[at].session \in Session
        /\ tx' = IF mem[batch[at].session].known THEN tx
                 ELSE [tx EXCEPT !.sessions = @ \cup {batch[at].session}]
    BY <1>3 DEF OpenRow, durable, CtlInv, TypeOK, ControlOK
  <2> QED  BY <1>0, <2>1, StepSession DEF TxOK
<1>4. CASE InsertRow
  <2> DEFINE seg == mem[cur].segIndex
  <2>1. /\ db' = db /\ pc' = "seal" /\ cur \in Session /\ seg \in Nat
        /\ tx' = Inserted(tx, cur, seg, batch[at])
    BY <1>4 DEF InsertRow, durable, CtlInv, TypeOK, ControlOK, Mem
  <2>2. batch[at] \in Event
    <3>1. batch \in Seq(Event) /\ at \in 1 .. Len(batch)
      BY <1>4 DEF InsertRow, CtlInv, TypeOK, ControlOK
    <3> QED  BY <3>1
  <2> HIDE DEF seg
  <2> QED  BY <1>0, <2>1, <2>2, StepRow DEF TxOK
<1>5. CASE OpenForced
  <2>1. db' = db /\ pc' = "seal" /\ req \in Session
        /\ tx' = IF mem[req].known THEN tx ELSE [tx EXCEPT !.sessions = @ \cup {req}]
    BY <1>5 DEF OpenForced, durable, CtlInv, ControlOK
  <2> QED  BY <1>0, <2>1, StepSession DEF TxOK
<1>6. CASE SealSegment
  <2> DEFINE m    == mem[cur]
             h    == NewHeader(cur, m)
             hash == SegHash(m.prev, h)
             seg  == [header |-> h, prev |-> m.prev, hash |-> hash]
  <2>1. cur \in Session /\ m \in Mem /\ now \in Nat
    BY <1>6 DEF SealSegment, CtlInv, TypeOK, ControlOK
  <2>2. /\ db' = db /\ cur' = cur /\ tx' = [tx EXCEPT !.segs[cur] = Append(@, seg)]
        /\ mem'[cur] = Sealed(m, hash)
    BY <1>6, <2>1 DEF SealSegment, durable, loopVars, CtlInv, TypeOK
  <2>3. /\ h \in Header /\ hash \in SegHashes /\ m.prev \in SegHashes
        /\ h.seg = m.segIndex /\ m.segIndex \in Nat
    BY <2>1, HeaderType DEF SegHash, SegHashes, Mem, NewHeader
  <2>4. Sealed(m, hash).prev = hash /\ Sealed(m, hash).segIndex = m.segIndex + 1
    BY <2>1 DEF Sealed, Mem
  <2> HIDE DEF m, h, hash
  <2>5. seg \in SegRow /\ seg.header = h /\ seg.hash = hash
    BY <2>3 DEF SegRow
  <2> HIDE DEF seg
  <2>6. AppendOnly!Step(db', tx')
    BY <1>0, <2>1, <2>2, <2>5, StepSegment
  <2>7. tx.segs[cur] \in Seq(SegRow) /\ tx'.segs[cur] = Append(tx.segs[cur], seg)
    BY <1>0, <2>1, <2>2 DEF Ledger
  <2>8. /\ tx'.segs[cur] # << >>
        /\ tx'.segs[cur][Len(tx'.segs[cur])] = seg
    BY <2>5, <2>7
  <2> QED  BY <2>2, <2>3, <2>4, <2>5, <2>6, <2>8 DEF TxOK
<1>7. CASE WriteCheckpoint
  <2> DEFINE m == mem[cur]
             b == NewBody(cur, m)
             c == [body |-> b, prev |-> ckptHash]
             S == tx.segs[cur]
  <2>1. cur \in Session /\ m \in Mem /\ now \in Nat /\ ckptHash \in CkptHashes
    BY <1>7 DEF WriteCheckpoint, CtlInv, TypeOK, ControlOK
  <2>2. db' = db /\ tx' = [tx EXCEPT !.ckpts = Append(@, c)] /\ pc' # "ckpt"
    BY <1>7 DEF WriteCheckpoint, Return
  <2>3. /\ b \in Body /\ b.session = cur /\ b.segLast = m.segIndex - 1 /\ b.head = m.prev
    BY <2>1, BodyType DEF NewBody
  <2>4. /\ S # << >> /\ S \in Seq(SegRow)
        /\ S[Len(S)].header.seg = m.segIndex - 1 /\ S[Len(S)].hash = m.prev
    BY <1>0, <1>7, <2>1 DEF WriteCheckpoint, TxOK, Ledger
  <2> HIDE DEF b
  <2>5. c \in CkptRow /\ c.body = b
    BY <2>1, <2>3 DEF CkptRow
  <2> HIDE DEF c, m
  <2>6. AppendOnly!Signs(tx, c)
    <3>1. Len(S) \in 1 .. Len(S)
      BY <2>4
    <3> QED  BY <2>3, <2>4, <2>5, <3>1 DEF AppendOnly!Signs
  <2>7. AppendOnly!Step(db, [tx EXCEPT !.ckpts = Append(@, c)])
    BY <1>0, <2>5, <2>6, StepCheckpoint
  <2> QED  BY <2>2, <2>7 DEF TxOK
<1>8. CASE Commits
  <2>1. db' = tx /\ tx' = tx /\ pc' # "ckpt"
    BY <1>8 DEF Commits, CommitBatch, CommitForced, FinishBatch, After, CtlInv, TypeOK
  <2> QED  BY <1>0, <2>1, StepRefl DEF TxOK
<1>9. CASE Rollbacks
  <2>1. db' = db /\ tx' = db /\ pc' # "ckpt"
    BY <1>9 DEF Rollbacks, BatchFails, ForcedFails, Rollback, FinishBatch, After, durable,
         CtlInv, TypeOK
  <2> QED  BY <1>0, <2>1, StepRefl DEF TxOK
<1>10. CASE Crash
  BY <1>0, <1>10, StepRefl DEF Crash, TxOK, durable
<1>11. CASE Restart
  BY <1>0, <1>11 DEF Restart, TxOK, durable
<1> QED  BY <1>1, <1>2, <1>3, <1>4, <1>5, <1>6, <1>7, <1>8, <1>9, <1>10, <1>11, StepKinds

----------------------------------------------------------------------------
(* The ledger-wide checkpoint chain *)

Chained(L) == \A i \in 1 .. Len(L.ckpts) : CkptChained(L, i)

\* A step that leaves the checkpoints table alone leaves the chain alone.
LEMMA SameCkpts ==
    ASSUME NEW L, NEW M, M.ckpts = L.ckpts
    PROVE  LastCkptHash(M) = LastCkptHash(L) /\ (Chained(L) => Chained(M))
  BY DEF LastCkptHash, Chained, CkptChained

\* Appending a checkpoint whose prev is the newest hash continues the chain.
LEMMA ChainGrows ==
    ASSUME NEW L \in Ledger, NEW b \in Body
    PROVE  LET c == [body |-> b, prev |-> LastCkptHash(L)]
               M == [L EXCEPT !.ckpts = Append(@, c)]
           IN  /\ LastCkptHash(M) = CheckpointHash(LastCkptHash(L), b)
               /\ Chained(L) => Chained(M)
<1> DEFINE c == [body |-> b, prev |-> LastCkptHash(L)]
           M == [L EXCEPT !.ckpts = Append(@, c)]
           n == Len(L.ckpts)
<1>1. c \in CkptRow /\ c.body = b /\ c.prev = LastCkptHash(L)
  BY LastCkptType DEF CkptRow
<1>2. L.ckpts \in Seq(CkptRow) /\ M.ckpts = Append(L.ckpts, c)
  BY DEF Ledger
<1> HIDE DEF c, M
<1>3. /\ n \in Nat /\ Len(M.ckpts) = n + 1 /\ M.ckpts[n + 1] = c
      /\ \A i \in 1 .. n : M.ckpts[i] = L.ckpts[i]
      /\ M.ckpts # << >>
  BY <1>1, <1>2
<1>4. LastCkptHash(M) = CheckpointHash(LastCkptHash(L), b)
  BY <1>1, <1>3 DEF LastCkptHash
<1>5. ASSUME Chained(L), NEW i \in 1 .. Len(M.ckpts)
      PROVE  CkptChained(M, i)
  <2>1. CASE i <= n
    <3>1. i \in 1 .. n /\ (i # 1 => i - 1 \in 1 .. n)
      BY <1>3, <2>1
    <3>2. CkptChained(L, i)
      BY <1>5, <3>1 DEF Chained
    <3>3. M.ckpts[i] = L.ckpts[i] /\ (i # 1 => M.ckpts[i - 1] = L.ckpts[i - 1])
      BY <1>3, <3>1
    <3> QED  BY <3>2, <3>3 DEF CkptChained
  <2>2. CASE i = n + 1 /\ n = 0
    <3>1. L.ckpts = << >> /\ M.ckpts[i].prev = LastCkptHash(L)
      BY <1>1, <1>2, <1>3, <2>2
    <3> QED  BY <2>2, <3>1 DEF CkptChained, LastCkptHash
  <2>3. CASE i = n + 1 /\ n # 0
    <3>1. L.ckpts # << >>
      BY <1>2, <2>3
    <3>2. M.ckpts[i].prev = LastCkptHash(L)
      BY <1>1, <1>3, <2>3
    <3>3. i - 1 = n /\ n \in 1 .. n
      BY <1>3, <2>3
    <3>4. M.ckpts[i - 1] = L.ckpts[n]
      BY <1>3, <3>3
    <3> QED  BY <1>3, <2>3, <3>1, <3>2, <3>4 DEF CkptChained, LastCkptHash
  <2> QED  BY <1>3, <2>1, <2>2, <2>3
<1> QED  BY <1>4, <1>5 DEF Chained, c, M

\* The cached checkpoint hash stays that of the open transaction.
LEMMA NextCkptCache == CtlInv /\ CkptCacheOK /\ [Next]_vars => CkptCacheOK'
<1> SUFFICES ASSUME CtlInv, CkptCacheOK, [Next]_vars PROVE CkptCacheOK'
  OBVIOUS
<1>0. /\ db \in Ledger /\ tx \in Ledger /\ rolledBack \in BOOLEAN /\ tainted \in BOOLEAN
      /\ pc = "down" => tx = db
      /\ (~rolledBack /\ pc # "down") => ckptHash = LastCkptHash(tx)
      /\ (~rolledBack /\ ~tainted) => Chained(tx)
      /\ ~tainted => Chained(db)
  BY DEF CtlInv, TypeOK, CkptCacheOK, CheckpointsChained, Chained
<1> SUFFICES /\ pc' = "down" => tx' = db'
             /\ (~rolledBack' /\ pc' # "down") => ckptHash' = LastCkptHash(tx')
             /\ (~rolledBack' /\ ~tainted') => Chained(tx')
             /\ ~tainted' => Chained(db')
  BY DEF CkptCacheOK, CheckpointsChained, Chained, CkptChained, LastCkptHash
<1>1. CASE Elsewhere
  BY <1>0, <1>1 DEF Elsewhere
<1>2. CASE Moves \/ OpenRow \/ InsertRow \/ OpenForced \/ SealSegment
  <2>1. /\ UNCHANGED <<db, ckptHash, rolledBack, tainted>>
        /\ pc # "down" /\ pc' # "down" /\ tx'.ckpts = tx.ckpts
    BY <1>0, <1>2 DEF Moves, FinalPass, OpenRow, InsertRow, OpenForced, SealSegment, Inserted,
         memVars, durable, faultVars, Ledger
  <2> QED  BY <1>0, <2>1, SameCkpts
<1>3. CASE WriteCheckpoint
  <2> DEFINE b == NewBody(cur, mem[cur])
  <2>1. b \in Body
    BY <1>3, BodyType DEF WriteCheckpoint, CtlInv, TypeOK, ControlOK
  <2>2. /\ UNCHANGED <<db, rolledBack, tainted>> /\ pc # "down" /\ pc' # "down"
        /\ ckptHash' = CheckpointHash(ckptHash, b)
        /\ tx' = [tx EXCEPT !.ckpts = Append(@, [body |-> b, prev |-> ckptHash])]
    BY <1>3 DEF WriteCheckpoint, NextCkptHash, Return, faultVars
  <2> HIDE DEF b
  <2>3. CASE rolledBack
    BY <1>0, <2>2, <2>3
  <2>4. CASE ~rolledBack
    <3>1. ckptHash = LastCkptHash(tx)
      BY <1>0, <2>2, <2>4
    <3> QED  BY <1>0, <2>1, <2>2, <2>4, <3>1, ChainGrows
  <2> QED  BY <1>0, <2>3, <2>4
<1>4. CASE Commits
  <2>1. /\ db' = tx /\ tx' = tx /\ UNCHANGED <<ckptHash, rolledBack>> /\ pc # "down"
        /\ tainted' = (tainted \/ rolledBack) /\ pc' # "down"
    BY <1>4 DEF Commits, CommitBatch, CommitForced, FinishBatch, After, memVars, CtlInv, TypeOK
  <2> QED  BY <1>0, <2>1
<1>5. CASE Rollbacks
  <2>1. /\ db' = db /\ tx' = db /\ UNCHANGED <<ckptHash, tainted>> /\ pc # "down"
        /\ rolledBack' = (rolledBack \/ tx # db) /\ pc' # "down"
    BY <1>5 DEF Rollbacks, BatchFails, ForcedFails, InBatch, Forcing, Rollback, FinishBatch,
         After, durable, memVars, CtlInv, TypeOK
  <2> QED  BY <1>0, <2>1
<1>6. CASE Crash
  BY <1>0, <1>6 DEF Crash, durable
<1>7. CASE Restart
  BY <1>0, <1>7 DEF Restart, durable, faultVars
<1> QED  BY <1>1, <1>2, <1>3, <1>4, <1>5, <1>6, <1>7, StepKinds

----------------------------------------------------------------------------
(* The theorems *)

\* The inductive invariant holds at the start.
LEMMA InitInv == Init => WriterInv
  BY InitCtl, InitTx DEF WriterInv, CtlInv

\* Every step preserves the inductive invariant.
LEMMA NextInv == WriterInv /\ [Next]_vars => WriterInv'
<1>1. WriterInv /\ [Next]_vars => CtlInv /\ CtlInv'
  BY NextCtl DEF WriterInv, CtlInv
<1> QED  BY <1>1, NextTx, NextCkptCache DEF WriterInv, CtlInv

\* The inductive invariant holds in every reachable state, failed and
\* tainted ones included.
THEOREM WriterInvariant == Spec => []WriterInv
  BY InitInv, NextInv, PTL DEF Spec

\* As long as nothing was committed after a rolled-back transaction, the
\* ledger-wide checkpoint chain has no break, through any number of sessions
\* and restarts of the writer (maybeCheckpointLocked, loadLedgerPrevCheckpointHash).
THEOREM ChainUnbroken == Spec => []CheckpointsChained
<1>1. WriterInv => CheckpointsChained
  BY DEF WriterInv, CkptCacheOK
<1> QED  BY <1>1, WriterInvariant, PTL

\* The writer implements the append-only ledger, under every fault: each
\* commit only appends, with fresh rowids, and every checkpoint it makes
\* durable signs the hash of a segment made durable with it or before.
THEOREM RefinesAppendOnly == Spec => ImplementsAppendOnly
<1>1. Init => AppendOnly!Init
  BY DEF Init, AppendOnly!Init, EmptyLedger, AppendOnly!EmptyLedger
<1>2. WriterInv /\ [Next]_vars => [AppendOnly!Commit]_db
  <2> SUFFICES ASSUME WriterInv, [Next]_vars PROVE AppendOnly!Commit \/ db' = db
    OBVIOUS
  <2>1. CtlInv /\ AppendOnly!Step(db, tx)
    BY DEF WriterInv, CtlInv, TxOK
  <2>2. CASE Commits
    BY <2>1, <2>2 DEF Commits, CommitBatch, CommitForced, AppendOnly!Commit
  <2>3. CASE ~Commits
    BY <2>1, <2>3, StepKinds DEF Elsewhere, Moves, FinalPass, OpenRow, InsertRow, OpenForced,
         SealSegment, WriteCheckpoint, Rollbacks, BatchFails, ForcedFails, Crash, Restart, durable
  <2> QED  BY <2>2, <2>3
<1> QED  BY <1>1, <1>2, WriterInvariant, PTL DEF Spec, ImplementsAppendOnly, AppendOnly!Spec

----------------------------------------------------------------------------
(* What a caller was promised *)

InRows(L, ev) ==
    \E i \in 1 .. Len(L.rows[ev.session]) : L.rows[ev.session][i].ev = ev

\* What the callers and the reader of Err know of their events.
told == <<acked, raced, failed, gone>>

\* Once the loop has picked closeCh, only Appends that race Close still queue.
Leaving ==
    /\ (after = "exit" \/ pc = "exited")
           => closed /\ \A i \in 1 .. Len(queue) : queue[i] \in raced
    /\ pc = "down" => after = "loop"

\* Inductive: the loop has inserted exactly the events of the batch it has
\* passed, and commits only when it has passed them all.
Flow ==
    /\ AckedAccounted
    /\ Leaving
    /\ \A i \in 1 .. at - 1 : InRows(tx, batch[i])
    /\ pc = "select" => at = 1
    /\ pc = "insert" => cur = batch[at].session
    /\ (pc = "commit" /\ why # "force") => at > Len(batch)

\* A row stays in a table that only grows.
LEMMA RowsKept ==
    ASSUME NEW L \in Ledger, NEW M \in Ledger, AppendOnly!Extends(L, M),
           NEW ev \in Event, InRows(L, ev)
    PROVE  InRows(M, ev)
<1>1. ev.session \in Session
  BY DEF Event
<1>2. PICK i \in 1 .. Len(L.rows[ev.session]) : L.rows[ev.session][i].ev = ev
  BY DEF InRows
<1>3. /\ L.rows[ev.session] \in Seq(Row) /\ M.rows[ev.session] \in Seq(Row)
      /\ AppendOnly!Grown(L.rows[ev.session], M.rows[ev.session])
  BY <1>1 DEF AppendOnly!Extends, Ledger
<1>4. i \in 1 .. Len(M.rows[ev.session]) /\ M.rows[ev.session][i] = L.rows[ev.session][i]
  BY <1>3 DEF AppendOnly!Grown
<1> QED  BY <1>2, <1>4 DEF InRows

\* An inserted row is there, and so are the rows that were.
LEMMA RowInserted ==
    ASSUME NEW L \in Ledger, NEW s \in Session, NEW seg \in Nat, NEW ev \in Event
    PROVE  /\ ev.session = s => InRows(Inserted(L, s, seg, ev), ev)
           /\ \A e \in Event : InRows(L, e) => InRows(Inserted(L, s, seg, ev), e)
<1> DEFINE N == Inserted(L, s, seg, ev)
           row == [rowid |-> L.lastRow + 1, seg |-> seg, ev |-> ev]
<1>1. N \in Ledger
  BY InsertedType
<1>2. AppendOnly!Step(L, N)
  BY StepRefl, StepRow
<1>3. N.rows[s] = Append(L.rows[s], row) /\ L.rows[s] \in Seq(Row) /\ row \in Row
      /\ row.ev = ev
  <2>1. L.rows \in [Session -> Seq(Row)] /\ L.lastRow \in Nat
    BY DEF Ledger
  <2>2. row \in Row /\ row.ev = ev
    BY <2>1 DEF Row
  <2>3. N.rows = [L.rows EXCEPT ![s] = Append(@, row)]
    BY DEF Inserted, Ledger
  <2> QED  BY <2>1, <2>2, <2>3
<1> HIDE DEF N, row
<1>4. Len(N.rows[s]) \in 1 .. Len(N.rows[s]) /\ N.rows[s][Len(N.rows[s])] = row
  BY <1>3
<1>5. ev.session = s => InRows(N, ev)
  BY <1>3, <1>4 DEF InRows
<1>6. \A e \in Event : InRows(L, e) => InRows(N, e)
  BY <1>1, <1>2, RowsKept DEF AppendOnly!Step
<1> QED  BY <1>5, <1>6 DEF N

\* What leaves the channel is in the batch.
LEMMA TakenHolds ==
    ASSUME queue \in Seq(Event), batch \in Seq(Event), NEW n \in 0 .. Len(queue), NEW ev,
           InSeq(queue, ev) \/ InSeq(batch, ev)
    PROVE  InSeq(Taken(n), ev) \/ InSeq(SubSeq(queue, n + 1, Len(queue)), ev)
<1> DEFINE b == Len(batch)
           Q == SubSeq(queue, 1, n)
           R == SubSeq(queue, n + 1, Len(queue))
<1>1. /\ b \in Nat /\ Q \in Seq(Event) /\ Len(Q) = n /\ \A i \in 1 .. n : Q[i] = queue[i]
      /\ R \in Seq(Event) /\ Len(R) = Len(queue) - n
      /\ \A i \in 1 .. Len(queue) - n : R[i] = queue[n + i]
  OBVIOUS
<1>2. Taken(n) = batch \o Q
  BY DEF Taken
<1> HIDE DEF Q, R
<1>3. /\ Len(Taken(n)) = b + n
      /\ \A i \in 1 .. b + n :
            Taken(n)[i] = IF i <= b THEN batch[i] ELSE Q[i - b]
  <2>1. /\ Len(batch \o Q) = Len(batch) + Len(Q)
        /\ \A i \in 1 .. Len(batch) + Len(Q) :
              (batch \o Q)[i] = IF i <= Len(batch) THEN batch[i] ELSE Q[i - Len(batch)]
    BY <1>1, ConcatProperties
  <2>2. b = Len(batch) /\ n = Len(Q)
    BY <1>1
  <2> HIDE DEF b
  <2> QED  BY <1>2, <2>1, <2>2
<1> HIDE DEF b
<1>4. ASSUME NEW i \in 1 .. b, batch[i] = ev
      PROVE  InSeq(Taken(n), ev)
  BY <1>1, <1>3, <1>4 DEF InSeq
<1>5. ASSUME NEW i \in 1 .. Len(queue), queue[i] = ev
      PROVE  InSeq(Taken(n), ev) \/ InSeq(R, ev)
  <2>1. CASE i <= n
    <3>1. b + i \in 1 .. b + n /\ ~(b + i <= b) /\ (b + i) - b = i
      BY <1>1, <2>1
    <3>2. b + i \in 1 .. Len(Taken(n)) /\ Taken(n)[b + i] = ev
      BY <1>1, <1>3, <1>5, <2>1, <3>1
    <3> QED  BY <3>2 DEF InSeq
  <2>2. CASE i > n
    <3>1. i - n \in 1 .. Len(R) /\ R[i - n] = queue[n + (i - n)] /\ n + (i - n) = i
      BY <1>1, <1>5, <2>2
    <3> QED  BY <1>5, <3>1 DEF InSeq
  <2> QED  BY <2>1, <2>2
<1> QED  BY <1>4, <1>5 DEF InSeq, b, R

\* Whatever the select does, it moves a prefix of the queue behind the batch.
LEMMA SelectCuts ==
    ASSUME CtlInv, Select
    PROVE  \E n \in 0 .. Len(queue) :
              batch' = Taken(n) /\ queue' = SubSeq(queue, n + 1, Len(queue))
<1>T. queue \in Seq(Event) /\ batch \in Seq(Event)
  BY DEF CtlInv, TypeOK
<1>1. CASE Receive
  <2>1. queue' = Tail(queue) /\ batch' = Append(batch, Head(queue)) /\ queue # << >>
    BY <1>1 DEF Receive, StartBatch
  <2>2. 1 \in 0 .. Len(queue) /\ Head(queue) \in Event
    BY <1>T, <2>1
  <2>3. SubSeq(queue, 1, 1) = <<Head(queue)>>
    <3>1. /\ SubSeq(queue, 1, 1) \in Seq(Event) /\ Len(SubSeq(queue, 1, 1)) = 1
          /\ Head(queue) = queue[1] /\ SubSeq(queue, 1, 1)[1] = queue[1]
      BY <1>T, <2>1
    <3>2. <<Head(queue)>> \in Seq(Event) /\ Len(<<Head(queue)>>) = 1
          /\ <<Head(queue)>>[1] = Head(queue)
      BY <2>2
    <3>3. \A i \in 1 .. 1 : i = 1
      OBVIOUS
    <3>4. \A i \in 1 .. Len(SubSeq(queue, 1, 1)) :
             SubSeq(queue, 1, 1)[i] = <<Head(queue)>>[i]
      BY <3>1, <3>2, <3>3
    <3> QED  BY <3>1, <3>2, <3>4, SeqEqual
  <2>4. Append(batch, Head(queue)) = batch \o <<Head(queue)>>
    BY <1>T, <2>2, AppendIsConcat
  <2>5. Tail(queue) = SubSeq(queue, 1 + 1, Len(queue))
    BY <1>T, <2>1, TailIsSubSeq
  <2>6. batch' = Taken(1) /\ queue' = SubSeq(queue, 1 + 1, Len(queue))
    BY <2>1, <2>3, <2>4, <2>5 DEF Taken
  <2> QED  BY <2>2, <2>6
<1>2. CASE TimerFlush
  <2>1. TopUp \in 0 .. Len(queue)
    <3>1. /\ BatchMax \in Nat /\ Len(batch) \in Nat /\ Len(queue) \in Nat
          /\ Len(batch) < BatchMax
      BY <1>2, <1>T, WriterAssumption DEF TimerFlush, CtlInv, ControlOK
    <3> QED  BY <3>1 DEF TopUp
  <2>2. batch' = Taken(TopUp) /\ queue' = SubSeq(queue, TopUp + 1, Len(queue))
    BY <1>2 DEF TimerFlush, StartBatch
  <2> QED  BY <2>1, <2>2
<1>3. ASSUME (\E s \in Session : ServeSeal(s)) \/ Drain
      PROVE  \E n \in 0 .. Len(queue) :
                batch' = Taken(n) /\ queue' = SubSeq(queue, n + 1, Len(queue))
  <2> DEFINE n == Len(queue)
  <2>1. n \in 0 .. Len(queue) /\ queue' = SubSeq(queue, n + 1, Len(queue))
    <3>1. n \in Nat /\ n + 1 \in Int /\ n < n + 1 /\ queue' = << >>
      BY <1>3, <1>T DEF ServeSeal, Drain
    <3> QED  BY <3>1, SubSeqEmpty
  <2>2. batch' = Taken(n)
    <3>1. CASE batch = << >> /\ queue = << >>
      <4>1. batch' = << >>
        BY <1>3, <3>1 DEF ServeSeal, Drain
      <4> QED  BY <3>1, <4>1 DEF Taken
    <3>2. CASE ~(batch = << >> /\ queue = << >>)
      BY <1>3, <3>2 DEF ServeSeal, Drain, StartBatch
    <3> QED  BY <3>1, <3>2
  <2> HIDE DEF n
  <2> QED  BY <2>1, <2>2
<1> QED  BY <1>1, <1>2, <1>3 DEF Select

\* A writer on a new database has promised nothing.
LEMMA InitFlow == Init => Flow
  BY DEF Init, Flow, AckedAccounted, Leaving

\* The steps of the transaction: what is in rows, queue and batch stays there.
LEMMA TxFlow ==
    ASSUME CtlInv, Flow, UNCHANGED <<told, queue, closed, batch, commitErr, db>>,
           pc # "exited", pc' \notin {"exited", "down"}, after' = after,
           \A ev \in Event : InRows(tx, ev) => InRows(tx', ev)
    PROVE  /\ AckedAccounted' /\ Leaving'
           /\ \A i \in 1 .. at - 1 : InRows(tx', batch'[i])
<1>1. AckedAccounted'
  BY DEF Flow, AckedAccounted, Persisted, InSeq, told
<1>2. Leaving'
  BY DEF Flow, Leaving, told
<1>3. ASSUME NEW i \in 1 .. at - 1 PROVE InRows(tx', batch'[i])
  <2>1. batch \in Seq(Event) /\ at \in 1 .. Len(batch) + 1
    BY DEF CtlInv, TypeOK
  <2>2. batch[i] \in Event
    BY <2>1
  <2> QED  BY <2>2 DEF Flow
<1> QED  BY <1>1, <1>2, <1>3

\* A flush, or the drain of a seal or of Close, moves events along the line;
\* the goroutine returns from the select only with nothing in hand.
LEMMA CutFlow ==
    ASSUME CtlInv, Flow, pc = "select", NEW n \in 0 .. Len(queue),
           UNCHANGED <<told, commitErr, db, tx>>,
           queue' = SubSeq(queue, n + 1, Len(queue)), batch' = Taken(n), at' = 1,
           pc' \notin {"insert", "commit"}, Leaving',
           pc' = "exited" => batch' = << >> /\ queue' = << >>
    PROVE  Flow'
<1>1. queue \in Seq(Event) /\ batch \in Seq(Event)
  BY DEF CtlInv, TypeOK
<1>2. \A ev : InSeq(queue, ev) \/ InSeq(batch, ev)
                  => InSeq(batch', ev) \/ InSeq(queue', ev)
  BY <1>1, TakenHolds
<1>3. ASSUME NEW ev, InSeq(batch', ev) \/ InSeq(queue', ev) PROVE pc' # "exited"
  <2>1. ~InSeq(<< >>, ev)
    BY DEF InSeq
  <2> QED  BY <1>3, <2>1
<1>4. AckedAccounted'
  <2> SUFFICES ASSUME NEW ev \in acked
               PROVE  \/ Persisted(ev)'
                      \/ (InSeq(queue', ev) \/ InSeq(batch', ev)) /\ pc' # "exited"
                      \/ ev \in failed /\ commitErr
                      \/ ev \in gone
    BY DEF AckedAccounted, InSeq, told
  <2>1. Persisted(ev) \/ InSeq(queue, ev) \/ InSeq(batch, ev) \/ (ev \in failed /\ commitErr)
        \/ ev \in gone
    BY DEF Flow, AckedAccounted
  <2> QED  BY <1>2, <1>3, <2>1 DEF Persisted
<1>5. \A i \in 1 .. at' - 1 : InRows(tx', batch'[i])
  OBVIOUS
<1> QED  BY <1>4, <1>5 DEF Flow

\* Every step keeps what a caller was promised.
LEMMA NextFlow == WriterInv /\ Flow /\ [Next]_vars => Flow'
<1> SUFFICES ASSUME WriterInv, Flow, [Next]_vars PROVE Flow'
  OBVIOUS
<1>0. CtlInv /\ CtlInv'
  BY NextCtl DEF WriterInv, CtlInv
<1>T. /\ queue \in Seq(Event) /\ batch \in Seq(Event) /\ at \in 1 .. Len(batch) + 1
      /\ acked \subseteq Event /\ db \in Ledger /\ tx \in Ledger
      /\ at' \in 1 .. Len(batch') + 1
  BY <1>0 DEF CtlInv, TypeOK
<1>1. ASSUME Callers \/ Tick \/ UNCHANGED vars PROVE Flow'
  <2>1. /\ UNCHANGED <<batch, at, pc, cur, why, after, tx, db, commitErr, failed, gone>>
        /\ closed => closed'
    BY <1>1 DEF Callers, BeginAppend, Enqueue, RefuseClosed, Close, Tick, vars, loopVars,
         memVars, durable, faultVars
  <2>2. CASE UNCHANGED <<acked, raced, queue>>
    <3>1. AckedAccounted'
      BY <2>1, <2>2 DEF Flow, AckedAccounted, Persisted, InSeq
    <3>2. Leaving'
      BY <2>1, <2>2 DEF Flow, Leaving
    <3> QED  BY <2>1, <3>1, <3>2 DEF Flow, InRows
  <2>3. ASSUME NEW e \in sending, Enqueue(e) PROVE Flow'
    <3>1. /\ queue' = Append(queue, e) /\ acked' = acked \cup {e} /\ e \in Event
          /\ raced' = (IF closed THEN raced \cup {e} ELSE raced) /\ closed' = closed
      BY <1>0, <2>3 DEF Enqueue, CtlInv, TypeOK
    <3>2. /\ Len(queue') = Len(queue) + 1 /\ queue'[Len(queue) + 1] = e
          /\ \A i \in 1 .. Len(queue) : queue'[i] = queue[i]
          /\ Len(queue) \in Nat
      BY <1>T, <3>1
    <3>3. /\ InSeq(queue', e) /\ raced \subseteq raced'
          /\ \A ev : InSeq(queue, ev) => InSeq(queue', ev)
      BY <3>1, <3>2 DEF InSeq
    <3>4. pc = "exited" => e \in raced'
      BY <3>1 DEF Flow, Leaving
    <3>5. AckedAccounted'
      <4> SUFFICES ASSUME NEW ev \in acked'
                   PROVE  \/ Persisted(ev)
                          \/ InSeq(queue', ev) /\ (pc = "exited" => ev \in raced')
                          \/ InSeq(batch, ev) /\ pc # "exited"
                          \/ ev \in failed /\ commitErr
                          \/ ev \in gone
        BY <2>1 DEF AckedAccounted, Persisted, InSeq
      <4>1. CASE ev = e
        BY <3>3, <3>4, <4>1
      <4>2. CASE ev \in acked
        BY <3>3, <4>2 DEF Flow, AckedAccounted
      <4> QED  BY <3>1, <4>1, <4>2
    <3>6. Leaving'
      <4>1. \A i \in 1 .. Len(queue') : i \in 1 .. Len(queue) \/ i = Len(queue) + 1
        BY <3>2
      <4>2. closed => e \in raced'
        BY <3>1
      <4> QED  BY <2>1, <3>1, <3>2, <3>3, <4>1, <4>2 DEF Flow, Leaving
    <3> QED  BY <2>1, <3>5, <3>6 DEF Flow, InRows
  <2> QED  BY <1>1, <2>2, <2>3 DEF Callers, BeginAppend, RefuseClosed, Close, Tick, vars,
                callerVars
<1>2. CASE Select
  <2>1. /\ pc = "select" /\ at = 1 /\ UNCHANGED <<told, commitErr, db, tx>>
        /\ pc' \notin {"insert", "commit"} /\ at' = 1
    BY <1>2 DEF Select, Receive, TimerFlush, ServeSeal, Drain, StartBatch, After, Flow,
         callerVars, memVars, durable, faultVars, told
  <2>2. /\ pc' = "exited" => batch' = << >> /\ queue' = << >>
        /\ (after' = "exit" \/ pc' = "exited") => Drain \/ (after' = after /\ pc' = pc)
    BY <1>2 DEF Select, Receive, TimerFlush, ServeSeal, Drain, StartBatch, After
  <2>3. Leaving'
    <3>1. ASSUME Drain PROVE closed' /\ queue' = << >>
      BY <3>1 DEF Drain
    <3>2. ASSUME after' = after, pc' = pc, after = "exit" \/ pc = "exited",
                 Receive
          PROVE  closed' /\ \A i \in 1 .. Len(queue') : queue'[i] \in raced'
      <4>1. /\ closed /\ (\A i \in 1 .. Len(queue) : queue[i] \in raced)
            /\ queue # << >> /\ queue' = Tail(queue)
            /\ closed' = closed /\ raced' = raced
        BY <3>2 DEF Flow, Leaving, Receive, callerVars
      <4>2. /\ Len(queue') = Len(queue) - 1
            /\ \A i \in 1 .. Len(queue') : queue'[i] = queue[i + 1] /\ i + 1 \in 1 .. Len(queue)
        BY <1>T, <4>1
      <4> QED  BY <4>1, <4>2
    <3>4. pc' # "down"
      BY <1>2 DEF Select, Receive, TimerFlush, ServeSeal, Drain, StartBatch, After
    <3>3. after' = after /\ pc' = pc /\ (after = "exit" \/ pc = "exited") => Receive \/ Drain
      BY <1>2, <2>1 DEF Select, TimerFlush, ServeSeal, StartBatch
    <3> QED  BY <2>2, <3>1, <3>2, <3>3, <3>4 DEF Leaving
  <2>4. PICK n \in 0 .. Len(queue) :
           batch' = Taken(n) /\ queue' = SubSeq(queue, n + 1, Len(queue))
    BY <1>0, <1>2, SelectCuts
  <2> QED  BY <1>0, <2>1, <2>2, <2>3, <2>4, CutFlow
<1>5. CASE OpenRow
  <2>1. /\ UNCHANGED <<told, queue, closed, batch, at, commitErr, db, why>> /\ pc' = "insert"
        /\ cur' = batch[at].session /\ tx'.rows = tx.rows /\ after' = after /\ pc = "row"
    BY <1>5, <1>T DEF OpenRow, callerVars, durable, Ledger, faultVars, told
  <2> QED  BY <1>0, <2>1, TxFlow DEF Flow, InRows
<1>6. CASE InsertRow
  <2>1. /\ UNCHANGED <<told, queue, closed, batch, commitErr, db>> /\ pc' = "seal" /\ at' = at + 1
        /\ tx' = Inserted(tx, cur, mem[cur].segIndex, batch[at])
        /\ after' = after /\ pc = "insert"
    BY <1>6 DEF InsertRow, callerVars, durable, faultVars, told
  <2>2. cur \in Session /\ mem[cur].segIndex \in Nat /\ at \in 1 .. Len(batch)
        /\ cur = batch[at].session
    <3>1. pc = "insert"
      BY <1>6 DEF InsertRow
    <3>2. cur \in Session /\ at <= Len(batch) /\ cur = batch[at].session
      BY <1>0, <3>1 DEF Flow, CtlInv, ControlOK
    <3>3. mem[cur] \in Mem
      BY <1>0, <3>2 DEF CtlInv, TypeOK
    <3> QED  BY <1>T, <3>2, <3>3 DEF Mem
  <2>3. batch[at] \in Event
    BY <1>T, <2>2
  <2>4. InRows(tx', batch[at]) /\ \A ev \in Event : InRows(tx, ev) => InRows(tx', ev)
    BY <1>T, <2>1, <2>2, <2>3, RowInserted
  <2>5. AckedAccounted' /\ Leaving' /\ \A i \in 1 .. at - 1 : InRows(tx', batch'[i])
    BY <1>0, <2>1, <2>4, TxFlow
  <2>6. \A i \in 1 .. at' - 1 : i = at \/ i \in 1 .. at - 1
    BY <2>1, <2>2
  <2> QED  BY <2>1, <2>4, <2>5, <2>6 DEF Flow
<1>7. ASSUME NEW s \in Session, FinalPass(s) PROVE Flow'
  <2>1. /\ UNCHANGED <<told, queue, closed, batch, at, commitErr, db, tx>> /\ pc' = "seal"
        /\ after' = after /\ pc = "row"
    BY <1>7 DEF FinalPass, callerVars, memVars, durable, faultVars, told
  <2> QED  BY <1>0, <2>1, TxFlow DEF Flow
<1>8. CASE EndBatch
  <2>1. /\ UNCHANGED <<told, queue, closed, batch, at, commitErr, db, tx>> /\ pc' = "commit"
        /\ at > Len(batch) /\ after' = after /\ pc = "row"
    BY <1>8 DEF EndBatch, callerVars, loopVars, memVars, durable, faultVars, told
  <2> QED  BY <1>0, <2>1, TxFlow DEF Flow
<1>9. CASE OpenForced
  <2>1. /\ UNCHANGED <<told, queue, closed, batch, at, commitErr, db>> /\ pc' = "seal"
        /\ tx'.rows = tx.rows /\ after' = after /\ pc = "force"
    BY <1>9, <1>T DEF OpenForced, callerVars, durable, Ledger, faultVars, told
  <2> QED  BY <1>0, <2>1, TxFlow DEF Flow, InRows
<1>10. ASSUME SkipSeal \/ SealSegment \/ SkipCheckpoint \/ WriteCheckpoint PROVE Flow'
  <2>1. /\ UNCHANGED <<told, queue, closed, batch, at, commitErr, db, why>>
        /\ pc' = "ckpt" \/ pc' = Return
        /\ tx'.rows = tx.rows /\ after' = after /\ pc \in {"seal", "ckpt"}
    BY <1>10, <1>T DEF SkipSeal, SealSegment, SkipCheckpoint, WriteCheckpoint, callerVars,
         loopVars, memVars, durable, Ledger, faultVars, told
  <2>2. pc' \notin {"select", "insert", "exited", "down"} /\ (pc' = "commit" => why' = "force")
    BY <2>1 DEF Return
  <2> QED  BY <1>0, <2>1, <2>2, TxFlow DEF Flow, InRows
<1>11. ASSUME Commits \/ Rollbacks PROVE Flow'
  <2>1. /\ UNCHANGED <<acked, raced, gone, queue, closed>> /\ failed \subseteq failed'
        /\ pc' \notin {"insert", "commit"} /\ after' = "loop"
        /\ pc' = "exited" => after = "exit"
    BY <1>11, <1>0 DEF Commits, CommitBatch, CommitForced, Rollbacks, BatchFails, ForcedFails,
         FinishBatch, After, Idle, callerVars, faultVars, CtlInv, TypeOK
  <2>2. batch' = << >> /\ at' = 1
    <3>1. batch' = << >>
      BY <1>11, <1>0 DEF Commits, CommitBatch, CommitForced, Rollbacks, BatchFails, ForcedFails,
           FinishBatch, Forcing, CtlInv, ControlOK
    <3> QED  BY <1>T, <3>1
  <2>3. Leaving'
    BY <2>1 DEF Flow, Leaving
  <2>4. \A ev : InSeq(queue, ev) => (pc' = "exited" => ev \in raced)
    BY <2>1 DEF Flow, Leaving, InSeq
  <2>5. AckedAccounted'
    <3> SUFFICES ASSUME NEW ev \in acked
                 PROVE  InRows(db', ev) \/ InSeq(queue, ev) \/ (ev \in failed' /\ commitErr')
                        \/ ev \in gone
      BY <2>1, <2>4 DEF AckedAccounted, Persisted, InSeq, InRows
    <3>1. ev \in Event /\ (InRows(db, ev) \/ InSeq(queue, ev) \/ InSeq(batch, ev)
                             \/ (ev \in failed /\ commitErr) \/ ev \in gone)
      BY <1>T DEF Flow, AckedAccounted, Persisted, InRows
    <3>2. CASE CommitBatch
      <4>1. db' = tx /\ commitErr' = commitErr /\ \A i \in 1 .. Len(batch) : i \in 1 .. at - 1
        BY <1>T, <3>2 DEF CommitBatch, Flow, memVars
      <4>2. InSeq(batch, ev) => InRows(tx, ev)
        BY <4>1 DEF InSeq, Flow
      <4>3. InRows(db, ev) => InRows(tx, ev)
        BY <1>T, <3>1, RowsKept DEF WriterInv, TxOK, AppendOnly!Step
      <4> QED  BY <2>1, <3>1, <4>1, <4>2, <4>3
    <3>3. CASE CommitForced
      <4>1. db' = tx /\ commitErr' = commitErr /\ batch = << >>
        BY <1>0, <3>3 DEF CommitForced, memVars, CtlInv, ControlOK
      <4>2. ~InSeq(batch, ev)
        BY <4>1 DEF InSeq
      <4>3. InRows(db, ev) => InRows(tx, ev)
        BY <1>T, <3>1, RowsKept DEF WriterInv, TxOK, AppendOnly!Step
      <4> QED  BY <2>1, <3>1, <4>1, <4>2, <4>3
    <3>4. CASE BatchFails
      <4>1. /\ failed' = failed \cup {batch[i] : i \in 1 .. Len(batch)}
            /\ commitErr' = TRUE /\ db' = db
        BY <3>4 DEF BatchFails, RecordError, durable
      <4>2. InSeq(batch, ev) => ev \in failed'
        BY <4>1 DEF InSeq
      <4> QED  BY <2>1, <3>1, <4>1, <4>2
    <3>5. CASE ForcedFails
      <4>1. db' = db /\ commitErr' = commitErr /\ batch = << >>
        BY <1>0, <3>5 DEF ForcedFails, Forcing, memVars, durable, CtlInv, ControlOK
      <4>2. ~InSeq(batch, ev)
        BY <4>1 DEF InSeq
      <4> QED  BY <2>1, <3>1, <4>1, <4>2
    <3> QED  BY <1>11, <3>2, <3>3, <3>4, <3>5 DEF Commits, Rollbacks
  <2> QED  BY <2>1, <2>2, <2>3, <2>5 DEF Flow
<1>12. CASE Crash
  <2>1. /\ at' = 1 /\ pc' = "down" /\ after' = "loop" /\ db' = db /\ acked' = acked
        /\ gone' = gone \cup failed
                      \cup {ev \in acked : InSeq(queue, ev) \/ InSeq(batch, ev)}
    BY <1>12 DEF Crash, Forgotten, Idle, durable
  <2>2. AckedAccounted'
    <3> SUFFICES ASSUME NEW ev \in acked PROVE Persisted(ev) \/ ev \in gone'
      BY <2>1 DEF AckedAccounted, Persisted
    <3>1. Persisted(ev) \/ InSeq(queue, ev) \/ InSeq(batch, ev) \/ ev \in failed \/ ev \in gone
      BY DEF Flow, AckedAccounted
    <3> QED  BY <2>1, <3>1
  <2>3. Leaving'
    BY <2>1 DEF Leaving
  <2> QED  BY <2>1, <2>2, <2>3 DEF Flow
<1>13. CASE Restart
  <2>1. /\ UNCHANGED <<told, queue, batch, at, commitErr, db, tx, why, after>>
        /\ pc = "down" /\ pc' = "select"
    BY <1>13 DEF Restart, callerVars, loopVars, durable, faultVars, told
  <2>2. at = 1
    BY <1>0, <1>13, <1>T DEF Restart, CtlInv, ControlOK
  <2>3. AckedAccounted'
    BY <2>1 DEF Flow, AckedAccounted, Persisted, InSeq, told
  <2>4. Leaving'
    BY <2>1 DEF Flow, Leaving
  <2> QED  BY <2>1, <2>2, <2>3, <2>4 DEF Flow, InRows
<1> QED  BY <1>1, <1>2, <1>5, <1>6, <1>7, <1>8, <1>9, <1>10, <1>11, <1>12, <1>13
         DEF Next, Transaction, Faults, Commits, Rollbacks

\* An event whose Append returned nil is committed, in the queue or the batch of
\* a goroutine that still runs, in a rolled-back batch whose error Err shows, or
\* died with the process; what a closed writer leaves in its queue was sent while
\* Close was under way (Append, drainQueue, commitBatch, Close): no way of
\* cutting, draining or failing a batch loses it silently, and Close loses
\* nothing acknowledged before it, for any number of callers and any thresholds.
THEOREM AckedNotLost == Spec => []AckedAccounted
<1>1. WriterInv /\ Flow /\ [Next]_vars => (WriterInv /\ Flow)'
  BY NextInv, NextFlow
<1>2. Init => WriterInv /\ Flow
  BY InitInv, InitFlow
<1>3. WriterInv /\ Flow => AckedAccounted
  BY DEF Flow
<1> QED  BY <1>1, <1>2, <1>3, PTL DEF Spec

----------------------------------------------------------------------------
(* The order of one caller's events *)

\* The events the writer has taken and not inserted yet, oldest first.
Line == batch \o queue

RowsBefore(L, n) ==
    \A s \in Session : \A i \in 1 .. Len(L.rows[s]) : L.rows[s][i].ev.id < n

InOrder(L) ==
    /\ \A s \in Session : \A i \in 1 .. Len(L.rows[s]) : L.rows[s][i].rowid <= L.lastRow
    /\ \A s, t \in Session : \A i \in 1 .. Len(L.rows[s]), j \in 1 .. Len(L.rows[t]) :
          L.rows[s][i].rowid < L.rows[t][j].rowid => L.rows[s][i].ev.id < L.rows[t][j].ev.id

\* Inductive, for one caller: rows, what is left of the batch, the queue, the
\* event being sent and the next one to come, in this order.
Lined ==
    /\ \A i, j \in 1 .. Len(Line) : i < j => Line[i].id < Line[j].id
    /\ \A i \in 1 .. Len(Line) : Line[i].id < nextId
    /\ \A i \in at .. Len(Line) : RowsBefore(tx, Line[i].id)
    /\ RowsBefore(tx, nextId)

Sends ==
    /\ sending = {} \/ \E ev \in sending : sending = {ev}
    /\ \A ev \in sending : /\ ev.id < nextId
                           /\ RowsBefore(tx, ev.id)
                           /\ \A i \in 1 .. Len(Line) : Line[i].id < ev.id

OneCaller == Lined /\ Sends /\ InOrder(tx) /\ InOrder(db)

\* The rows of a table that has grown since were before whatever its rows are.
LEMMA BeforeKept ==
    ASSUME NEW L \in Ledger, NEW M \in Ledger, AppendOnly!Extends(L, M), NEW n,
           RowsBefore(M, n)
    PROVE  RowsBefore(L, n)
<1> SUFFICES ASSUME NEW s \in Session, NEW i \in 1 .. Len(L.rows[s])
             PROVE  L.rows[s][i].ev.id < n
  BY DEF RowsBefore
<1>1. /\ L.rows[s] \in Seq(Row) /\ M.rows[s] \in Seq(Row)
      /\ AppendOnly!Grown(L.rows[s], M.rows[s])
  BY DEF AppendOnly!Extends, Ledger
<1>2. i \in 1 .. Len(M.rows[s]) /\ M.rows[s][i] = L.rows[s][i]
  BY <1>1 DEF AppendOnly!Grown
<1> QED  BY <1>2 DEF RowsBefore

\* A row inserted for an event that comes after all the rows keeps the order.
LEMMA OrderKept ==
    ASSUME NEW L \in Ledger, NEW s \in Session, NEW seg \in Nat, NEW ev \in Event,
           InOrder(L), RowsBefore(L, ev.id)
    PROVE  /\ InOrder(Inserted(L, s, seg, ev))
           /\ \A n \in Nat : ev.id < n /\ RowsBefore(L, n)
                                => RowsBefore(Inserted(L, s, seg, ev), n)
<1> DEFINE N == Inserted(L, s, seg, ev)
           row == [rowid |-> L.lastRow + 1, seg |-> seg, ev |-> ev]
<1>1. /\ L.lastRow \in Nat /\ L.rows \in [Session -> Seq(Row)]
      /\ N.lastRow = L.lastRow + 1
      /\ N.rows = [L.rows EXCEPT ![s] = Append(@, row)]
  BY DEF Ledger, Inserted
<1>2. row \in Row /\ row.rowid = L.lastRow + 1 /\ row.ev = ev /\ ev.id \in Nat
  BY <1>1 DEF Row, Event
<1> HIDE DEF N, row
<1>3. ASSUME NEW t \in Session
      PROVE  N.rows[t] = IF t = s THEN Append(L.rows[s], row) ELSE L.rows[t]
  BY <1>1
<1>4. /\ Len(Append(L.rows[s], row)) = Len(L.rows[s]) + 1
      /\ Append(L.rows[s], row)[Len(L.rows[s]) + 1] = row
      /\ \A i \in 1 .. Len(L.rows[s]) : Append(L.rows[s], row)[i] = L.rows[s][i]
      /\ Len(L.rows[s]) \in Nat
  BY <1>1, <1>2
<1>5. ASSUME NEW t \in Session, NEW i \in 1 .. Len(N.rows[t])
      PROVE  \/ N.rows[t][i] = row
             \/ i \in 1 .. Len(L.rows[t]) /\ N.rows[t][i] = L.rows[t][i]
  <2>1. CASE t = s
    <3>1. N.rows[t] = Append(L.rows[s], row) /\ L.rows[t] = L.rows[s]
      BY <1>3, <2>1
    <3>2. i \in 1 .. Len(L.rows[s]) \/ i = Len(L.rows[s]) + 1
      BY <1>4, <3>1
    <3> QED  BY <1>4, <3>1, <3>2
  <2>2. CASE t # s
    BY <1>3, <2>2
  <2> QED  BY <2>1, <2>2
<1>6. ASSUME NEW t \in Session, NEW i \in 1 .. Len(L.rows[t])
      PROVE  /\ L.rows[t][i].rowid \in Nat /\ L.rows[t][i].rowid <= L.lastRow
             /\ L.rows[t][i].ev.id \in Nat /\ L.rows[t][i].ev.id < ev.id
  <2>1. L.rows[t] \in Seq(Row)
    BY <1>1
  <2>2. L.rows[t][i] \in Row
    BY <2>1
  <2> QED  BY <2>2 DEF Row, Event, InOrder, RowsBefore
<1>7. ASSUME NEW t \in Session, NEW i \in 1 .. Len(N.rows[t])
      PROVE  /\ N.rows[t][i].rowid <= N.lastRow
             /\ \A n \in Nat : ev.id < n /\ RowsBefore(L, n) => N.rows[t][i].ev.id < n
  <2>1. CASE N.rows[t][i] = row
    BY <1>1, <1>2, <2>1, SMTT(60)
  <2>2. CASE i \in 1 .. Len(L.rows[t]) /\ N.rows[t][i] = L.rows[t][i]
    BY <1>1, <1>2, <1>6, <2>2, SMTT(60)
  <2> QED  BY <1>5, <2>1, <2>2
<1>8. ASSUME NEW t \in Session, NEW u \in Session,
             NEW i \in 1 .. Len(N.rows[t]), NEW j \in 1 .. Len(N.rows[u]),
             N.rows[t][i].rowid < N.rows[u][j].rowid
      PROVE  N.rows[t][i].ev.id < N.rows[u][j].ev.id
  <2>1. CASE N.rows[t][i] = row
    <3>1. ~(row.rowid < N.rows[u][j].rowid)
      <4>1. CASE N.rows[u][j] = row
        BY <1>1, <1>2, <4>1
      <4>2. CASE j \in 1 .. Len(L.rows[u]) /\ N.rows[u][j] = L.rows[u][j]
        BY <1>1, <1>2, <1>6, <4>2
      <4> QED  BY <1>5, <4>1, <4>2
    <3> QED  BY <1>8, <2>1, <3>1
  <2>2. CASE i \in 1 .. Len(L.rows[t]) /\ N.rows[t][i] = L.rows[t][i]
    <3>1. CASE N.rows[u][j] = row
      BY <1>2, <1>6, <2>2, <3>1
    <3>2. CASE j \in 1 .. Len(L.rows[u]) /\ N.rows[u][j] = L.rows[u][j]
      BY <1>8, <2>2, <3>2 DEF InOrder
    <3> QED  BY <1>5, <3>1, <3>2
  <2> QED  BY <1>5, <2>1, <2>2
<1>9. InOrder(N)
  BY <1>7, <1>8 DEF InOrder
<1>10. \A n \in Nat : ev.id < n /\ RowsBefore(L, n) => RowsBefore(N, n)
  BY <1>7 DEF RowsBefore
<1> QED  BY <1>9, <1>10 DEF N

\* Cutting the line into batch and queue elsewhere does not reorder it.
LEMMA CutLine ==
    ASSUME queue \in Seq(Event), batch \in Seq(Event), NEW n \in 0 .. Len(queue)
    PROVE  Taken(n) \o SubSeq(queue, n + 1, Len(queue)) = batch \o queue
<1> DEFINE Q == SubSeq(queue, 1, n)
           R == SubSeq(queue, n + 1, Len(queue))
           q == Len(queue)
<1>1. Q \in Seq(Event) /\ R \in Seq(Event)
  OBVIOUS
<1>2. Q \o R = queue
  <2>1. q \in Nat /\ 1 \in 1 .. q + 1 /\ n \in 1 - 1 .. q /\ q \in n .. q
    OBVIOUS
  <2>2. Q \o R = SubSeq(queue, 1, q)
    BY <2>1, ConcatAdjacentSubSeq
  <2> QED  BY <2>2, SubSeqFull
<1> HIDE DEF Q, R
<1>3. (batch \o Q) \o R = batch \o (Q \o R)
  BY <1>1, ConcatAssociative, SMTT(60)
<1> QED  BY <1>2, <1>3 DEF Taken, Q, R

\* The line, position by position.
LEMMA LineItems ==
    ASSUME NEW b \in Seq(Event), NEW q \in Seq(Event)
    PROVE  /\ Len(b \o q) = Len(b) + Len(q)
           /\ \A i \in 1 .. Len(b) : (b \o q)[i] = b[i]
           /\ \A i \in 1 .. Len(q) : (b \o q)[Len(b) + i] = q[i]
           /\ \A i \in 1 .. Len(b \o q) : (b \o q)[i] \in Event
           /\ Len(b) \in Nat /\ Len(q) \in Nat
<1>1. /\ b \o q \in Seq(Event) /\ Len(b \o q) = Len(b) + Len(q)
      /\ \A i \in 1 .. Len(b) + Len(q) :
            (b \o q)[i] = IF i <= Len(b) THEN b[i] ELSE q[i - Len(b)]
  BY ConcatProperties
<1>2. Len(b) \in Nat /\ Len(q) \in Nat
  OBVIOUS
<1>3. ASSUME NEW i \in 1 .. Len(q)
      PROVE  (b \o q)[Len(b) + i] = q[i]
  <2>1. /\ Len(b) + i \in 1 .. Len(b) + Len(q) /\ ~(Len(b) + i <= Len(b))
        /\ (Len(b) + i) - Len(b) = i
    BY <1>2
  <2> QED  BY <1>1, <2>1
<1> QED  BY <1>1, <1>2, <1>3

\* A new database has no rows and no line.
LEMMA InitCaller == Init => OneCaller
<1> SUFFICES ASSUME Init PROVE OneCaller
  OBVIOUS
<1>1. /\ batch = << >> /\ queue = << >> /\ sending = {} /\ at = 1
      /\ tx = EmptyLedger /\ db = EmptyLedger
  BY DEF Init
<1>2. \A s \in Session : EmptyLedger.rows[s] = << >>
  BY DEF EmptyLedger
<1>3. Len(Line) = 0
  BY <1>1 DEF Line
<1>4. InOrder(EmptyLedger) /\ \A n : RowsBefore(EmptyLedger, n)
  BY <1>2 DEF InOrder, RowsBefore
<1> QED  BY <1>1, <1>3, <1>4 DEF OneCaller, Lined, Sends

\* Every step keeps one caller's events in line.
LEMMA NextCaller ==
    ASSUME MaxSenders <= 1
    PROVE  WriterInv /\ Flow /\ OneCaller /\ [Next]_vars => OneCaller'
<1> SUFFICES ASSUME WriterInv, Flow, OneCaller, [Next]_vars PROVE OneCaller'
  OBVIOUS
<1>0. CtlInv /\ CtlInv' /\ AppendOnly!Extends(db, tx)
  BY NextCtl DEF WriterInv, CtlInv, TxOK, AppendOnly!Step
<1>T. /\ queue \in Seq(Event) /\ batch \in Seq(Event) /\ at \in 1 .. Len(batch) + 1
      /\ sending \subseteq Event /\ db \in Ledger /\ tx \in Ledger /\ nextId \in Nat
      /\ queue' \in Seq(Event) /\ batch' \in Seq(Event) /\ at' \in 1 .. Len(batch') + 1
  BY <1>0 DEF CtlInv, TypeOK
<1>L. /\ Len(Line) = Len(batch) + Len(queue)
      /\ \A i \in 1 .. Len(batch) : Line[i] = batch[i]
      /\ \A i \in 1 .. Len(queue) : Line[Len(batch) + i] = queue[i]
      /\ \A i \in 1 .. Len(Line) : Line[i] \in Event /\ Line[i].id \in Nat
      /\ Len(batch) \in Nat /\ Len(queue) \in Nat
  BY <1>T, LineItems DEF Line, Event
<1>U. /\ Lined /\ Sends /\ InOrder(tx) /\ InOrder(db)
  BY DEF OneCaller
<1>S. ASSUME UNCHANGED <<sending, nextId, db>>, Line' = Line, at' = at,
             tx'.rows = tx.rows, tx'.lastRow = tx.lastRow
      PROVE  OneCaller'
  BY <1>S, <1>U DEF OneCaller, Lined, Sends, InOrder, RowsBefore
<1>1. ASSUME NEW s \in Session, NEW g \in GapReason \cup {NoGap}, BeginAppend(s, g)
      PROVE  OneCaller'
  <2> DEFINE e == [id |-> nextId, session |-> s, gap |-> g]
  <2>1. sending = {}
    <3>1. ASSUME NEW ev, sending = {ev} PROVE FALSE
      <4>1. Cardinality(sending) = 1 /\ Cardinality(sending) < MaxSenders
        BY <1>1, <3>1, FS_Singleton DEF BeginAppend
      <4> QED  BY <4>1, WriterAssumption
    <3> QED  BY <1>U, <3>1 DEF Sends
  <2>2. /\ sending' = {e} /\ nextId' = nextId + 1
        /\ UNCHANGED <<batch, queue, at, tx, db>>
    BY <1>1, <2>1 DEF BeginAppend, loopVars, durable
  <2>3. e.id = nextId
    OBVIOUS
  <2> HIDE DEF e
  <2>4. Line' = Line
    BY <2>2 DEF Line
  <2>A. nextId \in Nat /\ \A a \in Nat : a < nextId => a < nextId + 1
    BY <1>T
  <2>5. RowsBefore(tx, nextId + 1)
    <3>1. ASSUME NEW t \in Session, NEW i \in 1 .. Len(tx.rows[t])
          PROVE  tx.rows[t][i].ev.id \in Nat
      <4>1. tx.rows[t] \in Seq(Row)
        BY <1>T DEF Ledger
      <4>2. tx.rows[t][i] \in Row
        BY <4>1
      <4> QED  BY <4>2 DEF Row, Event
    <3>2. ASSUME NEW t \in Session, NEW i \in 1 .. Len(tx.rows[t])
          PROVE  tx.rows[t][i].ev.id < nextId + 1
      <4>1. tx.rows[t][i].ev.id < nextId
        BY <1>U DEF Lined, RowsBefore
      <4> QED  BY <2>A, <3>1, <4>1
    <3> QED  BY <3>2 DEF RowsBefore
  <2>6. Lined'
    <3>1. \A i \in 1 .. Len(Line) : Line[i].id < nextId + 1
      <4> SUFFICES ASSUME NEW i \in 1 .. Len(Line) PROVE Line[i].id < nextId + 1
        OBVIOUS
      <4>1. Line[i].id \in Nat /\ Line[i].id < nextId
        BY <1>L, <1>U DEF Lined
      <4> QED  BY <2>A, <4>1
    <3>2. RowsBefore(tx', nextId')
      BY <2>2, <2>5 DEF RowsBefore
    <3>3. \A i \in at' .. Len(Line') : RowsBefore(tx', Line'[i].id)
      BY <1>U, <2>2, <2>4 DEF Lined, RowsBefore
    <3> QED  BY <1>U, <2>2, <2>4, <3>1, <3>2, <3>3 DEF Lined, RowsBefore
  <2>7. Sends'
    <3>1. \A i \in 1 .. Len(Line) : Line[i].id < e.id
      BY <1>U, <2>3 DEF Lined
    <3>2. e.id < nextId' /\ RowsBefore(tx', e.id)
      BY <1>T, <1>U, <2>2, <2>3 DEF Lined, RowsBefore
    <3> QED  BY <2>2, <2>4, <3>1, <3>2 DEF Sends, RowsBefore
  <2> QED  BY <1>U, <2>2, <2>6, <2>7 DEF OneCaller, InOrder
<1>2. ASSUME NEW ev \in sending, Enqueue(ev) PROVE OneCaller'
  <2> DEFINE n == Len(Line)
  <2>1. /\ sending' = {} /\ queue' = Append(queue, ev) /\ ev \in Event /\ ev.id \in Nat
        /\ UNCHANGED <<batch, at, nextId, tx, db>>
    <3>1. sending' = sending \ {ev} /\ sending = {ev}
      BY <1>2, <1>U DEF Enqueue, Sends
    <3> QED  BY <1>2, <1>T, <3>1 DEF Enqueue, loopVars, durable, Event
  <2>2. n \in Nat /\ Len(Line') = n + 1 /\ Line'[n + 1] = ev
        /\ \A i \in 1 .. n : Line'[i] = Line[i]
    <3>1. Len(queue') = Len(queue) + 1 /\ queue'[Len(queue) + 1] = ev
          /\ \A i \in 1 .. Len(queue) : queue'[i] = queue[i]
      BY <1>T, <2>1
    <3>2. /\ Line' = batch \o queue' /\ queue' \in Seq(Event)
      BY <1>T, <2>1 DEF Line
    <3>3. /\ Len(Line') = Len(batch) + Len(queue')
          /\ \A i \in 1 .. Len(batch) : Line'[i] = batch[i]
          /\ \A i \in 1 .. Len(queue') : Line'[Len(batch) + i] = queue'[i]
      BY <1>T, <3>2, LineItems
    <3>4. n \in Nat /\ Len(Line') = n + 1 /\ n = Len(batch) + Len(queue)
      BY <1>L, <3>1, <3>3
    <3>5. Line'[n + 1] = ev
      <4>1. Len(queue) + 1 \in 1 .. Len(queue') /\ n + 1 = Len(batch) + (Len(queue) + 1)
        BY <1>L, <3>1
      <4> QED  BY <3>1, <3>3, <4>1
    <3>6. ASSUME NEW i \in 1 .. n PROVE Line'[i] = Line[i]
      <4>1. CASE i <= Len(batch)
        BY <1>L, <3>3, <3>4, <4>1
      <4>2. CASE i > Len(batch)
        <5>1. PICK k \in 1 .. Len(queue) : i = Len(batch) + k
          <6>1. i - Len(batch) \in 1 .. Len(queue) /\ i = Len(batch) + (i - Len(batch))
            BY <1>L, <3>4, <4>2
          <6> QED  BY <6>1
        <5>2. k \in 1 .. Len(queue')
          BY <1>L, <3>1
        <5> QED  BY <1>L, <3>1, <3>3, <5>1, <5>2
      <4> QED  BY <1>L, <3>4, <4>1, <4>2
    <3> QED  BY <3>4, <3>5, <3>6
  <2>3. RowsBefore(tx, ev.id) /\ ev.id < nextId /\ \A i \in 1 .. n : Line[i].id < ev.id
    BY <1>U DEF Sends
  <2> HIDE DEF n
  <2>4. \A i \in 1 .. Len(Line') :
           (i \in 1 .. n /\ Line'[i] = Line[i]) \/ (i = n + 1 /\ Line'[i] = ev)
    BY <2>2
  <2>5. \A i, j \in 1 .. Len(Line') : i < j => Line'[i].id < Line'[j].id
    <3> SUFFICES ASSUME NEW i \in 1 .. Len(Line'), NEW j \in 1 .. Len(Line'), i < j
                 PROVE  Line'[i].id < Line'[j].id
      OBVIOUS
    <3>1. i \in 1 .. n /\ Line'[i] = Line[i]
      BY <2>2
    <3>2. CASE j \in 1 .. n /\ Line'[j] = Line[j]
      BY <1>U, <3>1, <3>2 DEF Lined, n
    <3>3. CASE Line'[j] = ev
      BY <2>3, <3>1, <3>3
    <3> QED  BY <2>4, <3>2, <3>3
  <2>6. \A i \in 1 .. Len(Line') : Line'[i].id < nextId
    BY <1>U, <2>3, <2>4 DEF Lined, n
  <2>7. \A i \in at .. Len(Line') : RowsBefore(tx, Line'[i].id)
    <3> SUFFICES ASSUME NEW i \in at .. Len(Line') PROVE RowsBefore(tx, Line'[i].id)
      OBVIOUS
    <3>1. i \in 1 .. Len(Line') /\ (i \in 1 .. n => i \in at .. Len(Line))
      BY <1>T, <2>2 DEF n
    <3> QED  BY <1>U, <2>3, <2>4, <3>1 DEF Lined
  <2>8. Lined' /\ Sends'
    BY <1>U, <2>1, <2>5, <2>6, <2>7 DEF Lined, Sends, RowsBefore
  <2> QED  BY <1>U, <2>1, <2>8 DEF OneCaller, InOrder
<1>3. ASSUME NEW ev \in sending, RefuseClosed(ev) PROVE OneCaller'
  <2>1. /\ sending' = {} /\ Line' = Line /\ UNCHANGED <<at, nextId, tx, db>>
    BY <1>3, <1>U DEF RefuseClosed, Sends, Line, loopVars, durable
  <2> QED  BY <1>U, <2>1 DEF OneCaller, Lined, Sends, InOrder, RowsBefore
<1>4. ASSUME Close \/ Tick \/ UNCHANGED vars PROVE OneCaller'
  BY <1>4, <1>S DEF Close, Tick, vars, callerVars, loopVars, durable, Line
<1>5. ASSUME Select PROVE OneCaller'
  <2>1. /\ UNCHANGED <<sending, nextId, tx, db>> /\ at = 1 /\ at' = 1
    BY <1>5 DEF Select, Receive, TimerFlush, ServeSeal, Drain, StartBatch, Flow, callerVars,
         durable
  <2>2. PICK n \in 0 .. Len(queue) :
           batch' = Taken(n) /\ queue' = SubSeq(queue, n + 1, Len(queue))
    BY <1>0, <1>5, SelectCuts
  <2>3. Line' = Line
    BY <1>T, <2>2, CutLine DEF Line
  <2> QED  BY <1>S, <2>1, <2>3
<1>6. ASSUME OpenRow \/ OpenForced \/ EndBatch \/ SkipSeal \/ SealSegment \/ SkipCheckpoint
             \/ WriteCheckpoint \/ Restart \/ \E s \in Session : FinalPass(s)
      PROVE  OneCaller'
  <2>1. UNCHANGED <<sending, nextId, db, batch, queue, at>>
    BY <1>6 DEF OpenRow, OpenForced, EndBatch, SkipSeal, SealSegment, SkipCheckpoint,
         WriteCheckpoint, Restart, FinalPass, callerVars, loopVars, durable
  <2>2. tx'.rows = tx.rows /\ tx'.lastRow = tx.lastRow
    BY <1>6, <1>T DEF OpenRow, OpenForced, EndBatch, SkipSeal, SealSegment, SkipCheckpoint,
         WriteCheckpoint, Restart, FinalPass, Ledger
  <2> QED  BY <1>S, <2>1, <2>2 DEF Line
<1>7. CASE InsertRow
  <2> DEFINE e == batch[at]
  <2>1. /\ UNCHANGED <<sending, nextId, db, batch, queue>> /\ at' = at + 1 /\ Line' = Line
        /\ tx' = Inserted(tx, cur, mem[cur].segIndex, e)
    BY <1>7 DEF InsertRow, callerVars, durable, Line
  <2>2. cur \in Session /\ mem[cur].segIndex \in Nat /\ at \in 1 .. Len(batch)
    <3>1. pc = "insert"
      BY <1>7 DEF InsertRow
    <3>2. cur \in Session /\ at <= Len(batch)
      BY <1>0, <3>1 DEF CtlInv, ControlOK
    <3>3. mem[cur] \in Mem
      BY <1>0, <3>2 DEF CtlInv, TypeOK
    <3> QED  BY <1>T, <3>2, <3>3 DEF Mem
  <2>3. e \in Event /\ e.id \in Nat /\ e = Line[at] /\ at \in at .. Len(Line)
        /\ at \in 1 .. Len(Line)
    <3>1. e \in Event
      BY <1>T, <2>2
    <3> QED  BY <1>L, <2>2, <3>1 DEF Event
  <2>4. RowsBefore(tx, e.id) /\ e.id < nextId
    BY <1>U, <2>3 DEF Lined
  <2> HIDE DEF e
  <2>5. InOrder(tx') /\ \A n \in Nat : e.id < n /\ RowsBefore(tx, n) => RowsBefore(tx', n)
    BY <1>T, <1>U, <2>1, <2>2, <2>3, <2>4, OrderKept
  <2>6. ASSUME NEW i \in at + 1 .. Len(Line) PROVE RowsBefore(tx', Line[i].id)
    <3>1. i \in at .. Len(Line) /\ i \in 1 .. Len(Line) /\ at < i
      BY <2>2
    <3>2. e.id < Line[i].id /\ RowsBefore(tx, Line[i].id) /\ Line[i].id \in Nat
      BY <1>L, <1>U, <2>3, <3>1 DEF Lined
    <3> QED  BY <2>5, <3>2
  <2>7. RowsBefore(tx', nextId)
    BY <1>T, <1>U, <2>4, <2>5 DEF Lined
  <2>8. ASSUME NEW ev \in sending PROVE RowsBefore(tx', ev.id)
    <3>1. e.id < ev.id /\ RowsBefore(tx, ev.id) /\ ev.id \in Nat
      BY <1>T, <1>U, <2>3 DEF Sends, Event
    <3> QED  BY <2>5, <3>1
  <2>9. Lined'
    BY <1>U, <2>1, <2>6, <2>7 DEF Lined, RowsBefore
  <2>10. Sends'
    BY <1>U, <2>1, <2>8 DEF Sends, RowsBefore
  <2> QED  BY <1>U, <2>1, <2>5, <2>9, <2>10 DEF OneCaller, InOrder
<1>8. ASSUME Commits \/ Rollbacks PROVE OneCaller'
  <2>1. /\ UNCHANGED <<sending, nextId, queue>> /\ batch' = << >> /\ at' = 1
    <3>1. UNCHANGED <<sending, nextId, queue>>
      BY <1>8 DEF Commits, CommitBatch, CommitForced, Rollbacks, BatchFails, ForcedFails,
           callerVars
    <3>2. batch' = << >>
      BY <1>0, <1>8 DEF Commits, CommitBatch, CommitForced, Rollbacks, BatchFails, ForcedFails,
           Forcing, FinishBatch, CtlInv, ControlOK
    <3> QED  BY <1>T, <3>1, <3>2
  <2>2. Line' = queue
    BY <1>T, <2>1, ConcatEmptySeq DEF Line
  <2>3. ASSUME NEW i \in 1 .. Len(queue)
        PROVE  /\ Len(batch) + i \in at .. Len(Line) /\ Len(batch) + i \in 1 .. Len(Line)
               /\ Line'[i] = Line[Len(batch) + i]
    BY <1>T, <1>L, <2>2
  <2>4. (tx' = tx \/ tx' = db) /\ (db' = tx \/ db' = db)
    BY <1>8 DEF Commits, CommitBatch, CommitForced, Rollbacks, BatchFails, ForcedFails, Rollback,
         durable
  <2>5. \A n : RowsBefore(tx, n) => RowsBefore(tx', n)
    BY <1>0, <1>T, <2>4, BeforeKept
  <2>6. InOrder(tx') /\ InOrder(db')
    BY <1>U, <2>4
  <2>7. \A i, j \in 1 .. Len(Line') : i < j => Line'[i].id < Line'[j].id
    <3> SUFFICES ASSUME NEW i \in 1 .. Len(queue), NEW j \in 1 .. Len(queue), i < j
                 PROVE  Line'[i].id < Line'[j].id
      BY <2>2
    <3>1. Len(batch) + i < Len(batch) + j
      BY <1>L
    <3> QED  BY <1>U, <2>3, <3>1 DEF Lined
  <2>8. \A i \in 1 .. Len(Line') : Line'[i].id < nextId /\ RowsBefore(tx', Line'[i].id)
    BY <1>U, <2>2, <2>3, <2>5 DEF Lined
  <2>9. Lined'
    BY <1>U, <2>1, <2>5, <2>7, <2>8 DEF Lined, RowsBefore
  <2>10. Sends'
    BY <1>U, <2>1, <2>2, <2>3, <2>5 DEF Sends, RowsBefore
  <2> QED  BY <2>6, <2>9, <2>10 DEF OneCaller, InOrder
<1>9. CASE Crash
  <2>1. /\ sending' = {} /\ batch' = << >> /\ queue' = << >> /\ nextId' = nextId
        /\ tx' = db /\ db' = db
    BY <1>9 DEF Crash, Forgotten, durable
  <2>2. Len(Line') = 0 /\ at' \in 1 .. 1
    BY <1>T, <2>1 DEF Line
  <2>3. RowsBefore(tx', nextId)
    BY <1>0, <1>T, <1>U, <2>1, BeforeKept DEF Lined
  <2>4. Lined' /\ Sends'
    BY <2>1, <2>2, <2>3 DEF Lined, Sends, RowsBefore
  <2> QED  BY <1>U, <2>1, <2>4 DEF OneCaller, InOrder
<1> QED  BY <1>1, <1>2, <1>3, <1>4, <1>5, <1>6, <1>7, <1>8, <1>9
         DEF Next, Callers, Transaction, Faults, Commits, Rollbacks

\* With one caller, the rows appear in the order of its calls and once each,
\* across sessions, cuts and flushes of the batch, failures and restarts.
THEOREM OneCallerInOrder ==
    ASSUME MaxSenders <= 1
    PROVE  Spec => []CallerOrderKept
<1>1. Init => WriterInv /\ Flow /\ OneCaller
  BY InitInv, InitFlow, InitCaller
<1>2. WriterInv /\ Flow /\ OneCaller /\ [Next]_vars => (WriterInv /\ Flow /\ OneCaller)'
  BY NextInv, NextFlow, NextCaller
<1>3. OneCaller => CallerOrderKept
  BY DEF OneCaller, InOrder, CallerOrderKept
<1> QED  BY <1>1, <1>2, <1>3, PTL DEF Spec
=============================================================================
