---------------------------- MODULE LedgerVerify ----------------------------
(***************************************************************************)
(* The durable ledger (internal/ledger/db.go) as a value, the hashes that  *)
(* chain it (internal/chain) and the checks `rana verify` runs over it     *)
(* (internal/ledger/verify.go, gap_check.go).  No state: a ledger is a     *)
(* record, and the writer and the verifier share this module.              *)
(*                                                                         *)
(* A digest stands for what it commits to.  A segment header contains the  *)
(* previous segment's hash, so the hash of segment k commits to the        *)
(* headers 0..k in order: it is the sequence of those headers.  Likewise a *)
(* checkpoint's hash is the sequence of checkpoint bodies up to it, and a  *)
(* Merkle root (always paired with event_count in the header) is the       *)
(* sequence of leaves.  32 zero bytes are the empty sequence.              *)
(***************************************************************************)
EXTENDS Integers, Sequences, FiniteSets

CONSTANTS Session,      \* session ids
          GapReason,    \* the frozen vocabulary of gap reasons
          NoGap         \* marks an event that is not a gap event

ASSUME GapAssumption == NoGap \notin GapReason /\ IsFiniteSet(GapReason)

Event == [id : Nat, session : Session, gap : GapReason \cup {NoGap}]

Zero == << >>           \* 32 zero bytes: genesis of both chains

----------------------------------------------------------------------------
(* internal/chain *)

Leaf(ev) == ev

MerkleRoot(leaves) == leaves

GapTally == [GapReason -> Nat]

NoGaps == [r \in GapReason |-> 0]

\* A segment header without the hash of its predecessor.
Header == [session : Session, seg : Nat, first : Nat, last : Nat, count : Nat,
           root : Seq(Event), gaps : GapTally, sealed : Nat]

SegHashes == Seq(Header)

SegHash(prev, h) == Append(prev, h)

\* A checkpoint body without the hash of its predecessor.
Body == [session : Session, segFirst : Int, segLast : Int,
         head : SegHashes, signed : Nat]

CkptHashes == Seq(Body)

CheckpointHash(prev, b) == Append(prev, b)

----------------------------------------------------------------------------
(* The tables.  rows[s] is SELECT ... FROM events WHERE session = s ORDER   *)
(* BY rowid, segs[s] the same for segments ORDER BY seg, ckpts the          *)
(* checkpoints table ORDER BY cid.  rowids are shared by all the sessions:  *)
(* lastRow is the largest one in use.                                       *)

Row == [rowid : Nat, seg : Nat, ev : Event]

SegRow == [header : Header, prev : SegHashes, hash : SegHashes]

CkptRow == [body : Body, prev : CkptHashes]

Ledger == [sessions : SUBSET Session,
           lastRow  : Nat,
           rows     : [Session -> Seq(Row)],
           segs     : [Session -> Seq(SegRow)],
           ckpts    : Seq(CkptRow)]

EmptyLedger == [sessions |-> {},
                lastRow  |-> 0,
                rows     |-> [s \in Session |-> << >>],
                segs     |-> [s \in Session |-> << >>],
                ckpts    |-> << >>]

HeadReport == [session : Session, segLast : Int, head : SegHashes, ckpt : CkptHashes]

LastSegHash(L, s) ==
    IF L.segs[s] = << >> THEN Zero ELSE L.segs[s][Len(L.segs[s])].hash

NextSeg(L, s) ==
    IF L.segs[s] = << >> THEN 0 ELSE L.segs[s][Len(L.segs[s])].header.seg + 1

\* loadLedgerPrevCheckpointHash: the newest checkpoint of the whole ledger.
LastCkptHash(L) ==
    IF L.ckpts = << >> THEN Zero
    ELSE CheckpointHash(L.ckpts[Len(L.ckpts)].prev, L.ckpts[Len(L.ckpts)].body)

\* A segment of s is attested when some checkpoint's seg_last reaches it.
Attested(L, s, seg) ==
    \E i \in 1 .. Len(L.ckpts) : /\ L.ckpts[i].body.session = s
                                 /\ L.ckpts[i].body.segLast >= seg

----------------------------------------------------------------------------
(* verifySession *)

\* readSegmentEvents: the rows of s with rowid in the header's range, in
\* rowid order (rowids ascend along rows[s], so they are neighbours).
RowsIn(L, s, first, last) ==
    {i \in 1 .. Len(L.rows[s]) : /\ first <= L.rows[s][i].rowid
                                 /\ L.rows[s][i].rowid <= last}

LeastIn(I) == CHOOSE i \in I : \A j \in I : i <= j

GreatestIn(I) == CHOOSE i \in I : \A j \in I : j <= i

SegmentEvents(L, s, first, last) ==
    LET I == RowsIn(L, s, first, last)
    IN  IF I = {} THEN << >>
        ELSE [k \in 1 .. GreatestIn(I) - LeastIn(I) + 1 |->
                 L.rows[s][LeastIn(I) + k - 1].ev]

\* gapCountsFromEvents: the tally decoded from the events themselves.
GapCounts(evs) ==
    [r \in GapReason |-> Cardinality({i \in 1 .. Len(evs) : evs[i].gap = r})]

RowContinuity(L, s, k) ==
    LET h == L.segs[s][k].header
    IN  \/ Len(SegmentEvents(L, s, h.first, h.last)) = h.count
        \/ h.gaps # NoGaps

GapHonest(L, s, k) ==
    LET h == L.segs[s][k].header
    IN  GapCounts(SegmentEvents(L, s, h.first, h.last)) = h.gaps

MerkleMatches(L, s, k) ==
    LET h == L.segs[s][k].header
    IN  MerkleRoot(SegmentEvents(L, s, h.first, h.last)) = h.root

HeaderHashMatches(L, s, k) ==
    L.segs[s][k].hash = SegHash(L.segs[s][k].prev, L.segs[s][k].header)

\* prevHash starts at 32 zero bytes and follows the stored seg_hash.
ChainLinked(L, s, k) ==
    L.segs[s][k].prev = (IF k = 1 THEN Zero ELSE L.segs[s][k - 1].hash)

\* Signatures are unforgeable and never altered by the writer, so the check
\* that is left of a checkpoint is that its segment exists and its head is
\* the hash stored for that segment.
CkptSegmentPresent(L, c) ==
    \E k \in 1 .. Len(L.segs[c.body.session]) :
        L.segs[c.body.session][k].header.seg = c.body.segLast

CkptHeadMatches(L, c) ==
    \A k \in 1 .. Len(L.segs[c.body.session]) :
        L.segs[c.body.session][k].header.seg = c.body.segLast
            => L.segs[c.body.session][k].hash = c.body.head

\* verifyLedgerWideCheckpointChain
CkptChained(L, i) ==
    L.ckpts[i].prev = (IF i = 1 THEN Zero
                       ELSE CheckpointHash(L.ckpts[i - 1].prev, L.ckpts[i - 1].body))

\* Every check verifySession makes of the k-th segment of a listed session.
SegmentClean(L, s, k) ==
    /\ RowContinuity(L, s, k)
    /\ GapHonest(L, s, k)
    /\ MerkleMatches(L, s, k)
    /\ HeaderHashMatches(L, s, k)
    /\ ChainLinked(L, s, k)

\* Verify walks the sessions table (listSessions): a session without a row
\* there has none of its segments and checkpoints checked, except for the
\* links of the ledger-wide checkpoint chain.
VerifyClean(L) ==
    /\ \A s \in L.sessions : \A k \in 1 .. Len(L.segs[s]) : SegmentClean(L, s, k)
    /\ \A i \in 1 .. Len(L.ckpts) :
          /\ L.ckpts[i].body.session \in L.sessions =>
                /\ CkptSegmentPresent(L, L.ckpts[i])
                /\ CkptHeadMatches(L, L.ckpts[i])
          /\ CkptChained(L, i)

CodeOK == 0
CodeBroken == 2

\* Verify: any finding means BROKEN.
VerifyCode(L) == IF VerifyClean(L) THEN CodeOK ELSE CodeBroken

----------------------------------------------------------------------------
(* verifyMirror: heads is the content of heads.log; the last line for a     *)
(* (session, seg_last) wins, and a checkpoint without a line is no finding. *)

MirrorIndex(heads, s, seg) ==
    {j \in 1 .. Len(heads) : heads[j].session = s /\ heads[j].segLast = seg}

MirrorMatches(L, heads) ==
    \A i \in 1 .. Len(L.ckpts) :
        LET c == L.ckpts[i]
            J == MirrorIndex(heads, c.body.session, c.body.segLast)
        IN  J # {} => /\ heads[GreatestIn(J)].head = c.body.head
                      /\ heads[GreatestIn(J)].ckpt = CheckpointHash(c.prev, c.body)

=============================================================================
