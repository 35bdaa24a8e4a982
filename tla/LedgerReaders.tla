--------------------------- MODULE LedgerReaders ---------------------------
(***************************************************************************)
(* The ledger of one session under its other users, each a process of its  *)
(* own beside the writer: Verify, GC (perhaps twice at once) and Export,   *)
(* whose result the standalone verifier judges.  Every query they make is  *)
(* a snapshot of its own; between two of them anything may be committed.   *)
(*                                                                         *)
(* What LedgerVerify works out over hashes is taken from there: the root   *)
(* of a segment matches exactly the rows it was sealed over.  A row is its *)
(* rowid, a segment its place in the chain.  Verify and Export change      *)
(* nothing, so one of each, an export not beside a verification, meets all *)
(* they can meet.                                                          *)
(***************************************************************************)
EXTENDS Integers, Sequences, FiniteSets

CONSTANTS Collector,               \* processes that run `rana gc`
          MaxRows, MaxDeaths, MaxOthers       \* bounds

ASSUME ReadersAssumption == MaxRows \in Nat

VARIABLES
    live,      \* per rowid: whether its bytes are there (GC nulls them)
    open,      \* the first rowid of the writer's accumulator
    sealed,    \* segments: first, last, whether archived_path is set
    signed,    \* checkpoints of the ledger: the segment each ends with, or 0 if
               \* it is another session's
    archive,   \* the archive files: per segment the rows in it
    gc,        \* where each GC stands
    verify,    \* where Verify stands, and its verdict
    export,    \* where Export stands, and its files
    deaths,    \* (bound)
    shared     \* ours: segments that two GCs had before them at once

readerVars == <<live, open, sealed, signed, archive, gc, verify, export, deaths, shared>>

----------------------------------------------------------------------------

Rows(g) == g.first .. g.last
NoFile == [written |-> FALSE, rows |-> {}]
NoTarget == [at |-> "rest", targets |-> {}, seg |-> 0, rows |-> {}]
Resting == [at |-> "rest", touched |-> {}, events |-> {}, segs |-> <<>>, ckpts |-> <<>>,
            todo |-> {}, bad |-> FALSE, code |-> "none", tail |-> {}]

ReadersInit ==
    /\ live = <<>> /\ open = 1 /\ sealed = <<>> /\ signed = <<>> /\ deaths = 0 /\ shared = {}
    /\ archive = [k \in 1 .. MaxRows |-> NoFile]
    /\ gc = [c \in Collector |-> NoTarget]
    /\ verify = Resting /\ export = Resting

\* What a reader under way meets; the verdict of one that is done speaks of a
\* ledger that is no more.
Touched(r, what) ==
    IF r.at \in {"rest", "over"} THEN r
    ELSE IF r.at = "done" THEN [Resting EXCEPT !.at = "over"]
    ELSE [r EXCEPT !.touched = @ \cup {what}]
Touch2(what) == verify' = Touched(verify, what) /\ export' = Touched(export, what)

----------------------------------------------------------------------------
(* The writer, one transaction at a time *)

\* A batch of one row of the session; with it the segment may be sealed, and
\* with that a checkpoint signed.  The checkpoints of all sessions are one
\* chain: another session in the batch may sign first (which matters only
\* behind one of this session's).
CommitBatch(seals, signs, others) ==
    /\ Len(live) < MaxRows /\ (signs => seals)
    /\ others => signs /\ signed # <<>> /\ Cardinality({i \in DOMAIN signed : signed[i] = 0}) < MaxOthers
    /\ live' = Append(live, TRUE)
    /\ IF seals
       THEN /\ sealed' = Append(sealed, [first |-> open, last |-> Len(live) + 1, archived |-> FALSE])
            /\ open' = Len(live) + 2
       ELSE UNCHANGED <<sealed, open>>
    /\ signed' = signed \o (IF others THEN <<0>> ELSE <<>>) \o (IF signs THEN <<Len(sealed) + 1>> ELSE <<>>)
    /\ Touch2(IF signs THEN "checkpoint" ELSE "rows")
    /\ UNCHANGED <<archive, gc, deaths, shared>>

\* A restarted writer goes on behind the rows that were not sealed.
WriterRestarts ==
    /\ open <= Len(live) /\ deaths < MaxDeaths
    /\ open' = Len(live) + 1 /\ deaths' = deaths + 1
    /\ UNCHANGED <<live, sealed, signed, archive, gc, verify, export, shared>>

----------------------------------------------------------------------------
(* GC *)

InRange(g) == {r \in Rows(g) : live[r]}

\* The query for eligible segments: by their age, so all that are not archived
\* up to some segment m.
FindTargets(c, m) ==
    /\ gc[c].at = "rest" /\ ~sealed[m].archived
    /\ LET found == {k \in 1 .. m : ~sealed[k].archived}
       IN  /\ gc' = [gc EXCEPT ![c] = [NoTarget EXCEPT !.at = "read", !.targets = found]]
           /\ shared' = shared \cup {k \in found : \E d \in Collector : k \in gc[d].targets}
    /\ UNCHANGED <<live, open, sealed, signed, archive, verify, export, deaths>>

\* archiveSegment, readSegmentEvents: nulled rows are skipped.
ReadForArchive(c) ==
    /\ gc[c].at = "read"
    /\ \E k \in gc[c].targets :
        /\ \A i \in gc[c].targets : k <= i
        /\ gc' = [gc EXCEPT ![c].at = "rename", ![c].seg = k, ![c].rows = InRange(sealed[k])]
    /\ UNCHANGED <<live, open, sealed, signed, archive, verify, export, deaths, shared>>

\* The temporary file, written and fsynced, takes the archive's name.
RenameArchive(c) ==
    /\ gc[c].at = "rename"
    /\ archive' = [archive EXCEPT ![gc[c].seg] = [written |-> TRUE, rows |-> gc[c].rows]]
    /\ gc' = [gc EXCEPT ![c].at = "commit"]
    /\ UNCHANGED <<live, open, sealed, signed, verify, export, deaths, shared>>

\* The next of the targets, if there is one.
Proceed(c) ==
    LET left == gc[c].targets \ {gc[c].seg}
    IN  [NoTarget EXCEPT !.at = IF left = {} THEN "rest" ELSE "read", !.targets = left]

\* mutant: the update has no lower bound
ClearRowsUpTo(c) ==
    /\ gc[c].at = "commit"
    /\ live' = [r \in DOMAIN live |-> live[r] /\ r > sealed[gc[c].seg].last]
    /\ sealed' = [sealed EXCEPT ![gc[c].seg].archived = TRUE]
    /\ gc' = [gc EXCEPT ![c] = Proceed(c)]
    /\ Touch2("gc")
    /\ UNCHANGED <<open, signed, archive, deaths, shared>>

\* The transaction that nulls the rows and records the path.
ClearRows(c) ==
    /\ gc[c].at = "commit"
    /\ live' = [r \in DOMAIN live |-> live[r] /\ r \notin Rows(sealed[gc[c].seg])]
    /\ sealed' = [sealed EXCEPT ![gc[c].seg].archived = TRUE]
    /\ gc' = [gc EXCEPT ![c] = Proceed(c)]
    /\ Touch2("gc")
    /\ UNCHANGED <<open, signed, archive, deaths, shared>>

\* GC returns early, or its process dies; the next one starts over.
GcStops(c) ==
    /\ gc[c].at # "rest" /\ deaths < MaxDeaths
    /\ gc' = [gc EXCEPT ![c] = NoTarget] /\ deaths' = deaths + 1
    /\ UNCHANGED <<live, open, sealed, signed, archive, verify, export, shared>>

GcStep(c) == ReadForArchive(c) \/ RenameArchive(c) \/ ClearRows(c) \/ GcStops(c)
                \/ \E m \in DOMAIN sealed : FindTargets(c, m)

----------------------------------------------------------------------------
(* Verify *)

ReadSegments ==
    /\ verify.at = "rest" /\ export.at = "rest"
    /\ verify' = [verify EXCEPT !.at = "checkpoints", !.segs = sealed]
    /\ UNCHANGED <<live, open, sealed, signed, archive, gc, export, deaths, shared>>

ReadCheckpoints ==
    /\ verify.at = "checkpoints"
    /\ verify' = [verify EXCEPT !.at = "events", !.ckpts = signed,
                                !.todo = {k \in DOMAIN verify.segs : ~verify.segs[k].archived}]
    /\ UNCHANGED <<live, open, sealed, signed, archive, gc, export, deaths, shared>>

\* verifySession, one segment: its rows are read by their range; with one
\* missing, count and root do not match.
CheckSegment ==
    /\ verify.at = "events"
    /\ \E k \in verify.todo :
        /\ \A i \in verify.todo : k <= i
        /\ verify' = [verify EXCEPT !.todo = @ \ {k},
                                    !.bad = @ \/ InRange(verify.segs[k]) # Rows(verify.segs[k])]
    /\ UNCHANGED <<live, open, sealed, signed, archive, gc, export, deaths, shared>>

\* mutant: the last segment counts as missing
MissesLast(segs, ckpts) == \E i \in DOMAIN ckpts : ckpts[i] >= Len(segs)

\* A checkpoint whose segment was not among those read is a finding too.
MissesSegment(segs, ckpts) == \E i \in DOMAIN ckpts : ckpts[i] > Len(segs)

\* The segments behind the last checkpoint; none: the last one checkpointed is
\* the one before the first.
TailAfter(segs, ckpts, none) ==
    {k \in DOMAIN segs : k > none /\ \A i \in DOMAIN ckpts : k > ckpts[i]}

Verdict ==
    /\ verify.at = "events" /\ verify.todo = {}
    /\ LET archived == {k \in DOMAIN verify.segs : verify.segs[k].archived} IN
       verify' = [Resting EXCEPT
                    !.at = "done", !.touched = verify.touched,
                    !.code = IF verify.bad \/ MissesSegment(verify.segs, verify.ckpts) THEN "broken"
                             ELSE IF archived # {} THEN "incomplete" ELSE "ok",
                    !.tail = TailAfter(verify.segs, verify.ckpts, 0) \ archived]
    /\ UNCHANGED <<live, open, sealed, signed, archive, gc, export, deaths, shared>>

VerifyStep == ReadSegments \/ ReadCheckpoints \/ CheckSegment \/ Verdict

----------------------------------------------------------------------------
(* Export, and what the standalone verifier makes of its files *)

ExportEvents ==
    /\ export.at = "rest" /\ verify.at \in {"rest", "done", "over"}
    /\ export' = [export EXCEPT !.at = "segments", !.events = {r \in DOMAIN live : live[r]}]
    /\ UNCHANGED <<live, open, sealed, signed, archive, gc, verify, deaths, shared>>

ExportSegments ==
    /\ export.at = "segments"
    /\ export' = [export EXCEPT !.at = "checkpoints", !.segs = sealed]
    /\ UNCHANGED <<live, open, sealed, signed, archive, gc, verify, deaths, shared>>

\* verifySegments hands the leaves out by count, in the order of the file: a
\* segment's begin behind those of the segments before it.
Cursor(segs, k) == Cardinality(UNION {Rows(segs[j]) : j \in 1 .. k - 1})
Place(events, r) == Cardinality({e \in events : e <= r})

LeavesMatch(events, segs, k) ==
    \A r \in Rows(segs[k]) :
        r \in events /\ Place(events, r) = Cursor(segs, k) + r - segs[k].first + 1

\* A checkpoint that is not the first of the export chains from one that is
\* not in it.
Interrupted(ckpts) ==
    \E i, j, k \in DOMAIN ckpts : i < j /\ j < k /\ ckpts[i] # 0 /\ ckpts[j] = 0 /\ ckpts[k] # 0

\* VerifyExportFiles: broken segments first, then checkpoints without theirs,
\* then their chain.
ExportCode(events, segs, ckpts) ==
    IF \E k \in DOMAIN segs : ~LeavesMatch(events, segs, k) THEN "broken"
    ELSE IF MissesSegment(segs, ckpts) THEN "incomplete"
    ELSE IF Interrupted(ckpts) THEN "broken" ELSE "ok"

\* lastCheckpointedSeg is a map: without a checkpoint it reads 0, which is the
\* first segment.
ExportTail(segs, ckpts) == TailAfter(segs, ckpts, 1)

ExportCheckpoints ==
    /\ export.at = "checkpoints"
    /\ export' = [Resting EXCEPT !.at = "done", !.touched = export.touched,
                                 !.code = ExportCode(export.events, export.segs, signed),
                                 !.tail = ExportTail(export.segs, signed)]
    /\ UNCHANGED <<live, open, sealed, signed, archive, gc, verify, deaths, shared>>

ExportStep == ExportEvents \/ ExportSegments \/ ExportCheckpoints

----------------------------------------------------------------------------

WriterCommits == \E seals, signs, others \in BOOLEAN : CommitBatch(seals, signs, others)

ReadersNext ==
    \/ WriterCommits \/ WriterRestarts
    \/ \E c \in Collector : GcStep(c)
    \/ VerifyStep \/ ExportStep

ReadersSpec == ReadersInit /\ [][ReadersNext]_readerVars

----------------------------------------------------------------------------
(* Properties *)

Archived == {k \in DOMAIN sealed : sealed[k].archived}

\* gc.go, archiveSegment: the rows GC nulls are in the archive of their
\* segment, through deaths of GC at any point and any number of retries, unless
\* two GCs had the segment before them at the same time.
ClearedIsArchived ==
    /\ \A k \in Archived \ shared : archive[k].rows = Rows(sealed[k])
    /\ \A r \in DOMAIN live : ~live[r] => \E k \in Archived : r \in Rows(sealed[k])

\* While nothing else is committed, Verify reports INCOMPLETE exactly for a
\* ledger with archived segments and never BROKEN, orphaned rows or not, and
\* its tail is what no checkpoint covers.
QuietVerdict ==
    (verify.at = "done" /\ verify.touched = {}) =>
        /\ verify.code = (IF Archived # {} THEN "incomplete" ELSE "ok")
        /\ verify.tail = {k \in DOMAIN sealed \ Archived : \A i \in DOMAIN signed : signed[i] < k}

\* Only a checkpoint or a GC that lands between Verify's queries makes it
\* call an unaltered ledger BROKEN: rows and seals alone do not.
BrokenOnlyByOverlap ==
    (verify.at = "done" /\ verify.code = "broken") => verify.touched \cap {"checkpoint", "gc"} # {}

\* Rows that no segment covers and that a sealed one follows.
Orphans == {r \in DOMAIN live : /\ \A k \in DOMAIN sealed : r \notin Rows(sealed[k])
                                /\ \E k \in DOMAIN sealed : r < sealed[k].first}

\* A quiet export is called BROKEN exactly when something is archived, or rows
\* were left unsealed before a later segment, or another session's checkpoint
\* lies between two of this one's; else intact.
ExportVerdict ==
    (export.at = "done" /\ export.touched = {}) =>
        export.code = (IF Archived \cup Orphans # {} \/ Interrupted(signed) THEN "broken" ELSE "ok")

\* What both verifiers say of a ledger that nobody altered has its reason.
VerdictsJustified == QuietVerdict /\ BrokenOnlyByOverlap /\ ExportVerdict

\* TRUST.md: a verification never reports a false 2.
NeverFalselyBroken == verify.at = "done" => verify.code # "broken"

\* exportverify/verify.go: any disagreement with Verify on the same data is a bug.
VerifiersAgree ==
    (verify.at = "done" /\ export.at = "done" /\ verify.touched = {} /\ export.touched = {}) =>
        verify.code = export.code

\* The same of the segments no checkpoint covers.
TailsAgree ==
    (verify.at = "done" /\ export.at = "done" /\ verify.touched = {} /\ export.touched = {}) =>
        verify.tail = export.tail

=============================================================================
