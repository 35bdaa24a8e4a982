---------------------------- MODULE LedgerWriter ----------------------------
(***************************************************************************)
(* The single-writer ingestion path of a ledger (internal/ledger/writer.go,*)
(* writer_loop.go, seal.go): callers queue events with Append, one         *)
(* goroutine batches them into group commits, seals segments, signs        *)
(* checkpoints and reports their heads, all inside SQLite transactions     *)
(* that may fail, in a process that may crash and be started again.        *)
(*                                                                         *)
(* The goroutine's control state is pc.  A transaction is the working copy *)
(* tx of the durable ledger db; outside a transaction tx = db.             *)
(***************************************************************************)
EXTENDS LedgerVerify

CONSTANTS NoSession,      \* no SealSession request is being served
          QueueCap,       \* appendQueueCapacity
          BatchMax,       \* groupCommitMaxEvents
          SegMaxEvents,   \* segSealMaxEvents
          SegMaxAge,      \* segSealMaxAge
          CkptMaxSegs,    \* checkpointMaxSegs
          CkptMaxWait,    \* checkpointMaxWait
          HasKey,         \* a signing key is configured
          MaxEvents, MaxSenders, MaxTime, MaxErrors, MaxCrashes, MaxSeals  \* bounds

ASSUME WriterAssumption ==
    /\ NoSession \notin Session
    /\ QueueCap \in Nat \ {0} /\ BatchMax \in Nat \ {0}
    /\ SegMaxEvents \in Nat \ {0} /\ SegMaxAge \in Nat \ {0}
    /\ CkptMaxSegs \in Nat \ {0} /\ CkptMaxWait \in Nat \ {0}
    /\ HasKey \in BOOLEAN
    /\ MaxEvents \in Nat /\ MaxSenders \in Nat /\ MaxTime \in Nat
    /\ MaxErrors \in Nat /\ MaxCrashes \in Nat /\ MaxSeals \in Nat

VARIABLES
    sending,     \* events whose Append passed its checks and waits to send
    queue,       \* the buffered channel w.queue
    closed,      \* closeCh is closed
    batch,       \* the loop's batch
    at,          \* position in batch of the next event to insert
    touched,     \* sessions the final pass of the commit still has to visit
    pc,          \* where the writer goroutine is
    cur,         \* the session maybeSealLocked works on
    why,         \* its caller: an event, the final pass, SealSession
    after,       \* what follows the batch's commit: loop, force, exit
    req,         \* the session of the SealSession request being served
    sealRes,     \* result of the last SealSession request
    mem,         \* w.sessions: in-memory chain state
    ckptHash,    \* w.ledgerPrevCkptHash
    commitErr,   \* w.commitErr # nil
    db,          \* the committed ledger
    tx,          \* the ledger as the open transaction sees it
    heads,       \* head reports mirrored so far (heads.log)
    now,         \* the clock
    \* history, for the bounds and the properties
    nextId, acked, rolledBack, tainted, errors, crashes, seals,
    raced,       \* events sent while Close was under way
    failed,      \* events of batches that were rolled back
    gone         \* events taken from their callers that died with the process

callerVars == <<sending, nextId, acked, raced>>
loopVars   == <<batch, at, touched, cur, why, after>>
sealVars   == <<req, sealRes, seals>>
memVars    == <<mem, ckptHash, commitErr>>
durable    == <<db, heads>>
faultVars  == <<rolledBack, tainted, errors, crashes, failed, gone>>
vars == <<callerVars, queue, closed, loopVars, pc, sealVars, memVars,
          durable, tx, now, faultVars>>

----------------------------------------------------------------------------
(* In-memory chain state of a session *)

Mem == [known : BOOLEAN, segIndex : Nat, first : Nat, last : Nat,
        leaves : Seq(Event), gaps : GapTally, firstTs : Nat, open : BOOLEAN,
        prev : SegHashes, pending : Nat, oldest : Nat, haveOldest : BOOLEAN]

Unknown == [known |-> FALSE, segIndex |-> 0, first |-> 0, last |-> 0,
            leaves |-> << >>, gaps |-> NoGaps, firstTs |-> 0, open |-> FALSE,
            prev |-> Zero, pending |-> 0, oldest |-> 0, haveOldest |-> FALSE]

\* loadPendingSegStats: the sealed segments no checkpoint covers yet.
PendingSegs(L, s) ==
    {k \in 1 .. Len(L.segs[s]) : ~Attested(L, s, L.segs[s][k].header.seg)}

\* mutant: a restarted writer starts the session's hash chain afresh.
LoadedUnlinked(L, s) ==
    [Unknown EXCEPT !.known = TRUE, !.segIndex = NextSeg(L, s)]

\* openOrInitSessionLocked, first touch: chain state from the last sealed
\* segment, checkpoint bookkeeping from the unattested ones.
Loaded(L, s) ==
    LET P == PendingSegs(L, s)
    IN  [Unknown EXCEPT
            !.known      = TRUE,
            !.segIndex   = NextSeg(L, s),
            !.prev       = LastSegHash(L, s),
            !.pending    = Cardinality(P),
            !.haveOldest = P # {},
            !.oldest     = IF P = {} THEN 0 ELSE L.segs[s][LeastIn(P)].header.sealed]

StateOf(L, s) == IF mem[s].known THEN mem[s] ELSE Loaded(L, s)

\* An event arriving at a closed accumulator opens the next segment.
Opened(m) ==
    IF m.open THEN m
    ELSE [m EXCEPT !.open = TRUE, !.firstTs = now, !.leaves = << >>, !.gaps = NoGaps]

\* Only a gap event counts.
Tallied(gaps, r) == IF r = NoGap THEN gaps ELSE [gaps EXCEPT ![r] = @ + 1]

\* mutant: the range of a segment starts at its newest row.
AccumulatedLast(m, ev, rowid) ==
    [m EXCEPT !.first = rowid, !.last = rowid,
              !.leaves = Append(@, Leaf(ev)), !.gaps = Tallied(@, ev.gap)]

\* The accumulator after the row of ev got this rowid.
Accumulated(m, ev, rowid) ==
    [m EXCEPT !.first  = IF @ = 0 THEN rowid ELSE @,
              !.last   = rowid,
              !.leaves = Append(@, Leaf(ev)),
              !.gaps   = Tallied(@, ev.gap)]

Inserted(L, s, seg, ev) ==
    [L EXCEPT !.lastRow = @ + 1,
              !.rows[s] = Append(@, [rowid |-> L.lastRow + 1, seg |-> seg, ev |-> ev])]

----------------------------------------------------------------------------
(* Sealing and checkpointing *)

NewHeader(s, m) ==
    [session |-> s, seg |-> m.segIndex, first |-> m.first, last |-> m.last,
     count |-> Len(m.leaves), root |-> MerkleRoot(m.leaves), gaps |-> m.gaps,
     sealed |-> now]

SealDue(m, force) ==
    /\ m.open
    /\ m.leaves # << >>
    /\ \/ force
       \/ Len(m.leaves) >= SegMaxEvents
       \/ now - m.firstTs >= SegMaxAge

\* mutant: the next segment's range starts where this one's did.
SealedKeepsFirst(m, hash) ==
    [m EXCEPT !.prev = hash, !.segIndex = @ + 1, !.open = FALSE, !.leaves = << >>,
              !.last = 0, !.gaps = NoGaps, !.pending = @ + 1,
              !.haveOldest = TRUE, !.oldest = IF m.haveOldest THEN @ ELSE now]

\* The accumulator after its segment was sealed under this hash.
Sealed(m, hash) ==
    [m EXCEPT !.prev = hash, !.segIndex = @ + 1, !.open = FALSE, !.leaves = << >>,
              !.first = 0, !.last = 0, !.gaps = NoGaps, !.pending = @ + 1,
              !.haveOldest = TRUE, !.oldest = IF m.haveOldest THEN @ ELSE now]

CkptDue(m, force) ==
    /\ HasKey
    /\ m.pending # 0
    /\ \/ force
       \/ m.pending >= CkptMaxSegs
       \/ m.haveOldest /\ now - m.oldest >= CkptMaxWait

\* mutant: the checkpoint names the segment to come.
NewBodyNext(s, m) ==
    [session |-> s, segFirst |-> m.segIndex - m.pending, segLast |-> m.segIndex,
     head |-> m.prev, signed |-> now]

NewBody(s, m) ==
    [session |-> s, segFirst |-> m.segIndex - m.pending, segLast |-> m.segIndex - 1,
     head |-> m.prev, signed |-> now]

Attesting(m) == [m EXCEPT !.pending = 0, !.haveOldest = FALSE]

Report(s, m, hash) ==
    [session |-> s, segLast |-> m.segIndex - 1, head |-> m.prev, ckpt |-> hash]

----------------------------------------------------------------------------
(* Callers *)

Up == pc # "down"

\* w.mu is held from the first event of a transaction to its end, and
\* Append reads the commit error under it.
MuFree == pc \in {"select", "force", "exited"}

\* Append / AppendEncoded up to the select: the event is valid and no commit
\* error has been recorded.
BeginAppend(s, g) ==
    /\ MuFree
    /\ ~commitErr
    /\ nextId < MaxEvents
    /\ Cardinality(sending) < MaxSenders
    /\ sending' = sending \cup {[id |-> nextId, session |-> s, gap |-> g]}
    /\ nextId' = nextId + 1
    /\ UNCHANGED <<acked, raced, queue, closed, loopVars, pc, sealVars, memVars, durable, tx,
                   now, faultVars>>

\* The select sends: Append returns nil.
Enqueue(ev) ==
    /\ Up
    /\ ev \in sending
    /\ Len(queue) < QueueCap
    /\ queue' = Append(queue, ev)
    /\ sending' = sending \ {ev}
    /\ acked' = acked \cup {ev}
    /\ raced' = IF closed THEN raced \cup {ev} ELSE raced
    /\ UNCHANGED <<nextId, closed, loopVars, pc, sealVars, memVars, durable, tx, now,
                   faultVars>>

\* The select sees closeCh: Append returns ErrWriterClosed.
RefuseClosed(ev) ==
    /\ Up /\ closed
    /\ ev \in sending
    /\ sending' = sending \ {ev}
    /\ UNCHANGED <<acked, raced, nextId, queue, closed, loopVars, pc, sealVars, memVars,
                   durable, tx, now, faultVars>>

\* Close, up to waiting for the goroutine.
Close ==
    /\ Up /\ ~closed
    /\ closed' = TRUE
    /\ UNCHANGED <<callerVars, queue, loopVars, pc, sealVars, memVars, durable, tx, now,
                   faultVars>>

----------------------------------------------------------------------------
(* The loop's select *)

\* mutant: drainQueue puts what it takes in front of the batch.
TakenInFront(n) == SubSeq(queue, 1, n) \o batch

\* drainQueue: the batch after n more events were taken from the channel.
Taken(n) == batch \o SubSeq(queue, 1, n)

\* mutant: the seal request is forgotten once the batch before it is flushed
AfterNoSeal(a) == IF a = "exit" THEN "exited" ELSE "select"

\* What the goroutine does once the batch is flushed.
After(a) == CASE a = "loop"  -> "select"
              [] a = "force" -> "force"
              [] a = "exit"  -> "exited"

\* The top of a commit: the transaction starts from what is durable.
StartBatch(b) ==
    /\ batch' = b /\ at' = 1 /\ touched' = {}
    /\ pc' = "row"

Receive ==
    /\ pc = "select"
    /\ queue # << >>
    /\ queue' = Tail(queue)
    /\ LET b == Append(batch, Head(queue))
       IN  IF Len(b) >= BatchMax
           THEN StartBatch(b) /\ after' = "loop"
           ELSE batch' = b /\ UNCHANGED <<at, touched, pc, after>>
    /\ UNCHANGED <<callerVars, closed, cur, why, sealVars, memVars, durable, tx, now,
                   faultVars>>

\* mutant: the room is what the batch already holds
TopUpHeld == IF Len(batch) < Len(queue) THEN Len(batch) ELSE Len(queue)

\* Room left in the batch bounds what a timer flush takes from the queue.
TopUp ==
    LET room == BatchMax - Len(batch)
    IN  IF room < Len(queue) THEN room ELSE Len(queue)

TimerFlush ==
    /\ pc = "select"
    /\ batch # << >> \/ queue # << >>
    /\ StartBatch(Taken(TopUp))
    /\ queue' = SubSeq(queue, TopUp + 1, Len(queue))
    /\ after' = "loop"
    /\ UNCHANGED <<callerVars, closed, cur, why, sealVars, memVars, durable, tx, now,
                   faultVars>>

\* SealSession's request is received: flushAll, then forceSealSession.
ServeSeal(s) ==
    /\ pc = "select"
    /\ seals < MaxSeals
    /\ seals' = seals + 1
    /\ req' = s /\ sealRes' = "pending"
    /\ queue' = << >>
    /\ after' = "force"
    /\ IF batch = << >> /\ queue = << >>
       THEN pc' = After("force") /\ UNCHANGED <<batch, at, touched>>
       ELSE StartBatch(Taken(Len(queue)))
    /\ UNCHANGED <<callerVars, closed, cur, why, memVars, durable, tx, now, faultVars>>

\* The loop picks closeCh: drain, one last commit, return.
Drain ==
    /\ pc = "select"
    /\ closed
    /\ queue' = << >>
    /\ after' = "exit"
    /\ IF batch = << >> /\ queue = << >>
       THEN pc' = After("exit") /\ UNCHANGED <<batch, at, touched>>
       ELSE StartBatch(Taken(Len(queue)))
    /\ UNCHANGED <<callerVars, closed, cur, why, sealVars, memVars, durable, tx, now,
                   faultVars>>

----------------------------------------------------------------------------
(* commitBatchTx and forceSealSession, statement by statement *)

\* The next event's session is looked up, or created in the transaction and
\* loaded; its accumulator is opened.
OpenRow ==
    /\ pc = "row"
    /\ at <= Len(batch)
    /\ LET s == batch[at].session
       IN  /\ mem' = [mem EXCEPT ![s] = Opened(StateOf(tx, s))]
           /\ tx' = IF mem[s].known THEN tx ELSE [tx EXCEPT !.sessions = @ \cup {s}]
           /\ cur' = s
    /\ pc' = "insert"
    /\ UNCHANGED <<callerVars, queue, closed, batch, at, touched, why, after, sealVars,
                   ckptHash, commitErr, durable, now, faultVars>>

InsertRow ==
    /\ pc = "insert"
    /\ LET s == cur
           m == mem[s]
       IN  /\ tx' = Inserted(tx, s, m.segIndex, batch[at])
           /\ mem' = [mem EXCEPT ![s] = Accumulated(m, batch[at], tx.lastRow + 1)]
           /\ touched' = touched \cup {s}
    /\ at' = at + 1
    /\ why' = "event"
    /\ pc' = "seal"
    /\ UNCHANGED <<callerVars, queue, closed, batch, cur, after, sealVars, ckptHash,
                   commitErr, durable, now, faultVars>>

\* The pass over every touched session after the last event.
FinalPass(s) ==
    /\ pc = "row"
    /\ at > Len(batch)
    /\ s \in touched
    /\ touched' = touched \ {s}
    /\ cur' = s /\ why' = "final"
    /\ pc' = "seal"
    /\ UNCHANGED <<callerVars, queue, closed, batch, at, after, sealVars, memVars, durable,
                   tx, now, faultVars>>

EndBatch ==
    /\ pc = "row"
    /\ at > Len(batch)
    /\ touched = {}
    /\ pc' = "commit"
    /\ UNCHANGED <<callerVars, queue, closed, loopVars, sealVars, memVars, durable, tx, now,
                   faultVars>>

\* forceSealSession up to its call of maybeSealLocked.
OpenForced ==
    /\ pc = "force"
    /\ mem' = [mem EXCEPT ![req] = StateOf(tx, req)]
    /\ tx' = IF mem[req].known THEN tx ELSE [tx EXCEPT !.sessions = @ \cup {req}]
    /\ cur' = req /\ why' = "force"
    /\ pc' = "seal"
    /\ UNCHANGED <<callerVars, queue, closed, batch, at, touched, after, sealVars, ckptHash,
                   commitErr, durable, now, faultVars>>

\* Where maybeSealLocked returns to.
Return == IF why = "force" THEN "commit" ELSE "row"

SkipSeal ==
    /\ pc = "seal"
    /\ ~SealDue(mem[cur], why = "force")
    /\ pc' = Return
    /\ UNCHANGED <<callerVars, queue, closed, loopVars, sealVars, memVars, durable, tx, now,
                   faultVars>>

\* The segment row is inserted, the in-memory chain moves on.
SealSegment ==
    /\ pc = "seal"
    /\ SealDue(mem[cur], why = "force")
    /\ LET m    == mem[cur]
           h    == NewHeader(cur, m)
           hash == SegHash(m.prev, h)
       IN  /\ tx' = [tx EXCEPT !.segs[cur] =
                                Append(@, [header |-> h, prev |-> m.prev, hash |-> hash])]
           /\ mem' = [mem EXCEPT ![cur] = Sealed(m, hash)]
    /\ pc' = "ckpt"
    /\ UNCHANGED <<callerVars, queue, closed, loopVars, sealVars, ckptHash, commitErr,
                   durable, now, faultVars>>

SkipCheckpoint ==
    /\ pc = "ckpt"
    /\ ~CkptDue(mem[cur], why = "force")
    /\ pc' = Return
    /\ UNCHANGED <<callerVars, queue, closed, loopVars, sealVars, memVars, durable, tx, now,
                   faultVars>>

\* mutant: the ledger-wide chain is not advanced past the new checkpoint.
NextCkptHashStale(b) == ckptHash

NextCkptHash(b) == CheckpointHash(ckptHash, b)

\* The checkpoint is signed and inserted, and its head is reported at once:
\* the transaction has not been committed yet.
WriteCheckpoint ==
    /\ pc = "ckpt"
    /\ CkptDue(mem[cur], why = "force")
    /\ LET m == mem[cur]
           b == NewBody(cur, m)
       IN  /\ tx' = [tx EXCEPT !.ckpts = Append(@, [body |-> b, prev |-> ckptHash])]
           /\ ckptHash' = NextCkptHash(b)
           /\ mem' = [mem EXCEPT ![cur] = Attesting(m)]
           /\ heads' = Append(heads, Report(cur, m, CheckpointHash(ckptHash, b)))
    /\ pc' = Return
    /\ UNCHANGED <<callerVars, queue, closed, loopVars, sealVars, commitErr, db, now,
                   faultVars>>

Idle == cur' = NoSession /\ why' = "event" /\ after' = "loop"

\* What the goroutine does after a batch transaction, committed or not.
FinishBatch ==
    /\ batch' = << >> /\ at' = 1 /\ touched' = {} /\ Idle
    /\ pc' = After(after)

CommitBatch ==
    /\ pc = "commit"
    /\ why # "force"
    /\ db' = tx
    /\ tainted' = (tainted \/ rolledBack)
    /\ FinishBatch
    /\ UNCHANGED <<callerVars, queue, closed, sealVars, memVars, heads, tx,
                   now, rolledBack, errors, crashes, failed, gone>>

CommitForced ==
    /\ pc = "commit"
    /\ why = "force"
    /\ db' = tx
    /\ tainted' = (tainted \/ rolledBack)
    /\ req' = NoSession /\ sealRes' = "ok"
    /\ pc' = "select" /\ Idle
    /\ UNCHANGED <<callerVars, queue, closed, batch, at, touched, seals, memVars, heads, tx, now,
                   rolledBack, errors, crashes, failed, gone>>

----------------------------------------------------------------------------
(* Failures *)

\* A forced seal is under way: its transaction, not a batch's, is open.
Forcing == pc = "force" \/ (pc \in {"seal", "ckpt", "commit"} /\ why = "force")

InBatch == pc \in {"row", "insert", "seal", "ckpt", "commit"} /\ ~Forcing

Rollback ==
    /\ errors < MaxErrors
    /\ errors' = errors + 1
    /\ tx' = db
    /\ rolledBack' = (rolledBack \/ tx # db)

\* mutant: commitBatch drops the error it got.
RecordErrorDropped == commitErr' = commitErr

RecordError == commitErr' = TRUE

\* Any statement of a batch's transaction fails: the transaction is rolled
\* back, the in-memory state is not.
BatchFails ==
    /\ InBatch
    /\ Rollback
    /\ RecordError
    /\ failed' = failed \cup {batch[i] : i \in 1 .. Len(batch)}
    /\ FinishBatch
    /\ UNCHANGED <<callerVars, queue, closed, sealVars, mem, ckptHash,
                   durable, now, tainted, crashes, gone>>

\* Any statement of a forced seal fails: only SealSession's caller hears of it.
ForcedFails ==
    /\ Forcing
    /\ Rollback
    /\ req' = NoSession /\ sealRes' = "error"
    /\ pc' = "select" /\ Idle
    /\ UNCHANGED <<callerVars, queue, closed, batch, at, touched, seals, memVars, durable, now,
                   tainted, crashes, failed, gone>>

Forgotten ==
    /\ sending' = {} /\ queue' = << >>
    /\ batch' = << >> /\ at' = 1 /\ touched' = {} /\ Idle
    /\ req' = NoSession /\ sealRes' = "none"
    /\ mem' = [s \in Session |-> Unknown] /\ ckptHash' = Zero /\ commitErr' = FALSE

InSeq(q, ev) == \E i \in 1 .. Len(q) : q[i] = ev

\* The process dies: what was not committed is gone, and so is the error it
\* had recorded.
Crash ==
    /\ Up
    /\ crashes < MaxCrashes
    /\ crashes' = crashes + 1
    /\ pc' = "down"
    /\ tx' = db
    /\ Forgotten
    /\ gone' = gone \cup failed
                    \cup {ev \in acked : InSeq(queue, ev) \/ InSeq(batch, ev)}
    /\ rolledBack' = FALSE
    /\ UNCHANGED <<nextId, acked, raced, failed, closed, seals, durable, now, tainted, errors>>

\* NewWriter on the existing database.
Restart ==
    /\ pc = "down"
    /\ pc' = "select"
    /\ closed' = FALSE
    /\ ckptHash' = LastCkptHash(db)
    /\ UNCHANGED <<callerVars, queue, loopVars, sealVars, mem, commitErr, durable, tx, now,
                   faultVars>>

Tick ==
    /\ now < MaxTime
    /\ now' = now + 1
    /\ UNCHANGED <<callerVars, queue, closed, loopVars, pc, sealVars, memVars, durable, tx,
                   faultVars>>

----------------------------------------------------------------------------

Init ==
    /\ sending = {} /\ queue = << >> /\ closed = FALSE
    /\ batch = << >> /\ at = 1 /\ touched = {}
    /\ pc = "select" /\ cur = NoSession /\ why = "event" /\ after = "loop"
    /\ req = NoSession /\ sealRes = "none"
    /\ mem = [s \in Session |-> Unknown] /\ ckptHash = Zero /\ commitErr = FALSE
    /\ db = EmptyLedger /\ tx = EmptyLedger /\ heads = << >>
    /\ now = 0
    /\ nextId = 0 /\ acked = {} /\ rolledBack = FALSE /\ tainted = FALSE
    /\ errors = 0 /\ crashes = 0 /\ seals = 0
    /\ raced = {} /\ failed = {} /\ gone = {}

Callers ==
    \/ \E s \in Session, g \in GapReason \cup {NoGap} : BeginAppend(s, g)
    \/ \E ev \in sending : Enqueue(ev) \/ RefuseClosed(ev)
    \/ Close

Select == Receive \/ TimerFlush \/ (\E s \in Session : ServeSeal(s)) \/ Drain

Transaction ==
    \/ OpenRow \/ InsertRow \/ (\E s \in Session : FinalPass(s)) \/ EndBatch
    \/ OpenForced \/ SkipSeal \/ SealSegment \/ SkipCheckpoint \/ WriteCheckpoint
    \/ CommitBatch \/ CommitForced

Faults == BatchFails \/ ForcedFails \/ Crash \/ Restart

Next == Callers \/ Select \/ Transaction \/ Faults \/ Tick

Spec == Init /\ [][Next]_vars

----------------------------------------------------------------------------
(* Properties *)

\* Every variable has its type, and no commit cut by the loop's own count or
\* timer holds more than groupCommitMaxEvents events.
TypeOK ==
    /\ sending \subseteq Event /\ acked \subseteq Event
    /\ raced \subseteq Event /\ failed \subseteq Event /\ gone \subseteq Event
    /\ queue \in Seq(Event) /\ batch \in Seq(Event)
    /\ Len(queue) <= QueueCap
    /\ after = "loop" => Len(batch) <= BatchMax
    /\ closed \in BOOLEAN /\ commitErr \in BOOLEAN
    /\ at \in 1 .. Len(batch) + 1 /\ touched \subseteq Session
    /\ pc \in {"select", "row", "insert", "force", "seal", "ckpt", "commit", "exited", "down"}
    /\ why \in {"event", "final", "force"} /\ after \in {"loop", "force", "exit"}
    /\ cur \in Session \cup {NoSession} /\ req \in Session \cup {NoSession}
    /\ sealRes \in {"none", "pending", "ok", "error"}
    /\ mem \in [Session -> Mem] /\ ckptHash \in CkptHashes
    /\ db \in Ledger /\ tx \in Ledger /\ heads \in Seq(HeadReport)
    /\ now \in Nat /\ nextId \in Nat /\ errors \in Nat /\ crashes \in Nat /\ seals \in Nat
    /\ rolledBack \in BOOLEAN /\ tainted \in BOOLEAN

\* Whatever fails, however the process dies, the durable ledger only grows:
\* commits append rows, segments and checkpoints above what is committed, and
\* no commit holds a checkpoint without the segment it signs.
AppendOnly == INSTANCE AppendOnlyLedger WITH db <- db
ImplementsAppendOnly == AppendOnly!Spec

\* `rana verify` follows the ledger-wide checkpoint chain without a break: the
\* cached hash of the newest checkpoint is the durable one, across sessions
\* that take turns and restarts that reload it.
CheckpointsChained ==
    ~tainted => \A i \in 1 .. Len(db.ckpts) : CkptChained(db, i)

\* The control state the goroutine's steps rely on: whose transaction is open,
\* on which session, and that nothing waits in the batch while a forced seal
\* runs or the process is down.
ControlOK ==
    /\ pc \notin {"seal", "ckpt", "commit"} => why # "force"
    /\ pc \in {"insert", "seal", "ckpt"} => cur \in Session
    /\ pc = "insert" => at <= Len(batch)
    /\ (pc = "force" \/ after = "force") => req \in Session
    /\ pc = "select" => Len(batch) < BatchMax
    /\ (pc \in {"force", "down"} \/ why = "force") => batch = << >>

\* The open transaction is a step of the append-only ledger, and a checkpoint
\* is only ever written right behind the segment it signs.
TxOK ==
    /\ AppendOnly!Step(db, tx)
    /\ pc = "ckpt" =>
          LET S == tx.segs[cur]
          IN  /\ S # << >>
              /\ S[Len(S)].header.seg = mem[cur].segIndex - 1
              /\ S[Len(S)].hash = mem[cur].prev

\* The cached hash of the newest checkpoint is that of the open transaction,
\* as long as no transaction was rolled back under it.
CkptCacheOK ==
    /\ pc = "down" => tx = db
    /\ (~rolledBack /\ pc # "down") => ckptHash = LastCkptHash(tx)
    /\ (~rolledBack /\ ~tainted) => \A i \in 1 .. Len(tx.ckpts) : CkptChained(tx, i)
    /\ CheckpointsChained

\* Inductive: what every step of the writer preserves, failures included.
WriterInv == TypeOK /\ ControlOK /\ TxOK /\ CkptCacheOK

Persisted(ev) ==
    \E i \in 1 .. Len(db.rows[ev.session]) : db.rows[ev.session][i].ev = ev

\* `rana verify` finds nothing on the ledger of a writer that never committed
\* after a rolled-back transaction, whatever was crashed and restarted:
\* membership, gap tallies, roots, links and the ledger-wide checkpoint chain
\* rebuilt by openOrInitSessionLocked continue what is durable.
VerifiesUnlessTainted == ~tainted => VerifyCode(db) = CodeOK

\* `rana verify --mirror` finds no mismatch either, although heads are
\* reported before the transaction that holds their checkpoint commits.
MirrorAgrees == ~tainted => MirrorMatches(db, heads)

\* Both readers of an honest ledger are satisfied.
LedgerHonest == VerifiesUnlessTainted /\ MirrorAgrees

\* The checkpoints of a session attest each sealed segment at most once,
\* without holes up to the newest: the pending count that a restart
\* recomputes (loadPendingSegStats) is the one the dead process had.
AttestedOnce ==
    ~tainted =>
        \A s \in Session : \A k \in 1 .. Len(db.segs[s]) :
            LET seg == db.segs[s][k].header.seg
            IN  Attested(db, s, seg) =>
                    Cardinality({i \in 1 .. Len(db.ckpts) :
                        /\ db.ckpts[i].body.session = s
                        /\ seg \in db.ckpts[i].body.segFirst .. db.ckpts[i].body.segLast}) = 1

\* No row lies in the rowid range of two segments of its session, although
\* the ranges of different sessions interleave.
RowSealedOnce ==
    ~tainted =>
        \A s \in Session : \A i \in 1 .. Len(db.rows[s]) :
            Cardinality({k \in 1 .. Len(db.segs[s]) :
                db.rows[s][i].rowid \in db.segs[s][k].header.first .. db.segs[s][k].header.last})
              <= 1

\* Every row is sealed, and every segment attested, at most once.
SealedAndAttestedOnce == RowSealedOnce /\ AttestedOnce

\* An event whose Append returned nil is committed for good; or a goroutine
\* that still runs has it in the queue or the batch; or it was in a batch that
\* was rolled back, and the writer shows the error; or the process died with it
\* in memory, or after that error.  When the goroutine has returned, nothing it
\* took is left behind uncommitted without an error, and what lies in the dead
\* queue was sent while Close was under way: no event acknowledged before Close
\* is lost to it.  (An Append that races Close may be: it finds room in the
\* queue after the drain, returns nil, and nobody writes its event.)
AckedAccounted ==
    \A ev \in acked :
        \/ Persisted(ev)
        \/ InSeq(queue, ev) /\ (pc = "exited" => ev \in raced)
        \/ InSeq(batch, ev) /\ pc # "exited"
        \/ ev \in failed /\ commitErr
        \/ ev \in gone

\* With one caller, rows appear in the order of its calls and once each, through
\* every way a batch is cut and flushed (a row lost with a crash leaves a hole).
CallerOrderKept ==
    \A s, t \in Session : \A i \in 1 .. Len(db.rows[s]), j \in 1 .. Len(db.rows[t]) :
        db.rows[s][i].rowid < db.rows[t][j].rowid
            => db.rows[s][i].ev.id < db.rows[t][j].ev.id

\* SealSession seals what the writer took: once it has returned nil, every row
\* of the session lies in a sealed segment, whatever batch the row came in and
\* however the batch was cut.  (Rows of an unsealed segment at a crash never
\* come to lie in one.)
SealCoversRows ==
    [][(sealRes = "pending" /\ sealRes' = "ok" /\ crashes = 0 /\ ~rolledBack) =>
         \A i \in 1 .. Len(db'.rows[req]) : \E k \in 1 .. Len(db'.segs[req]) :
            db'.rows[req][i].rowid \in db'.segs[req][k].header.first
                                        .. db'.segs[req][k].header.last]_vars

----------------------------------------------------------------------------
(* Liveness.  The goroutine is scheduled and its timer fires; a select with *)
(* several ready cases picks each of them infinitely often.                 *)

Fairness ==
    /\ WF_vars(Transaction)
    /\ WF_vars(Receive \/ TimerFlush)
    /\ SF_vars(Drain)

FairSpec == Spec /\ Fairness

\* Whatever was queued is taken and committed (or its failure recorded).
PipelineDrains ==
    []<>((queue = << >> /\ batch = << >>) \/ pc \in {"exited", "down"})

\* SealSession returns, with a result, unless the process dies.
SealAnswered == (sealRes = "pending") ~> (sealRes # "pending")

\* Close returns.
CloseReturns == closed ~> (pc \in {"exited", "down"})

\* The loop's four channels are all served: events, the timer, seal requests
\* and Close.
EveryoneServed == PipelineDrains /\ SealAnswered /\ CloseReturns

----------------------------------------------------------------------------
(* What the documents and comments say, and the code does not keep *)

\* docs/TRUST.md: exit code 2 means that someone altered persisted history.
BrokenOnlyIfAltered == VerifyCode(db) # CodeBroken

\* Close flushes any pending events.
ClosedKeepsAcked ==
    (pc = "exited" /\ ~commitErr) => \A ev \in acked : Persisted(ev)

=============================================================================
