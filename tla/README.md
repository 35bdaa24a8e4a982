# RanA in TLA+

RanA records what an AI agent does on a machine and keeps the recording in a
hash-chained, signed ledger. This directory holds TLA+ specifications of its
state machines, the TLC configurations that check them on small instances, and
TLAPS proofs of what holds for every instance. `PROJECT.json` maps every
definition to the source lines it stands for.

## 1. The system

```
 kernel (eBPF) --ring buffer--> ranad (root)                svc (user)                   readers
   exec, fs,        records      decode, enrich, redact,     RanadServer, markers,        rana verify, export,
   net, dns,                     govern, frame  --Ev-->      digest, alerts  --Append-->  UI live view, report
   escape                          |   ^---SessionStart/End,      |              |
                                   |       Head-------------------+          ledger.Writer
                                   v                                         (one goroutine, SQLite)
                               heads.log (root-owned mirror of signed heads)
```

| Component | State | Operations | What is hard | What makes it correct |
|---|---|---|---|---|
| ledger writer (`internal/ledger/writer*.go`, `seal.go`) | queue, batch, per-session chain state, cached newest checkpoint hash, commit error, SQLite tables | Append, AppendEncoded, SealSession, Close, Err, the commit loop | one goroutine serving four channels; transactions that fail half-way; crash and resume; callers racing Close | the durable ledger only grows, verifies, continues its own chain after a restart, loses nothing it acknowledged silently |
| verification (`verify.go`, `gap_check.go`, `exportverify`) | none (reads a ledger or an export) | Verify, mirror cross-check, export verification | stale or missing rows, sessions, archives | finds what is broken, and nothing on an honest ledger |
| chain (`internal/chain`) | device key, salt, heads.log | leaf, Merkle, segment and checkpoint hashes, key files, AppendHead, ReadHeads | concurrent first start, torn lines | hashes bind what they name; one key per device |
| governor (`internal/collector/governor.go`) | token buckets, shed counts and interval start per session | Admit, RecordRingbufDrop, FlushGaps, EndSession | counts reset by two callers, tiers that refill in priority order | every event that is not admitted is counted in exactly one gap |
| enricher, DNS cache, provenance (`internal/collector`) | cgroup bindings, answers with a TTL, seen executables | BindCgid, UnbindCgid, Enrich*, Join, GC | expired answers, recycled cgroup ids | an event is attributed to the session its cgroup belonged to |
| ranad pump and daemon (`cmd/ranad`) | segment tracker, session bindings, ended sessions, connection | Drain, FlushGaps, DrainEndedSessions, PumpInbound, ReconnectGap, dial and back-off | two goroutines, a connection that breaks between take and send | losses become gap events; no dead cgroup stays armed |
| wire (`internal/wire`) | none | framing, handshake, peer credentials | short reads, deadlines in the middle of a frame | a frame is delivered whole or not at all |
| svc (`internal/service`) | ranad connections, active sessions, next index, digest workers, subscribers | register, Broadcast*, HandleConn, RegisterSessionCgid, EmitSessionEnd, PublishLive | connections that come and go while sessions start and end | every live session is armed in every connected ranad, every ended one disarmed |
| digest worker (`internal/service/digest.go`) | files waiting to be hashed | Observe, scan, settle | files that change while they wait | the digest is of the content the event is about |
| alerts (`internal/alerts`) | seen sets, subscribers | Handle, Notify | sinks that fail, several callers | an alert fires once, on the event that caused it |
| UI and live tail (`internal/ui`, `service/datasource.go`) | subscribers with bounded buffers | Stream, PublishLive, cursor queries | send racing close, slow readers | a reader sees a prefix-consistent stream |
| retention (`internal/ledger/gc.go`) | archived segments | GC | a crash between archive and delete | nothing is deleted that is not archived |
| redaction (`internal/redact`) | patterns, salt | redact | overlapping matches | no secret reaches the encoder |
| session drivers (`internal/session`), profiles, report, packs, CLI, VM guest, MCP, plugins, assets, eBPF C | various | various | mostly I/O | see "Not modelled" |

## 2. Modules

| Module | Models |
|---|---|
| `LedgerVerify` | the ledger as a value: tables, hashes, Verify and the mirror cross-check |
| `AppendOnlyLedger` | what a ledger promises: it only grows, and every checkpoint signs a segment in it |
| `LedgerWriter` | the writer: callers, loop, transactions, failures, crash, restart |
| `LedgerReaders` | the ledger beside the writer: Verify, GC, Export query by query, the standalone verifier |
| `DeviceFiles` | device.key, salts, meta, the checkpoint chain, heads.log, under several processes |
| `Governor` | the token buckets, the counts of what is lost, the gap records |
| `Enrichment` | a record on its way to an event: segment tracker, index counter, DNS cache, several Pumps |
| `BpfLoader` | NewLoader: kernel tiers, attaching, pinning, what an older start left |
| `Wire` | the connections between ranad and the runs: frames in order, closing ends |
| `SessionServer` | the service side: the life of a `rana run`, broadcasts, replay, HandleConn |
| `Pump` | the ranad side: daemonLoop, the two goroutines of each connection, what they share, the ring buffer |
| `RanadLink` | `SessionServer` and `Pump` side by side, with the properties of the whole link |
| `Framing` | one direction of a connection below its frames: WriteFrame, ReadFrame, the lock, the deadline |
| `Backpressure` | who waits for whom between ledger goroutine, HandleConn, the run and ranad |
| `LiveTail` | Stream, PublishLive, removal, and the page that reads the tail |
| `DigestWorker` | ScanOnce and maybeDigest over files that change |
| `AlertEngine` | Observe: new domain, sensitive read, burst, and their correlation |
| `SessionScope` | the cgroup of a session, and WatchEmpty |
| `LedgerWriterProofs`, `LedgerHonestProofs` | proofs about `LedgerWriter` (section 4) |
| `StorageProofs` | proofs about `LedgerReaders` and `DeviceFiles` |
| `RanadLinkProofs` | proofs about `RanadLink`, `SessionServer` and `Pump` |
| `GovernorProofs`, `EnrichmentProofs`, `BpfLoaderProofs` | proofs about what ranad does beside the link |
| `ServiceProofs` | proofs about `Framing`, `DigestWorker`, `LiveTail`, `SessionScope`, `AlertEngine` |
| `MCLedgerWriter`, `MCRanadLink` | symmetry of the instances |
| `MCService` | `LiveTail`, `DigestWorker`, `AlertEngine`, `SessionScope`, `Framing`, `Backpressure`, one per behaviour |
| `MCStorage` | `LedgerReaders` (with Verify or with Export, which change nothing), `DeviceFiles`, one per behaviour |
| `MCCollector` | `Enrichment` (in two halves), `BpfLoader`, `Governor`, one per behaviour |

`LedgerWriter` extends `LedgerVerify` and instantiates `AppendOnlyLedger`; `RanadLink`
extends `SessionServer` and `Pump`, which both extend `Wire` and share only `conn`.
The other components share no state that decides what either does, so that the three
`MC` modules that hold several of them choose one at the start (`scene`) and leave the
rest as they are: the run explores the sum of their states and not the product.
Names that begin a comment with *mutant* are plausible slips of the
code: no action uses one, each takes the place of a definition of the code in a mutant of
`PROJECT.json` and shows what a property catches.
Variables marked *ours* are history for the properties: no guard reads them.

### Ledger writer

A digest is the term it commits to: the hash of segment *k* of a session is the
sequence of headers 0..*k*, a checkpoint hash the sequence of checkpoint bodies, a
Merkle root the sequence of leaves. Two digests are equal exactly when what they
commit to is; signatures are assumed unforgeable, so only the fields they cover
remain. `rows[s]`, `segs[s]` and `ckpts` are the tables in the order Verify
reads them; rowids come from one counter for all sessions.

The goroutine is the program counter `pc`: `select` (the `select` of `run`),
`row`/`insert`/`seal`/`ckpt`/`commit` (the statements of `commitBatchTx` with
`openOrInitSessionLocked`, `maybeSealLocked`, `maybeCheckpointLocked` inside),
`force` (`forceSealSession`), `exited`, `down`. `tx` is the ledger as the open
transaction sees it; `CommitBatch`/`CommitForced` copy it to `db`, `BatchFails`/
`ForcedFails` throw it away *and leave `mem` and `ckptHash` as they are*, as the
code does. `Crash` throws away everything but `db` and `heads`; `Restart` is
`NewWriter` on the same file. `w.mu` is held through a transaction (`MuFree`), so
`Append` reads the commit error only between transactions, but its send on the
channel happens any time later.

`tainted` is set when something is committed after a rolled-back transaction: from
then on the chain is broken by design of the code (see Findings), and the
properties about chain content say what holds before that.

### Governor

Every operation holds one mutex, so an operation is one step. `bucket`, `shed` and
`start` are the three maps of the struct, `out` the records the last call
returned. Levels are `float64` in the code and multiples of `1/Whole` token here;
`Refilled` is the waterfall of `refill`, tier by tier. `EndSession` adds the counts
of both reasons into one record, under the reason the map iteration happens to
meet first. Everything below *history* in the variables (`offered`, `admitted`,
`reported`, ...) is bookkeeping for the properties and is read by no guard.

### ranad link

A record is its session and a number; a connection (`conn[k]`) is two sequences
of whole frames and whether each end is open. What was written before the peer
closed can still be read; a write to a closed peer fails. A process that ends
takes what it has not read with it (`RunEnds`).

*Service side.* `run[s]` is where `rana run` of session *s* is: `up` (listening),
`announcing` (RegisterSessionCgid's broadcast), `started` (the child runs outside
its cgroup), `child` (inside), `sealed` (EmitSessionEnd has sealed), `ending` (its
broadcast), `leaving`, `gone`; `killed` is a run that died with its child alive.
All runs bind one socket path: `path` says whose listener it leads to, and a run
that exits removes it whosever it is. A broadcast is a snapshot of the
registered connections (`tell`) followed by one send at a time; `Register` adds the
connection and reads the active sessions under one lock, the replay is sent
afterwards. `ReadFrame` appends an event or a gap and drops what
`schema.Validate` rejects.

*ranad side.* `daemon` is daemonLoop and serveConnection. Each connection has a
`pump` with an inbound goroutine (`recv`, `bind`: between arming the kernel and
binding the cgid in the enricher) and an outbound one (`drain`, `gaps`, `ended`: the
three calls of outboundLoop). `ServeConnectionReturns` needs one of the two to have
returned and leaves the other to itself, so that several Pumps may
drain the one ring buffer. `armed`, `ring` are the kernel's; `bound`, `nextIdx`,
`shed` belong to the enricher and governor that all Pumps share and that live as
long as ranad. Every record that is not delivered goes to `lost` with its reason:
`outside` its cgroup, `unarmed`, `ringfull`, `unknown` (not bound yet), `send` (taken
from the ring buffer, not sent), `count` (counts taken from the governor, not
sent), `unread` (sent, not read), `crash`.

`PeerAnswers` says whether HandleConn answers ranad's Hello. In the code it does
not (`link_no_hello`): no connection is ever served, and no test runs the two sides
against each other. serveConnection and the Pump are written for a service that answers;
every other run takes `PeerAnswers = TRUE` and shows what the link would do then. What
the runs say of a served connection (`ServedIsArmed`, `LinkSettles`) has it as
its condition and is empty of the code as it stands.

### Ledger readers

A row is its rowid, a segment its place in the chain and the rows it was sealed over;
what `LedgerVerify` works out over hashes is taken from there. `live[r]` says whether
the bytes of a row are there. Every query is a step: ReadSegments, ReadCheckpoints,
one CheckSegment per segment (`verifySession`), then the verdict; the three files of
Export; per segment of GC the reading, the rename of the archive and the
transaction that clears. In between the writer commits batches, is restarted and leaves
rows unsealed, and another session signs. `touched` remembers what was committed
since a reader's first query. The standalone verifier hands out leaves by count and in the
order of the file (`Cursor`), and sees one session of a chain that runs through all.

### Device files

A key or a salt is the number of its drawing, a checkpoint who signed it and what it
takes for its predecessor. LoadOrCreateSalt, GenerateKey and Wrap are split where another
process can come between: read, stat, exclusive link, rename, reload. ranad's own salt
is truncated and written in two steps. `heads` is the sequence of writes to
heads.log, each whole, without its newline, or part of a line; `Lines` and `Parses` are
ReadHeads.

### Enrichment

The steps of a Pump follow the locks: the cgroup is looked up to charge the governor and
to take a segment number (`TakeRecord`), again under the enricher's lock to build
the event (`EnrichRecord`), then the DNS cache is asked with the time read before
(`JoinQname`) or told (`ObserveAnswer`). Two Pumps share enricher and cache and have
a segment tracker each; the sweeping goroutine reads the clock before it takes the
lock. A SessionStart binds its cgroup whenever it comes (`Bind`), so one replayed after the
end that was handled binds the session again. A Pump that handles an end drops the binding
and the index counter, which all Pumps share, and its own tracker, and writes the
governor's last gap (`SessionEnds`, `FinalGap`); that the governor shed an event is all
that is kept of it here (`ShedEvent`, `owed`). `RanadDies` forgets everything. The
histories the properties read follow these lives: `idxs` counts since the session was
bound, `given` since the tracker was new. `OfKinds` splits the records in two halves: those
that use the cache share with the rest only the record at hand, so they run with one session
bound, without ends and sheds, and the rest without sweeps; ranad dies in both.

### Loader

`pins` says which start pinned what. Each group that is loaded, each program that is
attached, each removal and creation of a pin is a step, and `LoaderEnds` (an
error return or a death) is possible between any two. Programs keep what is pinned;
`Reboot` clears it and may change the kernel.

### Framing and backpressure

A unit is a frame's length prefix or a part of its body. A writer holds `connMu` for its
frame, the socket takes `Room` units, the reader takes them one by one. The reader is
HandleConn, which waits, or Recv with its 20 ms: `DeadlineAtPrefix` ends the
connection (readUvarint hides the timeout), `DeadlineInBody` forgets what was read, and the
next read takes what is left for a prefix (`Misread`).

In `Backpressure` contents are left out: queues and sockets are counters with a limit, and
each goroutine is at the call that may block it: `select`, sending a head under
`Writer.mu`, Append's wait for that mutex and for the queue, the lock of a connection,
SealSession's answer, Close. `Calls` is what `rana run` goes through.

### The service

`LiveTail` has the subscribers as the Go slice they are: a header (`subs`) and backing
arrays (`heap`). PublishLive's copy of the header shares its array with appends in place
and with a removal that moves slots down one at a time (`MoveSlot`). `Load` and
`Take` are the page: what it loads and what `maxIdx` lets through. What a page shows and
what a viewer was sent are counts per event; the ledger, how many events of each
publisher it has, since a publisher stores them in order.

`DigestWorker` makes every look at the disk a step, and a file may change between any
two. A content stands for its digest; contents come in pairs of one size. `settles` keeps
the events of each file in order, which is all that the digests of one file refer to.

`AlertEngine` computes the firings of one event, then sinks them one at a time, with time
passing and the sink refusing in between. One caller at a time: the engine has no lock.
The slices the rules keep are sets of stamped entries (the position in the slice is the
order of the stamps, and `times` numbers them because times may be equal); `pairs` are
those a sunk alert has still to escalate, the one with the older half first (`NextPair`).

`SessionScope` has the cgroup, the run that creates and removes it, and the goroutines of
watchCgroupEmpty: add the watch, poll, read, look again, the pipe that wakes it. Its
calls may fail (`faults`, at most `MaxFaults`): an error before the watch stands is
WatchEmpty's own (`SetupFails`); poll, read and the re-read, failing with the scope as
full as it was, close the channel (`GivesUp`, kept in `broken`); an interrupted or empty
read goes back to poll with nothing taken, and so does a cgroup.events that is not
understood, but there the event has been taken (`Misreads`, kept in `misread`).

## 3. Runs

| Run | Question | Instance |
|---|---|---|
| `writer_sessions` | two sessions interleaving in one writer, and the chain state restarts rebuild | 2 sessions, 3 events, segments of 2 and by age, checkpoint at 2 segments or by time, 1 tick, 2 crashes, one SealSession |
| `writer_faults` | failing transactions, a crash, two racing callers, and a loop that serves them | 1 session, 3 events (no gap events), segments of 1, 1 failure, 1 crash, fairness |
| `link_one` | a link between one run and ranad: nothing lost, everything armed, told and settled | 1 session, 2 records (one sheddable), 2 connections held at once, 1 break, fairness |
| `link_faults` | two runs on one path, killed runs, a dying ranad | 2 sessions overlapping or not, 1 record each, 2 connections, 1 kill, 1 crash |
| `service` | what stands beside the writer in a run | tail: 2 publishers of 1 event, 2 viewers; digest: 2 files, 4 contents in 3 sizes, 3 changes; alerts: 1 session, 2 hosts, 3 events, 2 ticks; cgroup: 2 processes, 2 watches, 4 changes, 1 failing call; framing: 2 writers of 2 frames of 3 units, room for 2; pressure: room for 1 everywhere, 3 events |
| `storage` | what lies on disk | ledger: 3 rows, 2 collectors, 1 foreign checkpoint, 1 death; files: 2 runs, 1 ranad, 4 drawings, 3 checkpoints, 1 kill |
| `collector` | what ranad does beside the link | 2 Pumps, 2 cgroups, 3 records, 3 seconds, 1 sweep, 1 death; loader: 2 versions, 5 kernels, 3 starts, 1 reboot; governor: 2 sessions, 4 calls, bursts of 1 token, 1 tick |
| `broken_unaltered`, `link_no_hello`, `tail_panics`, `silence_ends_link`, `verifiers_disagree` | what a document or comment says and the code does not do (section 5) | the smallest instance that shows it |

*Bounds.* Writer: three events are enough to fill a segment of one size, start the next
and leave one waiting; two checkpoints need two segments; a queue of two and a
batch of two exercise cutting a batch by count, by timer, by seal request and by
Close. The thresholds 512/4096/64 are constants, so the small ones take the same
branches. Link: two records are what order and loss of one of them need; two
connections are what a leftover goroutine needs, and with one break no third one is ever
held (`MaxConn = 3` reaches the same states). `MaxConn` bounds the connections held at a
time: numbers are reused once nothing holds them, not even a broadcast, so a daemon may reconnect without end. Governor: bursts of one
token empty a tier with one event; two sessions and two reasons are what FlushGaps
and EndSession can confuse; a refill of one and a half tokens spills from one tier
into the next. Readers: three rows make two segments with an orphan between them, or a
segment behind a checkpoint of another session. Files: two runs race for everything
that is created once; four drawings let both lose one. heads.log needs three reports for
a torn line with two behind it. Tail: an array that two viewers share, grown once, is
what a removal moves under a publisher. Digest: three changes write a file, let it
settle, and change or remove it; sizes on both sides of the cap. Alerts: three events
and two ticks put a pair, or a burst, at, inside and beyond a window of one; that a burst
fires again after it was re-armed takes more events, and only the proof reaches it.
Enrichment: three seconds outlive a window of one and a TTL of two; a segment of two
events overflows with three. Loader: three starts leave pins of one version
under a second that fails and a third. Framing: a body of two parts and room for two
units let a frame arrive in pieces and two writers meet. Pressure: every buffer of one is
full at once, which a larger one only delays.

*View.* `writer_sessions`, where nothing fails, leaves the histories of what callers were
told out of its view of a state (`Unpromised`): no guard, no other variable and none of
its properties reads them. `link_faults` leaves out of a state what is left of a
connection that was closed and let go, the indices issued and the reasons of losses
(`Current`), which neither a guard nor `OnePlace` reads.

*Deadlock.* Deadlock checking is off: the writer's callers stop at `MaxEvents` and
its goroutine returns once closed; when every run is gone there is nobody to dial; the
scenes are bounded and come to an end. Where waiting is the question it is a liveness
property (`Backpressure`, `LinkSettles`, the writer's).

*Fairness.* `LedgerWriter!Fairness`: the goroutine runs (`WF` of its statements, and
of the receive and flush cases of its select, which its timer enables every 10 ms);
`closeCh`, once closed, stays ready at every visit of the select, and Go picks
among ready cases at random, hence `SF` of `Drain`. `RanadLink!Fairness`: each
goroutine (a run's main goroutine, HandleConn, the daemon's loop, the two of each Pump)
runs, one `WF` each, and daemonLoop redials after a bounded back-off. `TailFairness`,
`DigestFairness`, `ScopeFairness`, `FramingFairness`, `PressureFairness`: goroutines that
were started run, and the kernel delivers a notification it owes. Nothing is assumed
of callers, failures, crashes, the clock, readers of the tail, deadlines or the disk: that
a child exits, acts, that a run is killed, a connection breaks or ranad dies is never
forced. `PressureFairness` takes ranad's goroutines to run while the connection
stands: a ranad that is stopped and not dead does stop the ledger, since the head is
written from its goroutine without a deadline.

### What the properties say

A run checks the properties of one subject as one definition, their conjunction, whose
parts are named: `LedgerHonest` (the chain's verdicts), `SealedAndAttestedOnce`,
`EveryoneServed`, `LinkInv`, `ArmedAsTold`, `TailIsSound`, `TailServes`, `SettlesAddUp`,
`EscalationsRight`, `WatchersAreTold`, `NobodyStuck`, `VerdictsJustified`, `KeysAndSaltsKept`,
`ChainVerifies`, `NumbersHonest`, `UpIsSound`, `BucketsRight`. A type invariant is a part of
`WriterInv`, `LinkInv` and `BucketsRight`. For each of them `PROJECT.json` names a
definition of the code, and a plausible mistake in it (marked *mutant* in the modules), for
which TLC finds the property violated: no property holds whatever the code does. The
parts:

* Ledger: `VerifiesUnlessTainted` and `MirrorAgrees` (Verify and its mirror
  cross-check accept every honest ledger), `CheckpointsChained`, `AttestedOnce`,
  `RowSealedOnce`, `SealCoversRows` (a seal covers every row taken before it),
  `AckedAccounted` (an event that Append took is committed for good, held by a goroutine
  that still runs, or lost for a cause the model names: its batch was rolled back and Err
  shows it, the process died with it, or it was sent while Close was under way; one
  acknowledged before Close is never left in the queue), `CallerOrderKept`, the refinement of `AppendOnlyLedger`, and that
  Close returns, a seal request is answered and what waits is settled.
* Readers: `ClearedIsArchived` (through deaths and retries, unless two collectors had one
  segment at once), `QuietVerdict` (what Verify says of a ledger nobody writes to),
  `BrokenOnlyByOverlap` (only a checkpoint or a GC between its queries makes it say
  BROKEN of an unaltered one), `ExportVerdict` (exactly when an export is called
  BROKEN).
* Files: `OneKeyOneSalt`, `MetaVerifiesAll`, `OneChainAlone` (two writers at once excepted),
  `RootSaltKept`, `MirrorReadsBack`.
* Governor: `Accounted` (an event offered is admitted, pending or in exactly one gap
  record), `IntervalsHonest`, `TokensConserved`, `LaterTiersFirst`.
* Enrichment: `JoinHonest` (a connect carries the name of the latest answer exactly
  while that lives), `ChargedToItsSession`, `NumbersHonest`, which is `SegmentsHonest`
  (a tracker's numbers, from one end its Pump handles to the next) and `OnlyGapsRepeat` (a
  record's index comes again only when a SessionStart binds the session once more, after
  its end or ranad's death; otherwise it is shared with a gap at most).
* Loader: `UpIsComplete`, `PinsAreOwn`, `RestartIsTold`. The last holds while fewer ranads
  died in the middle of replacing a pin than the versions have hooks in common. PinPrograms goes
  through a Go map, so each of them may take another hook's pin down, and after as many such
  deaths none is left: the next loader finds nothing pinned and reports no gap, against the
  comment `internal/bpf/loader_tier.go:366` ("on every restart"). The proof that first claimed it
  without the condition failed, and TLC finds the four starts it takes.
* Link: `OnePlace` (a record is in exactly one place: ring buffer, pending counts, a
  frame on its way, the ledger, or lost with a reason), `QuietLinkDelivers` (if nothing
  breaks or dies, and while no run is over, nothing is lost between ring buffer and ledger),
  `NeverReissued`, `ServedIsArmed` (a session whose run is served for good is armed and bound
  for good), `EndIsFinal` (an end that reached a Pump which saw the start disarms for good,
  unless its outbound goroutine returns first or a start is still on its way: section 5),
  `LinkSettles`. `NeverReissued` holds while ranad lives and not across its death, so
  `link_one` has no crash.
* Frames: `FramesStayWhole`, `UntimedReadsAll`. Waiting: `LedgerNeverStuck`,
  `RunGetsThrough`, `UpIsRead`: the cycle through queue, mutexes and both directions of
  the socket never closes, because ranad's reader never waits for its sender.
* Tail: `SubscribersListed`, `PageShowsOnce`, `CalmPublishReachesAll`, `PublishNeverWaits`,
  `CancelledIsClosed`. Digest: `Debounced`, `SettlesChain`, `SizesAddUp`,
  `RestingFileIsDigested`. Alerts: `PairsEscalated`, `EscalationFollowsItsPair`,
  `BurstsAtEdges`. Cgroup: `EmptiedIsTold` (unless its last look told the watcher
  nothing), `CancelledWatchCloses`, `ClosedForCause` (a watch closes because the scope is
  empty or gone, it is cancelled, or a call of its own fails at that step).

## 4. Proofs

Each theorem holds for every value of the constants that the module's assumption admits: any
number of sessions, callers, connections, events, failures and restarts. The bounds of the
runs are among those constants. TLC evaluates the assumptions on the runs; they say that the
constants are what their comments say (numbers that are numbers, names that are no one's, sets that
are disjoint). Every invariant, action property and refinement that a passing run checks is
proved; an inductive invariant was checked with TLC before it was proved.

### The writer

`LedgerWriterProofs` rests on `GapAssumption` and `WriterAssumption`.

* `TypeCorrect`: `Spec => []TypeOK`.
* `WriterInvariant`: `Spec => []WriterInv`, the inductive invariant. `TypeOK` alone
  is not inductive: that `cur` is a session when a segment is sealed, or that the
  batch is empty while a forced seal runs, comes from `ControlOK`. `TxOK` says the
  open transaction is always one legal step of the append-only ledger away from
  what is committed and that a checkpoint is written right behind the segment it
  signs; `CkptCacheOK` ties the cached checkpoint hash to the open transaction as
  long as nothing was rolled back.
* `ChainUnbroken`: `Spec => []CheckpointsChained`, from `CkptCacheOK`.
* `RefinesAppendOnly`: `Spec => AppendOnly!Spec`, from `TxOK`: a commit is a
  `Commit` step, everything else stutters.
* `AckedNotLost`: `Spec => []AckedAccounted`. `Flow` adds that the loop has inserted exactly
  the events of the batch it has passed, commits when it has passed all of them, and once
  it has picked closeCh finds only events in the queue that were sent after Close
  (`Leaving`).
* `OneCallerInOrder`: `Spec => []CallerOrderKept`, assuming `MaxSenders <= 1`: with two callers
  nothing orders their events (`writer_sessions` has one). Then
  batch, queue and the pending send are one ascending line (`Lined`, `Sends`), and the
  rows of every session stand before it.

`LedgerHonestProofs` extends it to what readers find. `HonestInvariant` has four parts
besides `WriterInv`: while nothing was committed behind a rolled-back transaction, the tables are
in order (`TableOK`: rowids ascend, segments follow one another, each root, hash and
checkpoint is that of the rows it names) and what is in memory continues them
(`AccOK`, `MemOK`); every row not yet sealed is among the leaves (`CoverOK`); and heads.log
has what the checkpoints say, with the last one possibly ahead of its commit (`HeadsOK`).
From it `WriterIsHonest` (`LedgerHonest`), `NothingTwice` (`SealedAndAttestedOnce`) and
`SealCovers` (`SealCoversRows`).

### What lies on disk

`StorageProofs`. For the readers, with `ReadersAssumption` (`MaxRows` is a number), the invariant is
`ReadersInv`: the segments are disjoint and in order; exactly the rows of archived segments
are nulled; a segment that no two collectors ever had at once is a target of one of them
at most, unarchived, and what is read of it is all of it; what Verify has read is a prefix of
the segments as long as only rows and seals landed in between; an export nothing came
between is the ledger. `ArchiveHolds` and `VerdictsHold` follow. That the standalone verifier,
which hands out leaves by count, meets each segment's own rows is an argument about
cardinalities.

For the files, without an assumption, `KeysKept` and `ChainKept` come from `FileInv`. That runs
hold the key on disk is not inductive alone: that a
file is in place before a run goes on with what it read, and stays, that Wrap holds the
seed of the key it will replace (`InPlace`), that meta's key is the one on disk and is
there before anybody signs (`MetaInPlace`), that a writer alone remembers the last
checkpoint (`LastRemembered`), and that a ranad about to write a salt is the first to
(`RootInPlace`). `OnlyRunMoves` covers the steps of a run that touch no file at once.
`MirrorHolds` needs only that whole and unfinished lines of heads.log rise (`HeadsRise`).

### The link

`RanadLinkProofs`. `Shape` is the type invariant and what each end of a connection holds.
`RecordsInOnePlace`: the places are pairwise apart, what is in them is what was emitted, and
no record is lost for two reasons; it is proved for one place losing to one other, once, and
each action is shown to be such a move. `LinkIsSound`: with `Told` (who is being told of an end, or
has been, is over; a counter is behind what was issued only then) no index is issued again
while ranad lives and the run goes on. `QuietLinksDeliver`: `Quiet` says that while nothing
broke, died or is over, the one connection that was ever served still is, with both its
goroutines, so that none of the losing branches is taken.

### ranad beside the link

`GovernorProofs`, for any never-shed classes, burst, rate and grid (`GovernorAssumption`):
`TypeCorrect` (no tier ever leaves `0 .. Full`), `LossesAccounted`, `GapIntervals`,
`BucketsHold`. `IntervalsHonest` is not inductive alone: that a
refill amount is not negative, that a bucket never stands without a running
interval and that an interval does not start before the last gap ended is
`Timely`, which `GovInv` adds. `BucketsRight` follows from what the waterfall of a refill
does (`RefillFlow`: what goes in is what time brought, and a tier gains only when those
behind it are full) and what an admission takes.

`EnrichmentProofs` (`EnrichAssumption`): `NamesAreHonest` (the cache has the answer observed last,
or it was swept for a time at which it was dead: `CacheOK`), `ChargesAreRight` (a job is
charged by the rule that was applied last: `JobOK`), `NumbersAreHonest` (`IdxOK`: while a session
is bound, the next index is above every record's since it was bound; `TrackersOK`).

`BpfLoaderProofs` (`LoaderAssumption`): `LoaderIsSound`, from what is loaded and attached after each
statement (`LoadOK`), whose pins there are (`PinOK`), and a count of the common hooks
without a pin, which is at most that of the ranads that ended replacing one (`ToldOK`).

### The service

`ServiceProofs`.

* `FramesHold` (`FramingAssumption`): socket and what the holder of `connMu` has left are one
  sequence, the pipe; from the unit the reader is about to take on, it is the frames written
  and not received (`InStep`).
* `SettlesHold`, `OnlySettledAreDigested` (`DigestAssumption`): what the worker remembers of a file is
  not newer than the file nor older than a change it has not seen (`Seen`), the size between stat
  and read is the file's unless that raced (`Measured`), digest and size are those of the last
  event (`Remembers`).
* `TailHolds`, `CalmPublishReaches` (`LiveTailAssumption`): the list has each listener once, and in
  all slots but one while a removal runs (`ListInv`); nobody writes to the slots a calm walk
  goes through, those passed were offered the event once and the others not yet (`OnceEach`);
  nothing on a page is beyond its `maxIdx` (`PagesInv`).
* `ClosesForCause`: only a cancelled watch is woken by its own pipe, and a watch that gave
  up is closed, so it gives up once, at the step at which its call fails (`WatchersInv`).
* `EscalationsHold`, `BurstsHold` (`AlertAssumption`): each side's list has all of its alerts still in
  the window, and every pair of near alerts was escalated or waits to be
  (`PairsInv`, although pruning forgets entries); the stamps a burst rule holds are in
  bijection with the events of the rate it stands for, and the rule is armed exactly if the
  event before was below the threshold (`WindowsOK`), so that alerts sunk and waiting are as
  many as rises (`BurstsCounted`).

### Only model-checked

Liveness, since TLAPS proves neither ENABLED nor liveness under fairness: `EveryoneServed`,
`ArmedAsTold`, `LinkSettles`, `TailServes`, `RestingFileIsDigested`, `WatchersAreTold`,
`UntimedReadsAll`, `NobodyStuck` (which is all `Backpressure` is about). So is what a definition by
recursion over data would compute for every input (the Merkle tree), for want of induction:
`LedgerVerify` takes a root for the sequence of its leaves.

## 5. Findings

Each of these runs checks one sentence of a document or comment, and TLC finds a
behaviour of the code that contradicts it. `PROJECT.json` quotes the sentences.

| Run | What the trace shows |
|---|---|
| `broken_unaltered` | after a rolled-back transaction the in-memory chain is ahead of the database, and a ledger nobody altered fails to verify |
| `link_no_hello` | HandleConn never sends the Hello that ranad waits for |
| `tail_panics` | PublishLive sends on a channel that the removal of its subscriber has closed meanwhile |
| `silence_ends_link` | 20 ms without a frame are taken for a torn frame, and ranad closes the connection |
| `verifiers_disagree` | Verify accepts a ledger whose export the standalone verifier calls BROKEN, another session having signed in between |

Every run of the link takes the code as it is meant in two places: `PeerAnswers =
TRUE` (the service answers the Hello), and a read deadline between two frames is no break
(breaks are the bounded `InboundBreaks`). With the code as it is there would
be no link to speak of, and the rest of it is written for one.

### Differences seen while modelling

These follow from the code the modules translate and can be read off it; they have
no run of their own. A definition in parentheses states the sentence in its module and no
run checks it. (The lines are under `src/`.)

*Ledger.*

* `internal/ledger/writer_loop.go:116`: a forced seal that fails leaves `Err` nil,
  against `writer.go:326`.
* `internal/ledger/writer_loop.go:496`: a head is reported inside the transaction that
  holds its checkpoint, against `writer.go:52`; `MirrorAgrees` says what is kept.
* `internal/ledger/writer_loop.go:386`: SealSession right after a seal by count leaves
  the segment without a checkpoint, against `seal.go:5`.
* `internal/ledger/writer_loop.go:257`, `440`: age limits are looked at only when events
  arrive, against `docs/TRUST.md:29` and `64`.
* `internal/ledger/writer_loop.go:300`: rows committed but not sealed at a crash stay
  outside every segment, against `docs/TRUST.md:5`; `SealCoversRows` therefore
  speaks of writers that have not crashed.
* `internal/ledger/writer.go:279`, `343`: an Append that races Close may find room in the
  queue after the drain, returns nil, and its event is never written, with no error
  (`ClosedKeepsAcked`), against `writer_loop.go:128`; `AckedAccounted` says that only such
  events are lost to Close.
* `internal/ledger/writer.go:358`: two runs on one ledger each cache the previous
  checkpoint hash, and the chain forks; `OneChainAlone` says when it does not.
* `internal/ledger/verify.go:118`: a checkpoint or a GC that commits between Verify's queries
  makes it report BROKEN, against `docs/TRUST.md:172` (`NeverFalselyBroken`).
* `internal/ledger/gc.go:83`: two collectors at once may overwrite a good archive with
  one that lacks the rows the other has cleared.
* `internal/exportverify/verify.go:268`, `307`: without a checkpoint the map reads 0, so the first
  segment is left out of the unattested tail (`TailsAgree`). An export of a ledger with
  archived segments, or with rows left unsealed by a crash, is BROKEN where Verify says
  INCOMPLETE or OK.
* `internal/chain/heads.go:46`: a torn line swallows the next report, and with a third behind
  it the file cannot be read, against the comment at 59 (`TornIsTolerated`).
* `internal/ledger/writer_loop.go:218`: the segment an event is stored under is the writer's own;
  the one ranad counted (`SegmentsHonest`) is data inside the event.

*ranad and the link.*

* `internal/collector/governor.go:173`: each tier has a full burst of its own, so a class
  is shed while one before it in the shed order has tokens, against the comment at 120.
* `internal/collector/governor.go:427`: EndSession merges sheds and ring-buffer drops
  under one reason, against the comment at 214.
* `internal/collector/governor.go:336`: nothing calls RecordRingbufDrop, so what a full
  ring buffer refused is never reported, against `bpf/src/common.h:79`.
* `internal/collector/enricher.go:150`: a restarted ranad numbers a running session's
  events from zero, and so does one that binds an ended session again because its
  SessionStart was replayed behind the end (`pump.go:660`, `ranad_server.go:161`); gaps are numbered by the segment they fall in, so a gap's
  index is also a record's, and so is an alert's, which the alert engine numbers from zero on
  its own (`internal/alerts/engine.go:367`), against `docs/CONTRACTS.md:301`
  (`IdxIdentifies`; `OnlyGapsRepeat` says what is kept).
* A segment tracker starts from 0 in every Pump and after every end it handles, so segment
  numbers repeat after a reconnect, and after a replayed SessionStart.
* `cmd/ranad/main_linux.go:384`: counts taken from the governor are lost when the frame
  that carries them cannot be sent, against `docs/CONTRACTS.md:393`.
* `cmd/ranad/main_linux.go:381`: outboundLoop fails sending to a run that has exited
  before it acts on the end that arrived: the cgroup stays armed, against
  `LIMITS.md:140` (`EndedIsReleased`).
* `internal/service/ranad_server.go:164`: register replays outside the lock, so a SessionStart
  may be sent behind the SessionEnd that BroadcastSessionEnd has sent meanwhile, and arm and
  bind the ended session until ranad dies; a Pump that reads the end first, of a session that
  an earlier Pump armed, does not know its cgid and leaves it armed; and a leftover inbound
  goroutine between arming and binding may bind it after the end was handled. All against
  the comment at 215 and `LIMITS.md:140`; `EndIsFinal` says what is kept (`StartPending`
  is the exception).
* `cmd/ranad/main_linux.go:366`: the outbound goroutine of an ended connection goes on
  draining the ring buffer and may take and lose a record of the next run, against
  the comment at 295.
* `cmd/ranad/main_linux.go:353`: the gap that documents a reconnect names no session
  and is rejected by `schema.Validate`, against the comment at 351.
* `cmd/ranad/main_linux.go:144`: a ranad killed between truncating and writing its salt
  leaves an empty file, which it refuses from then on.
* `cmd/ranad/sock_linux.go:46`: a deadline that expires inside a body is taken for silence; the
  rest of the frame is read as a new one (`cutShort` in `Framing`).
* `cmd/rana/platform_linux.go:123`: the child acts before it is moved into its cgroup
  at 127, against the comment at 115.
* `cmd/rana/platform_linux.go:173`: with two runs at once ranad stays with the first, and
  the first removes the second's socket when it exits: the second is never armed, against
  `docs/ARCHITECTURE.md:14`.
* `internal/bpf/loader_attach.go:187`: `ReattachPlan`'s Skip and ToLoad are computed and used by
  nothing, pinned maps are not opened again; the restart gap is returned only when pins were
  found and ranad only logs it (`cmd/ranad/bpf_source_generated_linux.go:61`); an LSM pin of
  an older start may remain.

*Service.*

* `internal/service/digest.go:226`: a settled file whose digest could not be taken is not
  looked at again before it changes, against the comment at 29 (`SkippedIsRetried`). The size
  difference is of the stat and the digest of the read; an append that fails
  drops the event after the state was updated.
* `internal/service/idx.go`: session.start has an index beyond all kernel events, so a page
  that loaded it drops the kernel's later ones (`internal/ui/src/app.ts:296`); Events asked for what comes
  after 0 never returns index 0; what is appended between the query and Stream is
  seen by neither.
* `internal/alerts/engine.go:239`: a host is marked seen, and a pair escalated, before
  the sink takes the alert: one it refuses is lost. A burst threshold of 1 never
  re-arms. The engine's maps have no lock and Observe has several callers.
* `internal/session/cgroup_watch_linux.go:126`: a scope that empties between the first read and
  the watch is not told until the next change, against `cgroup_watch_linux.go:13`
  (`EmptyIsTold`). One whose last change came with a cgroup.events that was not understood
  (line 132) is not told either: the event is taken and not looked at again. DestroyScope leaves a cgroup something still lives in.
* StartMarkerListener, StartDigestWorker, TimelineHandler, WatchEmpty and SystemdDriver
  have no caller in `cmd/`: their models say what they do when called as they are
  meant to be.

## 6. Not modelled, and the abstractions

*Link.* Peer credentials and the uid check, the back-off's length, Bye. Cgroup ids are
not reused. The gap frames of one FlushGaps are one frame. In `RanadLink` a sheddable
record may be shed or forwarded at any time (the buckets are `Governor`), a frame
is sent whole and at once (pieces are `Framing`, full sockets `Backpressure`), and heads
are left out (`DeviceFiles`, `Backpressure`). The filter map and ring buffer are modelled as
ranad uses them, which one record per action of a process in an armed cgroup is enough
for.

*Ledger.* In `LedgerWriter` one process at a time writes the file; two are in `DeviceFiles`
as far as the chain of checkpoints goes. `AppendEncoded` only through what it shares
with `Append`. `LedgerReaders` takes one session and the order of rows; hashes are
`LedgerVerify`'s.

*Service.* Several callers of the alert engine at once (undefined: unlocked maps); the tables
of sensitive paths and hosts; notifications. The queries of the data source other than
Events. That every change of a file gives it a new mtime (a tool that sets mtimes, or two
changes within the granularity of the file system, can hide one from the digest worker).
In `LiveTail` a published event is a row at once, though Append only queues it: a page
loaded in between lacks it; its properties are about what is shown twice, not about what
is missed.

*Whole components.* Parsing, encoding and rendering without state of their own
(record decoding, redaction, canonical CBOR, profiles, reports, the UI's handlers,
markers, the command line), glue to external systems (the kernel programs, systemd,
macOS virtualization), cryptography. `PROJECT.json` gives the reason for each.

## 7. Plan

Models: what is left is stateless or external (section 6). Worth adding: export and
verification over archives if the code learns to read them back; the heads of `RanadLink` joined to
`DeviceFiles`' heads.log.

Proofs: what is left is liveness, which is out of the prover's reach (section 4). Worth adding: an
abstract link of one record ("caused, on its way, in the ledger, or lost for a reason")
implemented by `RanadLink`, from `OnePlace`; an abstract tail implemented by `LiveTail`.
