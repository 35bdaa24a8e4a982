---------------------------- MODULE DigestWorker ----------------------------
(***************************************************************************)
(* The digest worker: it polls the files of the profile's scopes, takes a  *)
(* file that looked the same in two scans for settled, and records the     *)
(* digest of its content.  The files change under it at any moment: every  *)
(* look at the disk (walk, stat, read) is a step of its own.               *)
(*                                                                         *)
(* A content stands for itself and for its digest.  Every change of a file *)
(* gives it a new mtime (mtimes have nanoseconds).                         *)
(***************************************************************************)
EXTENDS Naturals, Integers, Sequences

CONSTANTS File, Content,
          MaxDigestBytes,
          MaxChanges       \* bound: changes of the files, of their access, failed appends

ASSUME DigestAssumption ==
    Content \subseteq Nat \ {0} /\ MaxDigestBytes \in Nat /\ MaxChanges \in Nat

\* Contents come in pairs of the same size.
Size(c) == (c + 1) \div 2

VARIABLES
    disk,      \* per file: its content (0: there is none), mtime, whether it can be opened
    files,     \* w.files: what the worker remembers of a file
    scan,      \* where ScanOnce stands
    stopped,   \* digestStop is closed
    settles,   \* per file: its fs.settle events in the ledger, in order
    changes,   \* (bound)
    moved,     \* ours: files changed since ScanOnce last looked at them
    skipped,   \* ours: files whose digest could not be taken since they last changed
    raced,     \* ours: files that changed between their stat and their read
    unrecorded \* ours: files one of whose events was not appended

diskVars   == <<disk, changes, moved>>
digestVars == <<disk, files, scan, stopped, settles, changes, moved, skipped, raced, unrecorded>>

----------------------------------------------------------------------------

Untracked == [tracked |-> FALSE]

\* fileState of a file just found; digest 0: nothing was digested yet.
Found(d) == [tracked |-> TRUE, mtime |-> d.mtime, size |-> Size(d.content),
             stable |-> FALSE, digest |-> 0, settledSize |-> 0]

Exists(f) == disk[f].content # 0
Waiting == [at |-> "tick"]

DigestInit ==
    /\ disk = [f \in File |-> [content |-> 0, mtime |-> 0, readable |-> TRUE]]
    /\ files = [f \in File |-> Untracked]
    /\ scan = [at |-> "off"] /\ stopped = FALSE /\ changes = 0
    /\ settles = [f \in File |-> <<>>]
    /\ moved = {} /\ skipped = {} /\ raced = {} /\ unrecorded = {}

----------------------------------------------------------------------------
(* The agent's processes, and the service around the worker *)

\* A file is written, created or removed (content 0).
Change(f, c) ==
    /\ changes < MaxChanges /\ c # disk[f].content
    /\ disk' = [disk EXCEPT ![f].content = c, ![f].mtime = @ + 1]
    /\ changes' = changes + 1
    /\ moved' = moved \cup {f}
    /\ raced' = IF scan.at = "digest" /\ scan.file = f THEN raced \cup {f} ELSE raced
    /\ skipped' = skipped \ {f}
    /\ UNCHANGED <<files, scan, stopped, settles, unrecorded>>

\* Written back to what it was: a new mtime only.
Touch(f) ==
    /\ changes < MaxChanges /\ Exists(f)
    /\ disk' = [disk EXCEPT ![f].mtime = @ + 1]
    /\ changes' = changes + 1
    /\ moved' = moved \cup {f}
    /\ skipped' = skipped \ {f}
    /\ UNCHANGED <<files, scan, stopped, settles, raced, unrecorded>>

\* Permissions change without the file's mtime.
Access(f) ==
    /\ changes < MaxChanges /\ Exists(f)
    /\ disk' = [disk EXCEPT ![f].readable = ~@]
    /\ changes' = changes + 1
    /\ UNCHANGED <<files, scan, stopped, settles, moved, skipped, raced, unrecorded>>

\* Service.Close: it closes digestStop and does not wait for the worker.
StopWorker ==
    /\ ~stopped /\ stopped' = TRUE
    /\ UNCHANGED <<disk, files, scan, settles, changes, moved, skipped, raced, unrecorded>>

----------------------------------------------------------------------------
(* The worker *)

\* StartDigestWorker: the first tick is registered before the goroutine starts.
StartWorker ==
    /\ scan.at = "off" /\ ~stopped
    /\ scan' = Waiting
    /\ UNCHANGED <<disk, files, stopped, settles, changes, moved, skipped, raced, unrecorded>>

\* A tick (taken even though stop is ready too): scanTargets walks the scopes.
Walk ==
    /\ scan.at = "tick"
    /\ LET found == {f \in File : Exists(f)}
       IN  scan' = [at |-> "stat", todo |-> found, current |-> found]
    /\ UNCHANGED <<disk, files, stopped, settles, changes, moved, skipped, raced, unrecorded>>

Return ==
    /\ scan.at = "tick" /\ stopped
    /\ scan' = [at |-> "returned"]
    /\ UNCHANGED <<disk, files, stopped, settles, changes, moved, skipped, raced, unrecorded>>

Unmoved(st, d) == d.mtime = st.mtime /\ Size(d.content) = st.size

\* mutant: a change does not make a settled file unstable again
LookedOnce(st, d) ==
    IF ~st.tracked THEN Found(d)
    ELSE IF Unmoved(st, d) THEN [st EXCEPT !.stable = TRUE]
    ELSE [st EXCEPT !.mtime = d.mtime, !.size = Size(d.content)]

\* What the scan remembers of a file it could stat.
Looked(st, d) ==
    IF ~st.tracked THEN Found(d)
    ELSE IF Unmoved(st, d) THEN [st EXCEPT !.stable = TRUE]
    ELSE [st EXCEPT !.mtime = d.mtime, !.size = Size(d.content), !.stable = FALSE]

\* mutant: only the size is compared
SettledBySize(st, d) == st.tracked /\ Size(d.content) = st.size /\ ~st.stable

Settled(st, d) == st.tracked /\ Unmoved(st, d) /\ ~st.stable

\* One iteration of ScanOnce up to maybeDigest.
Stat(f) ==
    /\ scan.at = "stat" /\ f \in scan.todo
    /\ LET rest == [scan EXCEPT !.todo = @ \ {f}] IN
       IF Exists(f)
       THEN /\ files' = [files EXCEPT ![f] = Looked(@, disk[f])]
            /\ moved' = moved \ {f}
            /\ scan' = IF Settled(files[f], disk[f])
                       THEN [at |-> "digest", file |-> f, size |-> Size(disk[f].content),
                             todo |-> rest.todo, current |-> rest.current]
                       ELSE rest
       ELSE scan' = rest /\ UNCHANGED <<files, moved>>
    /\ UNCHANGED <<disk, stopped, settles, changes, skipped, raced, unrecorded>>

BackToScan == scan' = [at |-> "stat", todo |-> scan.todo, current |-> scan.current]

\* Too large by its stat, gone, not to be opened, or grown past the cap.
Undigestible(f, size) ==
    \/ size > MaxDigestBytes
    \/ ~Exists(f) \/ ~disk[f].readable
    \/ Size(disk[f].content) > MaxDigestBytes

SkipDigest ==
    /\ scan.at = "digest" /\ Undigestible(scan.file, scan.size)
    /\ BackToScan
    /\ skipped' = skipped \cup {scan.file}
    /\ UNCHANGED <<disk, files, stopped, settles, changes, moved, raced, unrecorded>>

Delta(st, size) == size - st.settledSize

\* mutant: the settled size is not kept
RememberedDigest(st, c, size) == [st EXCEPT !.digest = c]

\* What maybeDigest remembers of the content it has read.
Remembered(st, c, size) == [st EXCEPT !.digest = c, !.settledSize = size]

\* maybeDigest reads the content and, if it is not the last one, remembers it
\* and emits.  The append may fail, and does once the writer is closed.
Digest(fails) ==
    /\ scan.at = "digest" /\ ~Undigestible(scan.file, scan.size)
    /\ LET f == scan.file
           st == files[f]
           c == disk[f].content
       IN  IF st.digest = c
           THEN ~fails /\ UNCHANGED <<files, settles, changes, unrecorded>>
           ELSE /\ files' = [files EXCEPT ![f] = Remembered(st, c, scan.size)]
                /\ IF fails
                   THEN /\ stopped \/ changes < MaxChanges
                        /\ changes' = IF stopped THEN changes ELSE changes + 1
                        /\ unrecorded' = unrecorded \cup {f}
                        /\ UNCHANGED settles
                   ELSE /\ settles' = [settles EXCEPT ![f] = Append(@,
                             [prev |-> st.digest, new |-> c, delta |-> Delta(st, scan.size)])]
                        /\ UNCHANGED <<changes, unrecorded>>
    /\ BackToScan
    /\ UNCHANGED <<disk, stopped, moved, skipped, raced>>

\* The end of ScanOnce: files the walk did not find are forgotten.
Forget ==
    /\ scan.at = "stat" /\ scan.todo = {}
    /\ files' = [f \in File |-> IF f \in scan.current THEN files[f] ELSE Untracked]
    /\ scan' = Waiting
    /\ UNCHANGED <<disk, stopped, settles, changes, moved, skipped, raced, unrecorded>>

WorkerStep ==
    \/ Walk \/ Return \/ SkipDigest \/ Forget
    \/ \E f \in File : Stat(f)
    \/ \E fails \in BOOLEAN : Digest(fails)

DigestNext ==
    \/ StartWorker \/ WorkerStep \/ StopWorker
    \/ \E f \in File : Touch(f) \/ Access(f) \/ \E c \in Content \cup {0} : Change(f, c)

DigestSpec == DigestInit /\ [][DigestNext]_digestVars

\* A worker that was started runs; nothing else has to happen.
DigestFairness == WF_digestVars(WorkerStep)

----------------------------------------------------------------------------
(* Properties *)

\* digest.go, ScanOnce: only a file that did not change for a full interval is
\* digested.  When the scan turns to maybeDigest, nothing has happened to the
\* file since the scan before looked at it.
Debounced == [][(scan.at = "stat" /\ scan'.at = "digest") => scan'.file \notin moved]_digestVars

\* The events of a file chain: the previous digest of each is the digest of the
\* one before it (of some event, after the file was away), so long as
\* every event was appended; and no event repeats the content before it.
SettlesChain ==
    \A f \in File \ unrecorded : \A i \in 1 .. Len(settles[f]) :
        LET e == settles[f][i] IN
        /\ e.prev # e.new
        /\ e.prev # 0 => i > 1 /\ e.prev = settles[f][i - 1].new

\* So do their sizes: the difference an event gives is that between the content
\* it digests and the one before it, unless the file changed between stat and
\* read, or was away and came back.
SizesAddUp ==
    \A f \in File \ (unrecorded \cup raced) : \A i \in 1 .. Len(settles[f]) :
        LET e == settles[f][i] IN
        e.delta = Size(e.new) - (IF e.prev = 0 THEN 0 ELSE Size(settles[f][i - 1].new))

Digestible(f) == Exists(f) /\ disk[f].readable /\ Size(disk[f].content) <= MaxDigestBytes

\* The ledger's last word on a file is the content it has.
Current(f) == files[f].tracked /\ files[f].digest = disk[f].content

\* A file left alone gets its content digested, unless an attempt at it failed.
RestingFileIsDigested ==
    \A f \in File : []<>(Current(f) \/ stopped \/ scan.at = "off" \/ f \in skipped \/ ~Digestible(f))

\* The history of a file can be followed from event to event, by digest and
\* by size.
SettlesAddUp == SettlesChain /\ SizesAddUp

\* maxDigestBytes and maybeDigest: "skip silently, next scan retries".
SkippedIsRetried ==
    \A f \in File : []<>(Digestible(f) => Current(f) \/ stopped \/ scan.at = "off")

=============================================================================
