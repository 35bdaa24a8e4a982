---------------------------- MODULE DeviceFiles ----------------------------
(***************************************************************************)
(* The files that outlive a run: device.key, the two salts, meta's public  *)
(* key, the checkpoint chain of the ledger and heads.log.  Runs of `rana`  *)
(* start at the same time on a new machine, one may be killed anywhere, a  *)
(* user wraps the key, ranad comes and goes and its disk may be full.      *)
(*                                                                         *)
(* A key or a salt is the number of its drawing; a checkpoint is its cid.  *)
(***************************************************************************)
EXTENDS Naturals, Sequences, FiniteSets

CONSTANTS Run, Daemon,                        \* processes: rana run, ranad
          MaxDraws, MaxSigned, MaxKills       \* bounds

VARIABLES
    key,        \* device.key: the seed (0: no file), whether it is wrapped
    salt,       \* the user's salt file (0: none)
    meta,       \* the public key in the ledger (0: none)
    ckpts,      \* checkpoints: who signed, what each takes to be the previous one
    runs,       \* where each rana run stands
    wrapper,    \* Wrap: the seed it read (0: not under way)
    rootSalt,   \* ranad's salt file
    daemons,    \* where each ranad stands, and its salt
    sent,       \* head reports on their way to ranad
    heads,      \* heads.log: the writes made to it, each whole or part of a line
    drawn,      \* (bound) drawings so far
    kills,      \* (bound)
    overlapped, \* ours: two writers were open, or two ranads first started, at once
    rootSalts   \* ours: the salts a ranad redacted with

deviceVars == <<key, salt, meta, ckpts, runs, wrapper, rootSalt, daemons, sent, heads,
                drawn, kills, overlapped, rootSalts>>
runFiles == <<key, salt, meta, ckpts>>
rootFiles == <<rootSalt, daemons, sent, heads, rootSalts>>

Empty == MaxDraws + 1        \* ranad's salt file, created but not written
Down == [at |-> "down", salt |-> 0, key |-> 0, prev |-> 0]

DeviceInit ==
    /\ key = [seed |-> 0, wrapped |-> FALSE] /\ salt = 0 /\ meta = 0 /\ ckpts = <<>>
    /\ runs = [p \in Run |-> Down] /\ wrapper = 0
    /\ rootSalt = 0 /\ daemons = [d \in Daemon |-> [at |-> "down", salt |-> 0]]
    /\ sent = <<>> /\ heads = <<>>
    /\ drawn = 0 /\ kills = 0 /\ overlapped = {} /\ rootSalts = {}

----------------------------------------------------------------------------
(* A run: salt, key, writer, checkpoints *)

Becomes(p, at) == runs' = [runs EXCEPT ![p].at = at]

Draw == drawn < MaxDraws /\ drawn' = drawn + 1

RunStarts(p) ==
    /\ runs[p].at = "down" /\ Becomes(p, "salt")
    /\ UNCHANGED <<runFiles, rootFiles, wrapper, drawn, kills, overlapped>>

\* LoadOrCreateSalt: what is there is read; else one is drawn into a temporary
\* file, for linkSalt.
ReadSalt(p) ==
    /\ runs[p].at = "salt"
    /\ IF salt # 0
       THEN runs' = [runs EXCEPT ![p].at = "key", ![p].salt = salt] /\ UNCHANGED drawn
       ELSE Draw /\ runs' = [runs EXCEPT ![p].at = "linkSalt", ![p].salt = drawn + 1]
    /\ UNCHANGED <<runFiles, rootFiles, wrapper, kills, overlapped>>

\* mutant: rename(2), which replaces what is there
RenameSalt(p) ==
    /\ runs[p].at = "linkSalt"
    /\ salt' = runs[p].salt /\ Becomes(p, "key")
    /\ UNCHANGED <<key, meta, ckpts, rootFiles, wrapper, drawn, kills, overlapped>>

\* link(2) refuses a name that exists; the loser reads the winner's.
LinkSalt(p) ==
    /\ runs[p].at = "linkSalt"
    /\ salt' = IF salt = 0 THEN runs[p].salt ELSE salt
    /\ runs' = [runs EXCEPT ![p].at = "key", ![p].salt = salt']
    /\ UNCHANGED <<key, meta, ckpts, rootFiles, wrapper, drawn, kills, overlapped>>

\* LoadKey with no passphrase.
Loadable == key.seed # 0 /\ ~key.wrapped

\* loadOrGenerateKey: load; else GenerateKey, whose stat may find a key.
ReadKey(p) ==
    /\ runs[p].at = "key"
    /\ runs' = [runs EXCEPT ![p].at = IF Loadable THEN "open" ELSE "stat",
                            ![p].key = IF Loadable THEN key.seed ELSE 0]
    /\ UNCHANGED <<runFiles, rootFiles, wrapper, drawn, kills, overlapped>>

StatKey(p) ==
    /\ runs[p].at = "stat"
    /\ IF key.seed # 0 THEN Becomes(p, "reload") /\ UNCHANGED drawn
       ELSE Draw /\ runs' = [runs EXCEPT ![p].at = "linkKey", ![p].key = drawn + 1]
    /\ UNCHANGED <<runFiles, rootFiles, wrapper, kills, overlapped>>

LinkKey(p) ==
    /\ runs[p].at = "linkKey"
    /\ key' = IF key.seed = 0 THEN [seed |-> runs[p].key, wrapped |-> FALSE] ELSE key
    /\ Becomes(p, IF key.seed = 0 THEN "open" ELSE "reload")
    /\ UNCHANGED <<salt, meta, ckpts, rootFiles, wrapper, drawn, kills, overlapped>>

\* A wrapped key ends the run.
ReloadKey(p) ==
    /\ runs[p].at = "reload"
    /\ runs' = [runs EXCEPT ![p] = IF Loadable THEN [@ EXCEPT !.at = "open", !.key = key.seed] ELSE Down]
    /\ UNCHANGED <<runFiles, rootFiles, wrapper, drawn, kills, overlapped>>

Writing == {p \in Run : runs[p].at \in {"meta", "up"}}

\* NewWriter: the previous checkpoint is read once, then ensureMeta inserts
\* its key unless there is one.
OpenLedger(p) ==
    /\ runs[p].at = "open"
    /\ runs' = [runs EXCEPT ![p].at = "meta", ![p].prev = Len(ckpts)]
    /\ overlapped' = IF Writing = {} THEN overlapped ELSE overlapped \cup {"writers"}
    /\ UNCHANGED <<runFiles, rootFiles, wrapper, drawn, kills>>

EnsureMeta(p) ==
    /\ runs[p].at = "meta"
    /\ meta' = IF meta = 0 THEN runs[p].key ELSE meta
    /\ Becomes(p, "up")
    /\ UNCHANGED <<key, salt, ckpts, rootFiles, wrapper, drawn, kills, overlapped>>

\* mutant: the checkpoint remembered stays the one read at the start
SignStale(p) ==
    /\ runs[p].at = "up" /\ Len(ckpts) < MaxSigned
    /\ ckpts' = Append(ckpts, [by |-> runs[p].key, prev |-> runs[p].prev])
    /\ sent' = IF \E d \in Daemon : daemons[d].at = "up" THEN Append(sent, Len(ckpts) + 1) ELSE sent
    /\ UNCHANGED <<key, salt, meta, runs, wrapper, rootSalt, daemons, heads, drawn, kills, overlapped, rootSalts>>

\* A checkpoint: signed with the key in memory, chained to the one remembered,
\* reported to the ranads that are connected.
Sign(p) ==
    /\ runs[p].at = "up" /\ Len(ckpts) < MaxSigned
    /\ ckpts' = Append(ckpts, [by |-> runs[p].key, prev |-> runs[p].prev])
    /\ runs' = [runs EXCEPT ![p].prev = Len(ckpts) + 1]
    /\ sent' = IF \E d \in Daemon : daemons[d].at = "up" THEN Append(sent, Len(ckpts) + 1) ELSE sent
    /\ UNCHANGED <<key, salt, meta, wrapper, rootSalt, daemons, heads, drawn, kills, overlapped, rootSalts>>

\* A run ends, or is killed anywhere: temporary files have names of their own.
RunEnds(p) ==
    /\ runs[p].at # "down"
    /\ runs[p].at = "up" \/ kills < MaxKills
    /\ kills' = IF runs[p].at = "up" THEN kills ELSE kills + 1
    /\ runs' = [runs EXCEPT ![p] = Down]
    /\ UNCHANGED <<runFiles, rootFiles, wrapper, drawn, overlapped>>

RunStep(p) ==
    \/ RunStarts(p) \/ ReadSalt(p) \/ LinkSalt(p) \/ ReadKey(p) \/ StatKey(p) \/ LinkKey(p)
    \/ ReloadKey(p) \/ OpenLedger(p) \/ EnsureMeta(p) \/ Sign(p) \/ RunEnds(p)

----------------------------------------------------------------------------
(* Wrap: read and decode the plain key, rename the wrapped one over it *)

WrapRead ==
    /\ wrapper = 0 /\ Loadable
    /\ wrapper' = key.seed
    /\ UNCHANGED <<runFiles, rootFiles, runs, drawn, kills, overlapped>>

WrapRename ==
    /\ wrapper # 0
    /\ key' = [seed |-> wrapper, wrapped |-> TRUE] /\ wrapper' = 0
    /\ UNCHANGED <<salt, meta, ckpts, rootFiles, runs, drawn, kills, overlapped>>

----------------------------------------------------------------------------
(* ranad: its salt, and heads.log *)

\* loadOrCreateSalt: an empty file is refused.
DaemonStarts(d) ==
    /\ daemons[d].at = "down" /\ rootSalt # Empty
    /\ overlapped' = IF \A e \in Daemon : daemons[e].at = "down" THEN overlapped
                     ELSE overlapped \cup {"daemons"}
    /\ IF rootSalt # 0
       THEN daemons' = [daemons EXCEPT ![d] = [at |-> "up", salt |-> rootSalt]] /\ UNCHANGED drawn
            /\ rootSalts' = rootSalts \cup {rootSalt}
       ELSE Draw /\ daemons' = [daemons EXCEPT ![d] = [at |-> "create", salt |-> drawn + 1]]
            /\ UNCHANGED rootSalts
    /\ UNCHANGED <<runFiles, runs, wrapper, rootSalt, sent, heads, kills>>

\* os.WriteFile truncates, then writes.
TruncateSalt(d) ==
    /\ daemons[d].at = "create"
    /\ rootSalt' = Empty /\ daemons' = [daemons EXCEPT ![d].at = "write"]
    /\ UNCHANGED <<runFiles, runs, wrapper, sent, heads, drawn, kills, overlapped, rootSalts>>

WriteSalt(d) ==
    /\ daemons[d].at = "write"
    /\ rootSalt' = daemons[d].salt /\ daemons' = [daemons EXCEPT ![d].at = "up"]
    /\ rootSalts' = rootSalts \cup {daemons[d].salt}
    /\ UNCHANGED <<runFiles, runs, wrapper, sent, heads, drawn, kills, overlapped>>

\* A write of a line: whole, without its newline, or less.
Pieces == {"line", "body", "part"}

\* AppendHead.  A write that falls short is an error, which ends the
\* connection, or the death of ranad: what is still on the way is lost.
AppendHead(d, piece) ==
    /\ daemons[d].at = "up" /\ sent # <<>>
    /\ piece = "line" \/ kills < MaxKills
    /\ heads' = Append(heads, [ckpt |-> Head(sent), piece |-> piece])
    /\ sent' = IF piece = "line" THEN Tail(sent) ELSE <<>>
    /\ kills' = IF piece = "line" THEN kills ELSE kills + 1
    /\ UNCHANGED <<runFiles, runs, wrapper, rootSalt, daemons, drawn, overlapped, rootSalts>>

DaemonDies(d) ==
    /\ daemons[d].at # "down" /\ kills < MaxKills
    /\ daemons' = [daemons EXCEPT ![d] = [at |-> "down", salt |-> 0]]
    /\ sent' = <<>> /\ kills' = kills + 1
    /\ UNCHANGED <<runFiles, runs, wrapper, rootSalt, heads, drawn, overlapped, rootSalts>>

DaemonStep(d) ==
    \/ DaemonStarts(d) \/ TruncateSalt(d) \/ WriteSalt(d) \/ DaemonDies(d)
    \/ \E piece \in Pieces : AppendHead(d, piece)

----------------------------------------------------------------------------
(* ReadHeads *)

\* A line is what lies between two newlines: a write that ends its line, with
\* those before it that did not.
Opens(i) == i = 1 \/ heads[i - 1].piece = "line"
Lines == {i \in DOMAIN heads : Opens(i)}
Closes(i) == heads[i].piece = "line" \/ i = Len(heads)
\* mutant: part of a line is taken for a head
ParsesAny(i) == Closes(i)

Parses(i) == Closes(i) /\ heads[i].piece # "part"
LastLine(i) == \A j \in Lines : j <= i

\* Malformed anywhere but in the last line is an error.
Unreadable == \E i \in Lines : ~Parses(i) /\ ~LastLine(i)
ReadHeads == {heads[i].ckpt : i \in {j \in Lines : Parses(j)}}

----------------------------------------------------------------------------

DeviceNext ==
    \/ \E p \in Run : RunStep(p)
    \/ WrapRead \/ WrapRename
    \/ \E d \in Daemon : DaemonStep(d)

DeviceSpec == DeviceInit /\ [][DeviceNext]_deviceVars

----------------------------------------------------------------------------
(* Properties *)

\* Whatever started when, all runs redact with the salt on disk, and sign with
\* the key on disk, wrapped meanwhile or not.
OneKeyOneSalt ==
    \A p \in Run :
        /\ runs[p].at \notin {"down", "salt", "linkSalt"} => runs[p].salt = salt
        /\ runs[p].at \in {"open", "meta", "up"} => runs[p].key = key.seed

\* Verify takes the key from meta: it is the one every checkpoint was signed
\* with, whichever run got to write it.
MetaVerifiesAll == \A i \in DOMAIN ckpts : ckpts[i].by = meta

\* The checkpoints form one chain through ends and deaths of the runs, unless
\* two writers were open at once, each with a previous checkpoint of its own.
OneChainAlone ==
    "writers" \notin overlapped => \A i \in DOMAIN ckpts : ckpts[i].prev = i - 1

\* ranad redacts with one salt for good, and that one is on disk: a death
\* between truncation and write leaves a file it refuses, never a new salt.
\* Two ranads that start at once are another matter.
RootSaltKept ==
    "daemons" \notin overlapped => \A s \in rootSalts : rootSalt = s

\* What is drawn once stays: the key, the user's salt and ranad's.
KeysAndSaltsKept == OneKeyOneSalt /\ RootSaltKept

\* The checkpoints verify: by the key in meta, as one chain.
ChainVerifies == MetaVerifiesAll /\ OneChainAlone

Torn == {i \in DOMAIN heads : heads[i].piece # "line"}

\* What ReadHeads returns was written, to the end; what was written before the
\* first torn line is among it; and only a torn line with two reports behind
\* it keeps the mirror from being read.
MirrorReadsBack ==
    IF Unreadable THEN \E i \in Torn : Len(heads) >= i + 2
    ELSE \A i \in DOMAIN heads :
            /\ (\A j \in Torn : i < j) => heads[i].ckpt \in ReadHeads
            /\ heads[i].ckpt \in ReadHeads => heads[i].piece # "part"

\* heads.go: a torn write is tolerated, not fatal.
TornIsTolerated == ~Unreadable

=============================================================================
