-------------------------- MODULE AppendOnlyLedger --------------------------
(***************************************************************************)
(* What a ledger promises its readers (verify, export, the live view),     *)
(* whatever the writer behind it goes through: it only grows.  A row, a    *)
(* sealed segment or a checkpoint that was once committed stays where it   *)
(* is, unchanged; new rows get rowids above every rowid in use; and a new  *)
(* checkpoint signs the hash of a segment that is in the ledger with it.   *)
(***************************************************************************)
EXTENDS LedgerVerify

VARIABLE db

Grown(s, t) == /\ Len(s) <= Len(t)
               /\ \A i \in 1 .. Len(s) : t[i] = s[i]

Extends(L, M) ==
    /\ L.sessions \subseteq M.sessions
    /\ L.lastRow <= M.lastRow
    /\ \A s \in Session : Grown(L.rows[s], M.rows[s]) /\ Grown(L.segs[s], M.segs[s])
    /\ Grown(L.ckpts, M.ckpts)

\* Fresh rowids, which the ranges of sealed segments rely on.
RowsFresh(L, M) ==
    \A s \in Session : \A i \in Len(L.rows[s]) + 1 .. Len(M.rows[s]) :
        L.lastRow < M.rows[s][i].rowid /\ M.rows[s][i].rowid <= M.lastRow

Signs(M, c) ==
    \E k \in 1 .. Len(M.segs[c.body.session]) :
        /\ M.segs[c.body.session][k].header.seg = c.body.segLast
        /\ M.segs[c.body.session][k].hash = c.body.head

CkptsBacked(L, M) ==
    \A i \in Len(L.ckpts) + 1 .. Len(M.ckpts) : Signs(M, M.ckpts[i])

\* One transaction takes the ledger from L to M.
Step(L, M) == Extends(L, M) /\ RowsFresh(L, M) /\ CkptsBacked(L, M)

Init == db = EmptyLedger

Commit == Step(db, db')

Spec == Init /\ [][Commit]_db

=============================================================================
