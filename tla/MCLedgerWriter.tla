--------------------------- MODULE MCLedgerWriter ---------------------------
(***************************************************************************)
(* LedgerWriter on small instances.  Sessions are interchangeable: nothing *)
(* orders or names them, so a run of safety properties over two of them    *)
(* may identify states that differ by their exchange.                      *)
(***************************************************************************)
EXTENDS LedgerWriter, TLC

Symmetry == Permutations(Session)

\* What a run may leave out of its view of a state when no transaction fails
\* and it asks nothing of the callers' promises: no guard and no other
\* variable reads these histories.
Unpromised ==
    <<sending, nextId, queue, closed, loopVars, pc, sealVars, memVars, durable, tx, now,
      rolledBack, tainted, errors, crashes>>
=============================================================================
