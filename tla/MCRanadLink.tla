----------------------------- MODULE MCRanadLink -----------------------------
(* Instances of RanadLink for TLC. *)
EXTENDS RanadLink, TLC

Interchangeable == Permutations(Session)

\* Nothing reads what is left of a connection that was closed and let go before
\* the next dial takes its number.
Spent(k) == Free(k) /\ handler[k] = "none" /\ k \notin registered /\ conn[k].up = <<>>

\* A state as far as OnePlace and every guard can tell: without what is spent,
\* the indices issued, and the reasons why records were lost (only how often:
\* one that is lost twice was in two places before).
Current ==
    <<[k \in {j \in Conn : ~Spent(j)} |-> <<conn[k], pump[k]>>],
      daemon, IF daemon = "dial" THEN 0 ELSE cur, serverVars,
      armed, bound, nextIdx, ring, shed, bounds, emitted, Gone, Cardinality(lost)>>

=============================================================================
