\* The ledger's readers and collectors, and the device's files.
SPECIFICATION StorageSpec
CONSTANTS
  Collector = {c1, c2}
  MaxRows = 3
  MaxOthers = 1
  MaxDeaths = 1
  Run = {r1, r2}
  Daemon = {d1}
  MaxDraws = 4
  MaxSigned = 3
  MaxKills = 1
SYMMETRY Alike
INVARIANTS
  ClearedIsArchived
  VerdictsJustified
  KeysAndSaltsKept
  ChainVerifies
  MirrorReadsBack
\* Rows, draws and checkpoints are bounded: each scene may come to an end.
CHECK_DEADLOCK FALSE
