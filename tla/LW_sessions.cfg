\* Two sessions take turns in one writer, which may die twice, time passing.
SPECIFICATION Spec
CONSTANTS
  Session = {s1, s2}
  GapReason = {shed}
  NoGap = NoGap
  NoSession = NoSession
  QueueCap = 2
  BatchMax = 2
  SegMaxEvents = 2
  SegMaxAge = 1
  CkptMaxSegs = 2
  CkptMaxWait = 1
  HasKey = TRUE
  MaxEvents = 3
  MaxSenders = 1
  MaxTime = 1
  MaxErrors = 0
  MaxCrashes = 2
  MaxSeals = 1
INVARIANTS
  LedgerHonest
  CheckpointsChained
  SealedAndAttestedOnce
  CallerOrderKept
PROPERTIES
  SealCoversRows
SYMMETRY Symmetry
VIEW Unpromised
\* The callers stop at MaxEvents and the goroutine when it is closed.
CHECK_DEADLOCK FALSE
