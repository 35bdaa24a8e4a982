\* One failed transaction, nobody altering anything.
SPECIFICATION Spec
CONSTANTS
  Session = {s1}
  GapReason = {shed}
  NoGap = NoGap
  NoSession = NoSession
  QueueCap = 2
  BatchMax = 2
  SegMaxEvents = 2
  SegMaxAge = 1
  CkptMaxSegs = 2
  CkptMaxWait = 2
  HasKey = TRUE
  MaxEvents = 3
  MaxSenders = 1
  MaxTime = 0
  MaxErrors = 1
  MaxCrashes = 0
  MaxSeals = 1
INVARIANTS
  BrokenOnlyIfAltered
\* The callers stop at MaxEvents and the goroutine when it is closed.
CHECK_DEADLOCK FALSE
