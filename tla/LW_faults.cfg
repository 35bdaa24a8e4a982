\* Transactions fail, the process dies, two callers race, and everyone is served.
SPECIFICATION FairSpec
CONSTANTS
  Session = {s1}
  GapReason = {}
  NoGap = NoGap
  NoSession = NoSession
  QueueCap = 2
  BatchMax = 2
  SegMaxEvents = 1
  SegMaxAge = 1
  CkptMaxSegs = 2
  CkptMaxWait = 2
  HasKey = TRUE
  MaxEvents = 3
  MaxSenders = 2
  MaxTime = 0
  MaxErrors = 1
  MaxCrashes = 1
  MaxSeals = 1
INVARIANTS
  WriterInv
  AckedAccounted
PROPERTIES
  ImplementsAppendOnly
  EveryoneServed
\* The callers stop at MaxEvents and the goroutine when it is closed.
CHECK_DEADLOCK FALSE
