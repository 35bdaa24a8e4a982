\* The enrichment of records, the governor and the loader of kernel programs.
SPECIFICATION CollectorSpec
CONSTANTS
  Session = {s1, s2}
  Cgid = {g1, g2}
  Pump = {p1, p2}
  Addr = {a1}
  Qname = {q1}
  Nothing = Nothing
  TTL = {0, 2}
  JoinWindow = 1
  SegEvents = 2
  SegAge = 2
  MaxRecords = 3
  MaxSeconds = 3
  MaxSweeps = 1
  MaxDeaths = 1
  NeverShed = {exec}
  Burst = 1
  Whole = 2
  Rate = 3
  MaxCalls = 4
  MaxTime = 1
  exec = exec
  connect = connect
  file = file
  Hook = {exec, connect, file}
  ExecHook = {exec}
  NetHook = {connect}
  LsmHook = lsm
  Baseline <- TwoVersions
  DurableMap = {m1}
  Kernel <- Releases
  MaxStarts = 3
  MaxReboots = 1
SYMMETRY Alike
INVARIANTS
  JoinHonest
  NumbersHonest
  ChargedToItsSession
  UpIsSound
  Accounted
  IntervalsHonest
PROPERTIES
  BucketsRight
\* Records, time, calls and starts are bounded.
CHECK_DEADLOCK FALSE
