SPECIFICATION Spec
CONSTANTS
  Session = {s1, s2}
  MaxConn = 2
  MaxRecords = 1
  PeerAnswers = TRUE
  Overlap = TRUE
  MaxKills = 1
  Sheddable = {}
  RingSize = 2
  MaxBreaks = 0
  MaxCrashes = 1
CHECK_DEADLOCK FALSE
SYMMETRY Interchangeable
VIEW Current
INVARIANT OnePlace
