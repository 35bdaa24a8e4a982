SPECIFICATION FairSpec
CONSTANTS
  Session = {s1}
  MaxConn = 2
  MaxRecords = 0
  PeerAnswers = FALSE
  Overlap = FALSE
  MaxKills = 0
  Sheddable = {}
  RingSize = 2
  MaxBreaks = 0
  MaxCrashes = 0
CHECK_DEADLOCK FALSE
PROPERTY LinkServes
