\* One run, two connections held at once, one of which breaks.
SPECIFICATION FairSpec
CONSTANTS
  Session = {s1}
  MaxConn = 2
  MaxRecords = 2
  PeerAnswers = TRUE
  Overlap = FALSE
  MaxKills = 0
  Sheddable = {2}
  RingSize = 2
  MaxBreaks = 1
  MaxCrashes = 0
INVARIANTS
  LinkInv
  OnePlace
  QuietLinkDelivers
PROPERTIES
  ArmedAsTold
  LinkSettles
\* The run ends, and ranad waits for another.
CHECK_DEADLOCK FALSE
