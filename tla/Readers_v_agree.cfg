\* No collector and no restart: Verify and the export of one session of two.
SPECIFICATION ReadersSpec
CONSTANTS
  Collector = {}
  MaxRows = 3
  MaxOthers = 1
  MaxDeaths = 0
INVARIANT
  VerifiersAgree
CHECK_DEADLOCK FALSE
