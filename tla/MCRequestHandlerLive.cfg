SPECIFICATION FairSpec
CONSTANTS
  None = None
  Malformed = Malformed
  Callers = {t1, t2}
  Requests <- TwoRequests
  MinInt <- Min4
  MaxInt = 3
  MaxFaults = 1
  MaxCrashes = 1
PROPERTIES
  EveryRequestIsAnswered
