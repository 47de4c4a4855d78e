SPECIFICATION Spec
CONSTANTS
  None = None
  Malformed = Malformed
  Callers = {t1}
  Requests <- AllRequests
  MinInt <- Min4
  MaxInt = 3
  MaxFaults = 0
  MaxCrashes = 0
CONSTRAINT AtMostOneEntryBefore
INVARIANTS
  AnswersAreRight
