SPECIFICATION Spec
CONSTANTS
  None = None
  Malformed = Malformed
  Callers = {t1}
  Requests <- FactorialRequests
  MinInt <- Min4
  MaxInt = 3
  MaxFaults = 0
  MaxCrashes = 0
INVARIANT MissingOperandIsRejected
