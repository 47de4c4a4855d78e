SPECIFICATION Spec
CONSTANTS
  None = None
  Malformed = Malformed
  Callers = {t1, t2}
  Requests <- SharedRequests
  MinInt <- Min4
  MaxInt = 3
  MaxFaults = 2
  MaxCrashes = 1
SYMMETRY Symmetry
INVARIANTS
  TypeOK
  AnswersAreRight
  AcknowledgedIsStored
  CacheCoversHistory
  StoredAsAnswered
PROPERTIES
  RowsNeverChange
