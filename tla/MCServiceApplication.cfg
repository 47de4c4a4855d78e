SPECIFICATION FairSpec
CONSTANTS
  None = None
  Threads = {t1, t2}
  Clients = {c1}
  Sizes = {1}
  MaxMessageSize = 1
  MaxLines = 1
  MaxLosses = 0
  Jobs <- MCJobs
  MaxFaults = 0
  MaxCalls = 1
CHECK_DEADLOCK FALSE
INVARIANTS
  TypeOK
  StorageOutlivesRequests
  LogsToConfiguredFile
  NoThreadOutlivesRun
  EndsOnlyOnSignal
PROPERTIES
  RequestsAreAnswered
  SignalEndsService
  FailedStartEndsService
