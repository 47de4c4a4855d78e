SPECIFICATION FairSpec
CONSTANTS
  None = None
  Callers = {c1, c2}
  Jobs <- MCJobs
  MaxFaults = 1
INVARIANTS
  TypeOK
  EveryCallHasOnePlace
  NoStrandedCaller
  NoLostWakeup
PROPERTIES
  CallReturns
  StopReturns
  ImplementsInterface
