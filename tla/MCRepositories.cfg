SPECIFICATION Spec
CONSTANTS
  None = None
  Numbers <- MCNumbers
  Operations <- MCOperations
  MaxEntries = 2
  Outcome <- MCOutcome
INVARIANTS
  HitIsSameOperation
  EquivalentOperationHits
  LoadedIsSaved
  SavedIsFound
