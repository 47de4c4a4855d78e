SPECIFICATION Spec
CONSTANTS
  None = None
  Files <- MCFiles
  Environments <- MCEnvironments
  PasswordFile <- MCPasswordFile
CHECK_DEADLOCK FALSE
INVARIANTS
  FieldsAreAsConfigured
  ConnectionIsAsConfigured
