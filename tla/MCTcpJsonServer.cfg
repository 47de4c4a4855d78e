SPECIFICATION Spec
CONSTANTS
  None = None
  Threads = {t1, t2}
  Clients = {c1, c2}
  Sizes = {2, 3}
  MaxMessageSize = 2
  MaxLines = 2
  MaxLosses = 1
  MaxTotal = 2
SYMMETRY Symmetry
CONSTRAINT FewLines
CHECK_DEADLOCK FALSE
INVARIANTS
  TypeOK
  AnswersInOrder
  RefusedOnlyTooLarge
  OneOperationPerSession
  AcceptLoopLives
  HandledIsAnswered
