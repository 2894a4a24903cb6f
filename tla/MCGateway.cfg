SPECIFICATION Spec
CONSTANTS
  Employee = {e1}
  Request = {r1}
  Max <- MCMax
  MaxStarts = 2
  None = None
CHECK_DEADLOCK FALSE
INVARIANTS
  AnswersAreExpected
  BudgetHolds
PROPERTY RemovedAreShutOut
