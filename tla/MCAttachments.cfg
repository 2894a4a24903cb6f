SPECIFICATION Spec
CONSTANTS
  Task = {t1}
  Employee = {e1, e2}
  Admin = {boss}
  File = {f1, f2}
  Request = {r1, r2, r3}
  None = None
SYMMETRY Symmetry
CHECK_DEADLOCK FALSE
INVARIANTS
  RowsHaveFiles
  LeftoversExplained
  RemovalsAreFinal
