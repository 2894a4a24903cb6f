SPECIFICATION Spec
CONSTANTS
  Task = {t1}
  Employee = {e1, e2}
  Admin = {boss}
  Request = {r1, r2, r3}
  Undefined = Undefined
  Date <- MCDate
  NewTasks <- MCNewTasks
  Edits <- MCEdits
SYMMETRY RequestSymmetry
CHECK_DEADLOCK FALSE
INVARIANTS
  TypeOK
  AuditTellsTheLife
  RepliesAreTrue
  CompletionIsRecorded
  BornCompletedIsFrozen
PROPERTIES
  FieldsNotNamedSurvive
  UnracedEditsKeepTheRules
  ImplementsRegister
