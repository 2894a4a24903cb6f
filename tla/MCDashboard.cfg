SPECIFICATION SeededSpec
CONSTANTS
  Task = {t1, t2}
  Employee = {e1, e2}
  Admin = {boss}
  Request = {r0, r1, r2}
  Author = r0
  FirstTask = t1
  First = e1
  Second = e2
  Undefined = Undefined
  Date <- MCDate
  NewTasks <- MCNewTasks
  Edits <- MCEdits
  Reader = {d1}
  AdminKey = admin
  RedisFails = TRUE
  MaxHired = 1
CHECK_DEADLOCK FALSE
INVARIANTS
  StaleOnlyByRace
PROPERTY EventuallyFresh
