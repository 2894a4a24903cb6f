SPECIFICATION FairSpec
CONSTANTS
  Task = {t1}
  Event = {v1}
  Sweep = {s1}
  TaskQueue = {assigned, updated}
  ReminderQueue = {assigned}
  CreatedQueue = {created}
  MaxCrashes = 1
  MaxFaults = 1
  None = None
CHECK_DEADLOCK FALSE
INVARIANTS
  PersistedFirst
  DuplicatesNeedFaults
  PassedMeansStored
PROPERTY EventuallyDrained
