SPECIFICATION Spec
CONSTANTS
  User = {boss, u1, u2, u3}
  Admin = {boss}
  Email = {e0, e1, e2, e3}
  Profile = {d1, d2}
  Request = {r1, r2, r3}
  Undefined = Undefined
  None = None
SYMMETRY Symmetry
CHECK_DEADLOCK FALSE
INVARIANTS
  TypeOK
  OneAccountPerAddress
  LoginsMatchProfiles
  RemovedAreGone
  TablesReplayTheLog
  AnswersAreTrue
