SPECIFICATION SeededSpec
CONSTANTS
  User = {u1}
  Token = {k0, k1, k2}
  Link = {}
  Password = {p1}
  Request = {r0, r1, r2, r3}
  Page = {a, b}
  Earlier = r0
  FirstToken = k0
  Someone = u1
  Secret = p1
  None = None
CHECK_DEADLOCK FALSE
INVARIANTS
  AlarmsHaveACause
  SessionsAreBacked
PROPERTY EventuallyInitialised
