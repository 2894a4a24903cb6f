SPECIFICATION Spec
CONSTANTS
  User = {u1}
  Token = {k1, k2, k3}
  Link = {l1}
  Password = {p1, p2}
  Request = {r1, r2, r3, r4}
  None = None
SYMMETRY Symmetry
CHECK_DEADLOCK FALSE
INVARIANT ForcesFullRelogin
