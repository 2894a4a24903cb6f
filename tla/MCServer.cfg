SPECIFICATION Spec
CONSTANTS
  Request = {r1, r2}
  Socket = {w1}
  Signal = {term, int}
  MaxStarts = 2
CHECK_DEADLOCK FALSE
INVARIANT NothingLeftBehind
PROPERTY StopsWhenAsked
