SPECIFICATION Spec
CONSTANTS
  Tour = {"employees", "employeeEdit"}
  MaxWriting = 2
  MaxCached = 3
  MaxFailed = 1
  None = None
INVARIANTS
  ScreensCatchUp
  FormsAreCurrent
PROPERTIES
  AsksWhatItMay
CHECK_DEADLOCK FALSE
