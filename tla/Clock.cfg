SPECIFICATION Spec
CONSTANTS
  FirstDay = 8700
  LastDay = 9200
  DayTicks = 2
  MaxResets = 1
INVARIANTS
  ClockRight
  TypeOK
PROPERTIES
  RightAgain
CHECK_DEADLOCK FALSE
