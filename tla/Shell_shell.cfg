SPECIFICATION Spec
CONSTANTS
  NavItems <- AdminNavItems
  NavRows = 1
  MaxRecent = 2
  MaxOthers = 2
  MaxEvents = 5
INVARIANTS
  ShellTypeOK
PROPERTIES
  LightStands
  NoticesEnd
CHECK_DEADLOCK FALSE
