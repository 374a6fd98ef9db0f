SPECIFICATION Spec
CONSTANTS
  Procs = {p1, p2, p3}
  Entries = {e1, e2}
  NULL = NULL
INVARIANTS LTypeOK NoDeadlock
PROPERTIES ListsSpec OperationsEnd
CHECK_DEADLOCK FALSE
