SPECIFICATION Spec
CONSTANTS
  Admins = {a1, a2}
  Users = {u1, u2}
  Devices = {d1, d2}
  Names = {n1, n2}
  NULL = NULL

PROPERTY OpenMeetsFlag
CHECK_DEADLOCK FALSE
