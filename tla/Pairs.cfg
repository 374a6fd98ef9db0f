SPECIFICATION PSpec
CONSTANTS
  Admins = {a1}
  Users = {u1, u2}
  Devices = {d1, d2}
  Names = {n1, n2}
  NULL = NULL
SYMMETRY Symmetry
INVARIANTS RequestsMeetDevice
CHECK_DEADLOCK FALSE
