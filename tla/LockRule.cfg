SPECIFICATION BSpec
CONSTANTS
  b1 = b1
  b2 = b2
  c1 = c1
  c2 = c2
  f1 = f1
  f2 = f2
  Bios <- MCBios
  Dir <- AllWrites
  Entries = {e1, e2}
  Clients <- MCClients
  Files = {f1, f2}
  FileOf <- TwoFiles
  Calls = {"rd_check", "end_ok"}
  NoBio = NoBio
  NULL = NULL
  FailByte = 0

INVARIANT LocksGuardLists
CHECK_DEADLOCK FALSE
