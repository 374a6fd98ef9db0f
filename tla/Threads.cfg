SPECIFICATION Spec
CONSTANTS
  b1 = b1
  b2 = b2
  c1 = c1
  c2 = c2
  f1 = f1
  f2 = f2
  Bios <- MCBios
  Dir <- MCDir
  Entries = {e1, e2}
  Clients <- MCClients
  Files <- MCFiles
  FileOf <- TwoFiles
  Calls = {"rd_check", "po_check", "end_ok", "end_eio"}
  NoBio = NoBio
  NULL = NULL
SYMMETRY Symmetry
INVARIANTS TypeOK EachBioOnce FirstReadInOrder NoLostWakeup InFlightBalance
PROPERTIES AnsweredOnce ListsSpec
CHECK_DEADLOCK FALSE
