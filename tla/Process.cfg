SPECIFICATION BSpec
CONSTANTS
  b1 = b1
  b2 = b2
  c1 = c1
  c2 = c2
  f1 = f1
  f2 = f2
  Bios <- MCBios
  Dir <- MCDir
  Entries = {e1, e2}
  Clients <- MCClients
  Files = {f1}
  FileOf <- OneFile
  Calls = {"rd_check", "rd_data", "wr_data", "end_ok", "end_eio", "mmap"}
  NoBio = NoBio
  NULL = NULL
  FailByte = 1
SYMMETRY Symmetry
INVARIANTS NoFault Ownership CurrentIsOwn AnswerIsVerdict
PROPERTIES AnswersStand ServiceSpec
