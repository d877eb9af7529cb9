SPECIFICATION MCSpec
CONSTANTS
  Producer = {p1, p2}
  MaxLines = 2
  MaxDay = 3
  ChSize = 2
  BufCap = 2
  ArchiveQueue = 1
  ArchiveWorker = {a1, a2}
  DropPolicy = "drop"
  FileMayFail = FALSE
  Handler = {h1, h2, h3}
  Job = {j1}
  LogSize = 2
  MonReq = {q1, q2, q3}
  None = None
  Torn = Torn
  MaxList = 2
INVARIANTS IInv OneArchiverPerFile EveryLineCounted LifeInv MonitorInv
PROPERTIES HandedOverIsFinal StopReturns ProcessEnds OnlyOvertakenGoesBack
CHECK_DEADLOCK FALSE
