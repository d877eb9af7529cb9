SPECIFICATION MCSpec
CONSTANTS
  Main = Main
  None = None
  ArchiveWorker = {a1, a2}
  ArchiveQueue = 1
  MaxDay = 3
  MaxAge = 1
  MaxStops = 2
  MaxFaults = 2
  Reader = {r1, r2}
  Prov = {p1, p2}
  MaxPeriod = 3
INVARIANTS ArchiveInv StatInv
PROPERTIES NothingVanishes StartFinishes
CHECK_DEADLOCK FALSE
