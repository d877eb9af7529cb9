SPECIFICATION FairSpec
CONSTANTS
  u1 = u1
  u2 = u2
  u3 = u3
  Id = {u1, u2, u3}
  Dict = {u1}
  Down = {u1}
  AlertAfter = 3
  CountCap = 4
INVARIANTS IInv OneLateAlert
PROPERTY DownIsReported
