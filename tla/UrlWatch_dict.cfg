SPECIFICATION Spec
CONSTANTS
  u1 = u1
  u2 = u2
  u3 = u3
  Id = {u1, u2, u3}
  Dict = {u1}
  Down = {}
  AlertAfter = 3
  CountCap = 4
INVARIANTS DeletedDictIsGone
