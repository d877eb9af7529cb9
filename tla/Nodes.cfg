SPECIFICATION MCSpec
CONSTANTS
  x = x
  y = y
  v1 = v1
  v2 = v2
  d1 = d1
  d2 = d2
  App = {x, y}
  Req = {d1, d2}
  Version = {v1, v2}
  Xray = Xray
  None = None
  Empty = Empty
  Torn = Torn
  a = a
  ab = ab
  Relayed = {a, ab, e}
  Inside <- MCInside
  RowReq = {q1, q2}
SYMMETRY Symmetry
INVARIANTS DeployInv RowInv
PROPERTY LostOnlyToOldReads
CHECK_DEADLOCK FALSE
