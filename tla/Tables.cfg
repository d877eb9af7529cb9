SPECIFICATION MCSpec
CONSTANTS
  s = s
  s1 = s1
  App = {s, s1}
  Spelled <- MCSpelled
  Node <- MCNode
  Rep = {p1, p2}
  Base = 4
  Word = 256
  Minutes10 = 1
  Minutes60 = 2
  MaxClock = 3
  Domain = {e1, e2}
  HostReq = {q1, q2}
  MaxId = 3
SYMMETRY Symmetry
INVARIANTS RegistryInv HostInv
PROPERTY StatusIsOwn
CHECK_DEADLOCK FALSE
