SPECIFICATION Spec
CONSTANTS
  k1 = k1
  k2 = k2
  Key <- MCKey
  RowKey <- MCRowKey
  Down = {}
  Asked = {k2}
  c1 = c1
  c2 = c2
  Call <- MCCall
  AlertAfter = 2
  CountCap = 3
  RelaysSet = TRUE
SYMMETRY MCSymmetry
INVARIANT IInv
PROPERTY AlertsAreEarned
