SPECIFICATION QuarantineSpec
CONSTANTS
  None = None
  a1 = a1
  a2 = a2
  w1 = w1
  w2 = w2
  i1 = i1
  i2 = i2
  i3 = i3
  i4 = i4
  Accounts = {a1, a2}
  Writers = {w1, w2}
  Inodes = {i1, i2, i3, i4}
PROPERTIES
  StaysQuarantined
