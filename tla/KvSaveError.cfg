\* An exception leaves the data loop
CONSTANTS
  k1 = k1
  k2 = k2
  Key <- TwoKeys
  v1 = v1
  v2 = v2
  Val <- OneVal
  Absent = Absent
  Name = {n1}
  NoName = NoName
  Timestamp <- Times
  Reparse <- Plain
  Garbled = Garbled
  Faults <- ExceptionOnly
SYMMETRY KeysInterchangeable
SPECIFICATION Spec
PROPERTY IncompleteNeverLoads
