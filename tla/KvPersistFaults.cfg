\* Every fault the model knows, and a key that its file cannot hold.
CONSTANTS
  k1 = k1
  k2 = k2
  Key <- TwoKeys
  v1 = v1
  v2 = v2
  Val <- OneVal
  Absent = Absent
  Name = {n1}
  NoName = NoName
  Timestamp <- Times
  Reparse <- Quoted
  Garbled = Garbled
  Faults <- EveryFault
SPECIFICATION Spec
PROPERTIES LoadNeverInvents CompleteNeverRewritten SaveEnds
