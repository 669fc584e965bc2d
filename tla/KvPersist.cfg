\* Crashes at any point, nothing else fails.
CONSTANTS
  k1 = k1
  k2 = k2
  Key <- TwoKeys
  v1 = v1
  v2 = v2
  Val <- TwoVals
  Absent = Absent
  Name = {n1}
  NoName = NoName
  Timestamp <- Times
  Reparse <- Plain
  Garbled = Garbled
  Faults <- CrashOnly
SYMMETRY Interchangeable
SPECIFICATION Spec
INVARIANTS TypeOK CompleteIsExact AckedIsKept
PROPERTIES LoadRestoresLastSave RefusedLoadChangesNothing ImplementsDurable
