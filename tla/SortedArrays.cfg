\* One array of four slots - the merge of SET_RNG - and one of two beside
\* it, for INTERSECT.  What follows a write outside the storage is not explored.
CONSTANTS
  a1 = a1
  a2 = a2
  Name = {a1, a2}
  Item <- TwoItems
  Blank = 0
  MaxCapacity = 4
  Lengths <- LongAndShort
  Positions <- ManyAndFew
  Junk = {0}
  number = number
  object = object
  Foreign = {number, object}
  As <- OneBecomesAnItem
  MaxRspSize = 2
  MaxItems = 2
  UsedBound = 4
SPECIFICATION Spec
CONSTRAINT Undamaged
INVARIANTS TypeOK HeldInOrder MergeFits ExtremesAreRight IntersectIsCommon
PROPERTIES InsertKeepsItems OnlyKnownDamage MergeEnds
