\* One array of up to three slots; batches of up to two items, among them one
\* of another type that can be converted and one that cannot.
CONSTANTS
  Name = {a1}
  Item <- TwoItems
  Blank = 0
  MaxCapacity = 3
  Lengths <- EveryLength
  Positions <- EveryPosition
  Junk <- Cell
  number = number
  object = object
  Foreign = {number, object}
  As <- OneBecomesAnItem
  MaxRspSize = 2
  MaxItems = 2
  UsedBound = 5
SPECIFICATION Spec
INVARIANTS TypeOK
PROPERTIES RefusedChangesNothing ClearKeepsTheRest OnlyKnownDamage
