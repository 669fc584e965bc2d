\* Two lists of two items each or three in all, or one that is longer than a
\* response may be.
SPECIFICATION Spec
CONSTANTS
  Name = {l1, l2}
  Item = {a, b}
  MaxRspSize = 2
  MaxLen = 4
  MaxItems = 2
  Garbage = Garbage
SYMMETRY Symmetry
CONSTRAINT FewItems
INVARIANT AddedWhereAnswered
INVARIANT RangeIsOfTheList
PROPERTY SpliceConserves
PROPERTY RefusedKeepsItems
PROPERTY OnlyKnownDamage
