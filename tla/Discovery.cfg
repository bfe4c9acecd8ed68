SPECIFICATION Spec
CONSTANTS
  i1 = i1
  i2 = i2
  i3 = i3
  i4 = i4
  Id = {i1, i2, i3, i4}
  Slot = {1, 2, 3, 4, 5}
  Up <- UpDef
  Root = 0
  Nothing = Nothing
  MaxChanges = 2
INVARIANTS
  TypeOK
  KnownTree
  NotFoundExplained
  DiskFollows
