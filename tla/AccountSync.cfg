SPECIFICATION FairSpec
CONSTANTS
  Folder = {f1, f2, f3}
  Path = {p1, p2}
  Refuses = {f3}
  f1 = f1
  f2 = f2
  f3 = f3
  p1 = p1
  p2 = p2
  Absent = Absent
  Deleted = Deleted
  All = All
  MaxChanges = 2
INVARIANTS
  OnlyStrayed
PROPERTIES
  ListedIfAnswered
