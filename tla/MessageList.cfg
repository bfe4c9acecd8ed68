SPECIFICATION FairSpec
CONSTANTS
  s1 = s1
  s2 = s2
  Sync = {s1, s2}
  MaxMessage = 3
  PageSize = 1
  MaxPages = 2
  MaxChanges = 2
  MaxHeaders = 2
INVARIANTS
  TypeOK
  NoDuplicates
  CompleteUnlessShrunk
PROPERTY
  ListedIfAnswered
