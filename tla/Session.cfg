SPECIFICATION FairSpec
CONSTANTS
  t1 = t1
  t2 = t2
  Task = {t1, t2}
  Nobody = Nobody
  NoSession = NoSession
  Lifetime = {3, 5}
  Margin = 4
  MaxDelay = 1
  MaxPages = 2
  MaxRevoked = 1
  MaxTime = 5
INVARIANTS
  TypeOK
  SingleLogin
  NoRedundantLogin
  FirstAccepted
PROPERTIES
  OperationsEnd
  UsableKept
