SPECIFICATION FairSpec
CONSTANTS
  r1 = r1
  r2 = r2
  r3 = r3
  Request = {r1, r2, r3}
  None = None
INVARIANTS
  TypeOK
  ClientsReady
  FollowUpHasClient
  OneClientUnlessNested
PROPERTY
  SyncsFollowed
