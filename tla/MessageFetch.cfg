SPECIFICATION FairSpec
CONSTANTS
  m1 = m1
  m2 = m2
  m3 = m3
  inbox = inbox
  other = other
  Channel = {c1, c2, c3}
  Message = {m1, m2, m3}
  Folder = {inbox, other}
  Id = {1, 2}
  FolderOf <- MCFolderOf
  IdOf <- MCIdOf
  a1 = a1
  a2 = a2
  Account = {a1, a2}
  AccountOf <- MCAccountOf
  Nobody = Nobody
INVARIANTS
  TypeOK
  MarkersExact
  OfflineIsStored
  StartThenStop
PROPERTY
  OpensEnd
