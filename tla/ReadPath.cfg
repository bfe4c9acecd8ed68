SPECIFICATION Spec
CONSTANTS
  Id = {1, 2}
  Mail <- MailDef
  Path <- PathDef
  Token = {token}
  Absent = Absent
  NoRef = NoRef
  NoQuery = NoQuery
  Part = Part
  inbox = inbox
  SizeBits = 2
  MaxPages = 2
INVARIANTS
  TypeOK
  ToldWhatHappened
  HeadersFaithful
  UrisLeadBack
PROPERTIES
  AllListedUnlessRefused
