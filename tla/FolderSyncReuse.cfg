SPECIFICATION Spec
CONSTANTS
  f1 = f1
  f2 = f2
  f3 = f3
  n1 = n1
  n2 = n2
  Folder = {f1, f2}
  MailFolder = {f1, f2}
  Root = Root
  Absent = Absent
  Name = {n1, n2}
  Sync = {s1}
  MaxVersion = 3
  Faults = {"reuse"}
INVARIANT
  ListingMatches
