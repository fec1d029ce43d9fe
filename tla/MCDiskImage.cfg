SPECIFICATION Spec
CONSTANTS
  Value = {0, 1}
  Across = 1
  Percoms <- MCPercoms
  NewDisks <- MCNewDisks
  HostFiles <- MCHostFiles
  MaxChanges = 2
  Unknown = Unknown
  Fresh = Fresh
  Mixed = Mixed
  Unreadable = Unreadable
  Nothing = Nothing
  NoHeader = NoHeader
  NoFile = NoFile
  Refused = Refused
INVARIANTS
  TypeOK
  SectorsKept
  UnmodifiedAsSaved
PROPERTIES
  RevertRestores
