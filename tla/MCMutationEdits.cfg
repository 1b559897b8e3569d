CONSTANTS
  f1 = f1
  f2 = f2
  i1 = i1
  i2 = i2
  Paths = {f1, f2}
  Images = {i1, i2}
  Absent = Absent
  NoPath = NoPath
  MaxPrepared = 1
  MaxJournals = 1
  MaxEdits = 1
  MaxFaults = 1
  MaxCrashes = 1
SPECIFICATION FairSpec
PROPERTIES WriteAhead NeverDropsUnseenEdit PendingResolved
