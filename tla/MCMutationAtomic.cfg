CONSTANTS
  f1 = f1
  f2 = f2
  i1 = i1
  i2 = i2
  Paths = {f1, f2}
  Images = {i1, i2}
  Absent = Absent
  NoPath = NoPath
  MaxPrepared = 1
  MaxJournals = 2
  MaxEdits = 0
  MaxFaults = 1
  MaxCrashes = 2
SPECIFICATION Spec
INVARIANTS RecoveryNeverRefused
PROPERTIES ImplementsAtomicWorkspace
SYMMETRY MCSymmetry
