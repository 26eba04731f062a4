SPECIFICATION Spec
CONSTANTS
  c1 = c1
  c2 = c2
  e1 = e1
  f1 = f1
  f2 = f2
  NoEvent = NoEvent
  NoFile = NoFile
  Calls <- TwoCalls
  Events <- OneEvent
  Files <- OneFile
  Settings <- DiskFull
  DirEntrySync = TRUE
SYMMETRY Symmetry
INVARIANTS
  AcknowledgedIsIntact
CHECK_DEADLOCK FALSE
