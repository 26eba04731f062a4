SPECIFICATION FairSpec
CONSTANTS
  notes = notes
  keys = keys
  i1 = i1
  i2 = i2
  dir = dir
  fifo = fifo
  q1 = q1
  Resources <- MCResources
  Inodes <- MCInodes
  Directories <- MCDirectories
  Fifos <- MCFifos
  Readers <- OneReader
  Missing = Missing
  NoHandle = NoHandle
  NoResource = NoResource
  NoFollowAny = TRUE
  Mishaps <- MCMishaps
  poolSize = 4
INVARIANTS
  UnmovedIsNotRefused
  VerdictMatchesConfiguration
PROPERTIES
  NeverThroughALink
  CreateEnds
