SPECIFICATION Spec
CONSTANTS
  alice = alice
  bob = bob
  notes = notes
  keys = keys
  q1 = q1
  q2 = q2
  i1 = i1
  i2 = i2
  pipe = pipe
  f1 = f1
  Malformed = Malformed
  NoPolicy = NoPolicy
  Missing = Missing
  NoHandle = NoHandle
  NoResource = NoResource
  NoFile = NoFile
  NoEvent = NoEvent
  NoAnswer = NoAnswer
  Subjects <- MCSubjects
  Resources <- TwoResources
  subjectId = alice
  Inodes <- TwoInodes
  Directories = {}
  Fifos = {}
  NoFollowAny = TRUE
  maxResourceBytes = 2
  chunkBytes = 2
  poolSize = 4
  Policies <- DuoPolicies
  Requests <- OneRequest
  Texts <- SomeTexts
  Files <- OneFile
  Settings <- ReadSettings
  Mishaps <- ReadMishaps
  Environments <- ReadEnvironments
  DirEntrySync = TRUE
SYMMETRY Symmetry
INVARIANTS
  ReadsOnlyGrantedFiles
  HandleClosedBeforeAudit
  ReleasedWhole
  ErrorsAreTruthful
PROPERTIES
  UndisturbedReadsSucceed
CHECK_DEADLOCK FALSE
