SPECIFICATION FairSpec
CONSTANTS
  alice = alice
  bob = bob
  notes = notes
  keys = keys
  q1 = q1
  q2 = q2
  i1 = i1
  i2 = i2
  pipe = pipe
  f1 = f1
  Malformed = Malformed
  NoPolicy = NoPolicy
  Missing = Missing
  NoHandle = NoHandle
  NoResource = NoResource
  NoFile = NoFile
  NoEvent = NoEvent
  NoAnswer = NoAnswer
  Subjects <- MCSubjects
  Resources <- OneResource
  subjectId = alice
  Inodes <- FileAndPipe
  Directories <- Pipes
  Fifos <- Pipes
  NoFollowAny = TRUE
  maxResourceBytes = 2
  chunkBytes = 2
  poolSize = 2
  Policies <- SoloPolicies
  Requests <- TwoRequests
  Texts <- OneText
  Files <- OneFile
  Settings <- AuditSettings
  Mishaps <- AuditMishaps
  Environments <- AuditEnvironments
  DirEntrySync = TRUE
INVARIANTS
  AnswersAreAudited
  NeverTwoEvents
PROPERTIES
  ReleasedUnderPolicy
  ImplementsGate
  RequestsAreAnswered
CHECK_DEADLOCK FALSE
