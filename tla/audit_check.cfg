SPECIFICATION Spec
CONSTANTS
  worker = worker
  lead = lead
  notes = notes
  keys = keys
  Subjects <- MCSubjects
  Resources <- MCResources
  NFiles = 2
  Deployments <- MCDeployments
  Window = 1
  MaxTime = 2
  MaxEvents = 3
  None = None
CHECK_DEADLOCK FALSE
INVARIANTS
  FindsExactlyThePairs
  ClearIsTrustworthy
