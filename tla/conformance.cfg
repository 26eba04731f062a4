SPECIFICATION Spec
CONSTANTS
  Subjects <- TheSubjects
  Resources <- TheResources
  Malformed = Malformed
  NoPolicy = NoPolicy
  MaxDeviations = 2
INVARIANTS
  VerdictIsExact
  ReportMeansCleaned
CHECK_DEADLOCK FALSE
