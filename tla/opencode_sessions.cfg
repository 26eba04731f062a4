SPECIFICATION SessionSpec
CONSTANTS
  alice = alice
  bob = bob
  notes = notes
  keys = keys
  Subjects <- MCSubjects
  Resources <- MCResources
  Malformed = Malformed
  NoPolicy = NoPolicy
  Unreadable = Unreadable
  MaxSubjects = 2
  MaxRules = 2
  UserCommands <- MCUserCommands
  HostCommands <- MCHostCommands
  Environments <- MCEnvironments
  Sources <- MCSources
SYMMETRY Symmetry
INVARIANTS
  DecisionIgnoresRuleOrder
  AllowsExactlyGranted
  ListedIsWhatExplainAllows
  ServedAsNamed
  OutcomeIsTruthful
