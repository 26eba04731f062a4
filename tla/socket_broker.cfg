SPECIFICATION FairSpec
CONSTANTS
  relay = relay
  direct = direct
  idle = idle
  Clients <- MCClients
  Relays <- MCRelays
  Script <- MCScript
CHECK_DEADLOCK FALSE
INVARIANTS
  SessionsAreConnections
  ClosedIsQuiet
PROPERTIES
  CloseEnds
  WrittenIsAnswered
