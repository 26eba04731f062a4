SPECIFICATION LauncherSpec
CONSTANTS
  relay = relay
  home = home
  safe = safe
  logs = logs
  dots = dots
  Clients <- MCClients
  Relays <- MCClients
  Script <- MCScript
  Names <- MCNames
  Sites <- MCSites
  Storages <- MCStorages
  Dotted <- MCDotted
CHECK_DEADLOCK FALSE
INVARIANTS
  WorkspaceOutside
