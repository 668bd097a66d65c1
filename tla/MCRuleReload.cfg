SPECIFICATION Spec
CONSTANTS
  Content <- Any
  Prefixes <- MCPrefixes
  Original <- First
  MaxSaves = 2
  MaxTicks = 2
INVARIANTS TypeOK NoLostReload NoMissedChange
PROPERTIES DaemonConverges AppConverges
CHECK_DEADLOCK FALSE
