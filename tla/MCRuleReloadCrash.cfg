SPECIFICATION Spec
CONSTANTS
  Content <- WithRules
  Prefixes <- MCPrefixesRules
  Original <- First
  MaxSaves = 1
  MaxTicks = 2
INVARIANTS AppSurvives
CHECK_DEADLOCK FALSE
