SPECIFICATION Spec
CONSTANTS
  Package = {"com.a", "com.b", "com.a:p"}
  Wildcard = "*"
  SubProcess <- Processes
  AnyType = AnyType
  Number = {"0", "7"}
  Line <- MCLine
  TreePath <- MCPath
  CompileExport <- MCExport
  MaxLines = 5
  MaxErrors = 2
INVARIANTS TypeOK RulesStayInTheirSection FileMeansWhatItSays LongestRuleWins FilteredFirst
CHECK_DEADLOCK FALSE
