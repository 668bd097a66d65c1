SPECIFICATION Spec
CONSTANTS
  s = s
  t = t
  Thread = {s, t}
  ExternalRoot = "ext"
  FilesOnDisk <- Photos
  DirectoriesOnDisk <- None
  Dotted = {"x.jpg", "y.jpg"}
  AnyType = AnyType
  Path <- CalledFor
  Operation = {"open", "mkdir", "create", "rmdir"}
  Section <- Sections4
INVARIANTS TypeOK SearchesRulesInForce
PROPERTIES PlainRuleDecides LearntKindStays DecidesAnOutcome WayStaysOpen
