SPECIFICATION Spec
CONSTANTS
  s = s
  t = t
  Thread = {s, t}
  ExternalRoot = "ext"
  FilesOnDisk <- Photos
  DirectoriesOnDisk <- None
  Dotted = {"x.jpg", "x.pdf"}
  AnyType = AnyType
  Path <- InExample
  Operation = {"open", "mkdir", "create", "rmdir"}
  Section <- Example1
PROPERTIES AnyRuleDecides
