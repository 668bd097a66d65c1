SPECIFICATION Spec
CONSTANTS
  a = a
  b = b
  A = A
  B = B
  Package = {A, B}
  Wildcard = "*"
  SubProcess <- None
  AnyType = AnyType
  kQueueLimit = 1
  Proc = {a}
  DaemonProc = DaemonProc
  NoPid = NoPid
  PackageOf <- MCPackageOf
  Path <- TwoPlaces
  Crosses <- None
  Config <- WithExports
  InitialConfig <- Exports
  Initial <- None
  Inode = {1, 2, 3, 4}
  kMaxRetryCount = 1
  KernelLimit = 2
  MaxOps = 2
  MaxSaves = 1
PROPERTIES Drains ReloadHappens
CHECK_DEADLOCK FALSE
