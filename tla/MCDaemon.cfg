SPECIFICATION Spec
CONSTANTS
  a = a
  b = b
  A = A
  B = B
  Package = {A, B}
  Wildcard = "*"
  SubProcess <- None
  AnyType = AnyType
  kQueueLimit = 1
  Proc = {a}
  DaemonProc = DaemonProc
  NoPid = NoPid
  PackageOf <- MCPackageOf
  Path <- ThreePlaces
  Crosses <- Crossing
  Config <- OnlyMoves
  InitialConfig <- Moves
  Initial <- None
  Inode = {1, 2, 3, 4}
  kMaxRetryCount = 1
  KernelLimit = 2
  MaxOps = 3
  MaxSaves = 0
INVARIANTS TypeOK NothingForgotten
PROPERTIES ContentSurvives
CHECK_DEADLOCK FALSE
