SPECIFICATION Spec
CONSTANTS
  Path <- MCPath
  kQueueLimit = 2
  kMaxRetryCount = 1
  MaxTasks = 3
INVARIANTS TypeOK MutualExclusion NoLostWakeup
PROPERTIES ImplementsQueue Shutdown QueueDrains
CHECK_DEADLOCK FALSE
