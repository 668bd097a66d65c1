SPECIFICATION LiveSpec
CONSTANTS
  a = a
  b = b
  c = c
  t = t
  u = u
  Thread = {t, u}
  Mapped = {a}
  Library = {a, b, c}
  MaxTargets = 2
  MaxLoads = 2
INVARIANTS TypeOK TrackedIsHooked ReturnsHooked
PROPERTIES LoadedGetsHooked
CHECK_DEADLOCK FALSE
