CONSTANTS
  s1 = s1
  s2 = s2
  n1 = n1
  n2 = n2
  c1 = c1
  c2 = c2
  k1 = k1
  k2 = k2
  Sessions = {s1}
  Nodes = {n1}
  Channels = {c1}
  Messages = {1, 2, 3}
  TopicMessages = {1}
  ZeroTtl = {}
  Expiring = {2}
  CurrentMonth = 4
  StartMonths = {3, 4}
  Batch = 1
  MsgLimit = 2
  Overlap = TRUE
  Failures = {}
SPECIFICATION MCSpec
SYMMETRY Symmetry
INVARIANTS
  NeverStuck
  PointerHonest
  OverlapKeeps
  RotationKeeps
  DeltaKept
  SlotsCounted
PROPERTIES
  NoFalseTimeout
CHECK_DEADLOCK FALSE
