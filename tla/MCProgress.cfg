CONSTANTS
  s1 = s1
  n1 = n1
  n2 = n2
  c1 = c1
  t1 = t1
  NoTopic = NoTopic
SPECIFICATION Spec
PROPERTIES
  StorageDrained
  SilentIsDropped
  PollReturns
  UninstalledForgotten
  Served
CHECK_DEADLOCK FALSE
