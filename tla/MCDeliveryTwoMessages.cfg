CONSTANTS
  m1 = m1
  m2 = m2
  s1 = s1
  s2 = s2
  n1 = n1
  n2 = n2
  NoNode = NoNode
  NoSession = NoSession
  Messages <- TwoMessages
  ZeroTTL <- SecondMessage
  Nodes <- OneNode
  Sessions <- TwoSessions
  Failures = TRUE
  MaxCrashes = 0
SPECIFICATION Spec
PROPERTIES
  ImplementsMailbox
CHECK_DEADLOCK FALSE
