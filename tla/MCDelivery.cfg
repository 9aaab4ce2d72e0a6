CONSTANTS
  m1 = m1
  m2 = m2
  s1 = s1
  s2 = s2
  n1 = n1
  n2 = n2
  NoNode = NoNode
  NoSession = NoSession
  Messages <- OneMessage
  ZeroTTL <- NoMessages
  Nodes <- TwoNodes
  Sessions <- TwoSessions
  Failures = TRUE
  MaxCrashes = 1
SPECIFICATION FairSpec
INVARIANTS
  TypeOK
  AcceptedNotLost
  LiveIsRegistered
  RegisteredListens
PROPERTIES
  OnlyStaleNodeCleared
  ImplementsMailbox
  EndedIsSaved
CHECK_DEADLOCK FALSE
