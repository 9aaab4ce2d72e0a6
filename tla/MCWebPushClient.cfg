CONSTANTS
  s1 = s1
  s2 = s2
  t1 = t1
  NoTopic = NoTopic
  Sessions = {s1}
  Topics = {t1}
  MaxMessages = 3
  MaxDirect = 0
  MaxChecks = 1
  TopicLimit = 1
  TimestampLimit = 1
  MsgLimit = 3
SPECIFICATION MCSpec
INVARIANTS
  NothingSkipped
  NeverStuck
  AckedNotRedeliveredAlone
CHECK_DEADLOCK FALSE
