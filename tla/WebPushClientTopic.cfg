CONSTANTS
  NoTopic = NoTopic
  Sessions = {s1}
  Topics = {t1}
  MaxMessages = 2
  MaxDirect = 0
  MaxChecks = 0
  TopicLimit = 1
  TimestampLimit = 1
  MsgLimit = 3
SPECIFICATION Spec
PROPERTIES
  LatestTopicKept
CHECK_DEADLOCK FALSE
