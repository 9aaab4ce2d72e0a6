CONSTANTS
  NoTopic = NoTopic
  Sessions = {s1}
  Topics = {}
  MaxMessages = 1
  MaxDirect = 0
  MaxChecks = 1
  TopicLimit = 1
  TimestampLimit = 1
  MsgLimit = 3
SPECIFICATION Spec
INVARIANTS
  PointerKnown
CHECK_DEADLOCK FALSE
