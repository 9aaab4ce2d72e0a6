CONSTANTS
  Tasks = {t1}
  Channels = {c1}
  Messages = {}
  Topics = {}
  WriteToSecondary = TRUE
  Median = 16
  EndMedian <- Unset
  FirstByte = 16
  LastByte = 0
  MaxConnected = 2
  Failures = TRUE
SPECIFICATION Spec
INVARIANTS
  ChannelsKept
CHECK_DEADLOCK FALSE
