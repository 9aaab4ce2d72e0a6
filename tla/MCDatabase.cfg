CONSTANTS
  t1 = t1
  t2 = t2
  c1 = c1
  c2 = c2
  Tasks = {t1, t2}
  Channels = {"chid:1"}
  MaxClock = 2
  MaxVersion = 3
  MaxTimestamp = 1
  RetryCount = 1
  AnswersLost = TRUE
SPECIFICATION MCSpec
SYMMETRY Symmetry
INVARIANTS
  NoIntegrityError
  ReadIsWhole
  NewestReplaces
  ResultIsSent
  ChannelsKept
  RemovedStaysGone
PROPERTIES
  RecordMovesOn
CHECK_DEADLOCK FALSE
