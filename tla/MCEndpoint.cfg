CONSTANTS
  n1 = n1
  n2 = n2
  n3 = n3
  c1 = c1
  c2 = c2
  k1 = k1
  k2 = k2
  NoKey = NoKey
  Type = "apns"
  OtherTypes = {}
  Senders = {n1, n2}
  MaxToken = 2
  Channels = {c1}
  GivesAps = TRUE
  HasAuthenticator = TRUE
  Troubles = {"Authentication", "RequestTimeout", "InvalidReleaseChannel"}
  DbFails = TRUE
SPECIFICATION MCSpec
SYMMETRY Symmetry
INVARIANTS
  EndpointsUsable
  NeverExpired
  OnlyKeyHolder
  AcceptedIsUsable
PROPERTIES
  TokenNeverGoesBack
  BlamedIsGone
CHECK_DEADLOCK FALSE
