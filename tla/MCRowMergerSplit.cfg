CONSTANTS
  MaxKey = 1
  Columns <- OneFamily
  MaxVersions = 2
  Splits = TRUE
SPECIFICATION Spec
INVARIANT LegalStreamAccepted
CHECK_DEADLOCK FALSE
