SPECIFICATION FairSpec
CONSTANTS
  Newline = "newline"
  Hash = "hash"
  Comma = "comma"
  Other = "other"
  MaxFields = 3
  BufCap = 4
  MaxFile = 3
CHECK_DEADLOCK FALSE
PROPERTY
  LastLineSent
