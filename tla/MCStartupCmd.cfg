SPECIFICATION FairSpec
CONSTANTS
  Newline = "newline"
  Hash = "hash"
  Comma = "comma"
  Other = "other"
  MaxFields = 3
  BufCap = 4
  MaxFile = 6
CHECK_DEADLOCK FALSE
INVARIANTS
  TypeOK
  NothingLost
  EndIsTheEnd
  DoneIsSent
  FieldsAreCut
PROPERTIES
  Implements
  AllSent
