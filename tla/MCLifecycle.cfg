SPECIFICATION FairSpec
CONSTANTS
  Configs <- AllConfigs
  MaxCount = 3
CHECK_DEADLOCK FALSE
INVARIANTS
  TypeOK
  ConfigOutlivesThread
  PollsAtLeast
  StuckOnlyIf
PROPERTIES
  Ends
