SPECIFICATION FairSpec
CONSTANTS
  Configs <- WildcardConfigs
  MaxCount = 3
CHECK_DEADLOCK FALSE
PROPERTY
  ServesOrEnds
