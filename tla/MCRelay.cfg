SPECIFICATION FairSpec
CONSTANTS
  o1 = o1
  o2 = o2
  Outputs <- MCOutputs
  Parts <- LimitParts
  MaxPart = 2
  MaxMsgs = 3
CHECK_DEADLOCK FALSE
INVARIANTS
  TypeOK
  Settled
  Accounting
  SwallowedPerRefusal
  Inv
PROPERTIES
  WholeMessagesInOrder
  GivesUpOnlyOnOversized
  AlwaysPulled
