SPECIFICATION Spec
CONSTANTS
  o1 = o1
  o2 = o2
  Outputs <- MCOutputs
  Parts <- BsreadParts
  MaxPart = 3
  MaxMsgs = 2
CHECK_DEADLOCK FALSE
INVARIANT
  ReplaysAllMessages
