SPECIFICATION FairSpec
CONSTANTS
  Sources = {"s1", "s2"}
  Outputs = {"o1", "o2"}
  OutqLen = 5
CHECK_DEADLOCK FALSE
INVARIANTS
  TypeOK
  NoSpuriousEvent
  NoSourceLeftOut
  Inv
PROPERTIES
  Implements
  QueueMoves
