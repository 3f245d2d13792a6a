SPECIFICATION FairSpec
CONSTANTS
  s1 = s1
  s2 = s2
  o1 = o1
  h1 = h1
  h2 = h2
  c1 = c1
  c2 = c2
  Sources <- MCSources
  LongAddrs <- LongSource
  Outputs <- OneOutput
  Ids <- MCIds
  Clients <- MCClients
  MaxSockets = 3
  MaxEvents = 2
  MaxCmds = 3
  MaxQueue = 1
  MaxMsgs <- NoEnd
  MaxRestarts = 1
  MaxFaults = 1
CHECK_DEADLOCK FALSE
INVARIANTS
  TypeOK
  Consistent
  NoSourceTwice
  OneRequestEach
PROPERTIES
  RemoveSourceRemoves
  EverySourcePolled
  ImplementsRegistry
  EveryCommandAnswered
  EverySourceRead
  ExitEnds
