SPECIFICATION Spec
CONSTANTS
  s1 = s1
  s2 = s2
  o1 = o1
  h1 = h1
  h2 = h2
  c1 = c1
  c2 = c2
  Sources <- OneSource
  LongAddrs <- NoAddrs
  Outputs <- OneOutput
  Ids <- MCIds
  Clients <- MCClients
  MaxSockets = 20
  MaxEvents = 3
  MaxCmds = 4
  MaxQueue = 1
  MaxMsgs = 1
  MaxRestarts = 0
  MaxFaults = 0
CHECK_DEADLOCK FALSE
PROPERTIES
  AddOutputCreates
