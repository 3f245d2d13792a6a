SPECIFICATION FairSpec
CONSTANTS
  Clients = {"c1", "c2"}
  Hwm = 2
INVARIANTS
  TypeOK
  WholeOrLastFrame
PROPERTIES
  SendsFromWhereItBegan
  Recovers
