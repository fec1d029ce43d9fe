CONSTANT MaxFinished = 2
SPECIFICATION Spec
INVARIANTS
  TypeOK
  ButtonTellsTruth
PROPERTIES
  PortStable
  StopCompletes
  Reconnects
