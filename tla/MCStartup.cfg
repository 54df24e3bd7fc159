SPECIFICATION Spec
CONSTANTS
  Desc = {"ram", "rom"}
  MaxDesc = 3
  OtherInfo <- MCOtherInfo
  MinSecs = 8
  Geometry <- MCGeometry
  Machine <- MCMachine
  MaxCpu = 2
INVARIANTS
  
  CpusFound
CHECK_DEADLOCK FALSE
