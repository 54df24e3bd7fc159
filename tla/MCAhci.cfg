SPECIFICATION Spec
CONSTANTS
  Slots = 3
  CapSlots = 2
  PerEntry = 4
  Advance = 1
  Memory = {0, 1, 2, 3, 4}
  Disk = {0, 1, 2, 3, 4, 5}
  MaxCalls = 2
  MaxFaults = 1
  Counts = {1, 4}
  Request <- MCRequest
  Machine <- MCMachine
INVARIANT TypeOK
PROPERTIES
  ControllerFound
  MovedAtRest
  TablesStable
  NoLateTransfer
  EveryCallReturns
  ImplementsBlockDevice
