SPECIFICATION Spec
CONSTANTS
  Slots = 3
  CapSlots = 2
  PerEntry = 4
  Advance = 1
  Memory = {0, 1, 2, 3, 4, 5, 6}
  Disk = {0, 1, 2, 3, 4, 5, 6, 7}
  MaxCalls = 2
  MaxFaults = 0
  Counts = {6}
  Request <- MCRequest
  Machine <- MCMachine
INVARIANT RequestDone
