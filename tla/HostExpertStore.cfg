\* Experts of three sizes, every admission mode.
\* A run ends where its bounds stop the caller.
CHECK_DEADLOCK FALSE
CONSTANTS
  Keys <- MCKeys
  Size <- MCMixed
  Total <- MCMixedTotal
  Capacity = 5
  Modes <- MCAllModes
  Prior <- MCPrior
  PriorTotal = 3
  PriorStrength = 2
  MaxAccess = 5
  MaxMisses = 5
  MaxCycle = 2
  MaxObserved = 7
SPECIFICATION Spec
INVARIANTS
  WithinCapacity
  AffordableSelectionFits
PROPERTIES
  SelectedStayResident
  EvictsForAReason
