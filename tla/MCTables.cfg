SPECIFICATION TablesSpec
CONSTANTS
  Keys = {k1, k2, k3}
  Reserved = all_ones
  EmptyKey = free
  Values = {v1, v2}
  NoValue = none
  Capacity = 4
  FlowKeys = {2, 3, 4}
  NoKey = 0
  Substitute = 1
  Free = 0
  FlowCapacity = 4
  Window = 2
  Sizes = {1}
  MaxEvents = 5
  MaxTime = 2
INVARIANTS SizeExact OneReachableEntry RowsExact
PROPERTIES RefinesBoundedMap EraseReturns EvictsOldest
CHECK_DEADLOCK FALSE
