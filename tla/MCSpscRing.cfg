SPECIFICATION Spec
CONSTANTS
  a = a
  b = b
  none = none
  Values <- MCValues
  Empty <- none
  Capacity <- MCCapacity
  IndexModulus <- MCIndexModulus
  MaxBatch <- MCMaxBatch
INVARIANTS
  IndexOrder
  NoSlotRace
PROPERTY
  RefinesBoundedFifo
