SPECIFICATION Spec
CONSTANTS
  N = 4
  Readers = {r1, r2}
  MaxAttempts = 2
  MaxSnapshots = 6
INVARIANTS RefsExact HandlesWhole HandlesFresh NeverRefused
PROPERTY HandlesStable
SYMMETRY ReaderSymmetry
