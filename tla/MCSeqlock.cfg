SPECIFICATION LockSpec
CONSTANTS
  WordCount = 2
  SeqModulus = 6
  Readers = {r1, r2}
  MaxAttempts = 2
  MaxStores = 4
INVARIANTS LoadsWhole LoadsFresh
SYMMETRY ReaderSymmetry
