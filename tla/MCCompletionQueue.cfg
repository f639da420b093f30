\* Three entries, an array of two that wraps and has to grow, batches of one.
SPECIFICATION Spec
CONSTANTS
  Entry = {e1, e2, e3}
  NoEntry = NoEntry
  InitialCapacity = 2
  MaxBatch = 1
  PipeCapacity = 1
  MallocMayFail = TRUE
SYMMETRY Symmetry
INVARIANTS
  TypeOK
  RefcountExact
  NoUseAfterFree
  NoLostWakeup
PROPERTY
  RefinesFifo
