\* The array of one cannot grow when the second completion arrives.
SPECIFICATION Spec
CONSTANTS
  Entry = {e1, e2}
  NoEntry = NoEntry
  InitialCapacity = 1
  MaxBatch = 1
  PipeCapacity = 1
  MallocMayFail = TRUE
INVARIANT
  FreedByUnlinker
