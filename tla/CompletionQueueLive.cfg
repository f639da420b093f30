\* Two entries under fairness, an array of one, batches of one.
SPECIFICATION FairSpec
CONSTANTS
  Entry = {e1, e2}
  NoEntry = NoEntry
  InitialCapacity = 1
  MaxBatch = 1
  PipeCapacity = 1
  MallocMayFail = FALSE
INVARIANTS
  OwnedOrLinked
PROPERTIES
  OpDelivered
  EntryReclaimed
