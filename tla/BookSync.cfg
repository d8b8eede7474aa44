SPECIFICATION FairSpec
CONSTANTS
  Workers = {w1, w2}
  Empty = {2}
  BufferLimit = 2
  MaxVersion = 3
  MaxOpens = 2
  MaxFaults = 1
  None = None
INVARIANTS BookConsistent FetchOwned OneFetch
PROPERTY CatchesUp
CHECK_DEADLOCK FALSE
