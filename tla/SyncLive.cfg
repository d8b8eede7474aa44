SPECIFICATION FairSpec
CONSTANTS
  Keys = {k1}
  Agents = {a1, a2}
  Items = {"orderbook"}
  Workers = {w1, w2}
  NumWorkers = 2
  MaxStarts = 1
  Continuous = FALSE
  Streamed = TRUE
  None = None
INVARIANT WgCounts
PROPERTIES Refreshed InitialSyncEnds
CHECK_DEADLOCK FALSE
