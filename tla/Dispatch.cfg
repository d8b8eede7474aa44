SPECIFICATION FairSpec
CONSTANTS
  Ids = {i1}
  Subs = {s1, s2}
  Chans = {c1, c2}
  Workers = {w1, w2}
  NoPipe = NoPipe
  JobsLimit = 1
  MaxStarts = 2
  MaxPubs = 2
INVARIANTS NoSendOnClosed ChannelsOwned CountCovers
PROPERTIES Delivered AllEnd
CHECK_DEADLOCK FALSE
