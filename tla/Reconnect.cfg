SPECIFICATION FairSpec
CONSTANTS
  Callers = {a}
  Late = {l}
  Slots = {x}
  Conns = {c1}
  None = None
  MaxMonitors = 2
INVARIANTS TypeOK Watched FaultsKnown
PROPERTIES Implements Reconnects DisabledEnds
CHECK_DEADLOCK FALSE
