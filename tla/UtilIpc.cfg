SPECIFICATION FairSpec
CONSTANTS
  Proc = {p1, p2}
  NoProc = NoProc
  Gone = Gone
  HistorySize = 2
  MaxProcs = 2
  Chunks = 6
  Mixes <- LogsAndTable
INVARIANT MutualExclusion
INVARIANT LiveKeepsSlot
PROPERTY CallsReturn
INVARIANT SharedAgrees
