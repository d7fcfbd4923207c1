SPECIFICATION Spec
CONSTANTS
  LshLines <- Lines
  LshMaxLines = 3
  PipeSize = 1
  Blocks = 2
  MaxAliases = 2
  AliasName = {"x", "y", "z"}
  EdChar = {"a", "!"}
  MaxLine = 3
  MaxHistory = 2
  MaxEntered = 3
  JailMaxCalls = 2
  JailCaps <- CapSets
  Sysno = {1, 2}
  BadNr = BadNr
  MaxStats = 1
  MaxSyscalls = 3
  TopPid = {1, 2, 3}
  TopMatching = {3}
  VisibleRows = 2
  PageRows = 2
INVARIANT LshListRuns
INVARIANT NoneLeft
INVARIANT JailConfined
INVARIANT TraceAgrees
INVARIANT TablesAgree
PROPERTY Returns
CHECK_DEADLOCK FALSE
