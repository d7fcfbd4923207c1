SPECIFICATION Spec
CONSTANTS
  p1 = p1
  p2 = p2
  Proc = {p1, p2}
  Dir = {"here", "there"}
  Base = {"f", "g"}
  Ino = {1,2,3,4,5,6,7,8,9,10}
  NoIno = NoIno
  Shipped <- Three
  Size = 2
  Room <- Tight
  TmpDir = "there"
  Commands <- All
  Pairs <- SomePairs
  Kills = TRUE
CHECK_DEADLOCK FALSE
INVARIANT Recoverable
SYMMETRY Symmetric
INVARIANT ReportsTrue
