SPECIFICATION Spec
CONSTANTS
  passwd = passwd
  a = a
  b = b
  slash = slash
  aSlash = aSlash
  Path = {passwd, a, b, torn, slash}
  NoPath = NoPath
  Data <- Contents
  Empty <- NoContent
  MaxNodes = 4
  HeapSize = 6
  Builtin <- Shipped
  Raw = {passwd, a, b}
  Clean <- Sanitised
  Torn = torn
  Passwd = passwd
  Homes = {a, b}
  MaxFiles = 3
  TableSectors = 2
  Layout <- SmallLayout
  DiskSize = 6
  Commands = {"write", "rm"}
  MaxSaves = 3
  MaxFaults = 0
INVARIANT Persistent
