SPECIFICATION Spec
CONSTANTS
  passwd = passwd
  a = a
  b = b
  slash = slash
  aSlash = aSlash
  Path = {passwd, a, b, torn, slash}
  NoPath = NoPath
  Data <- Contents
  Empty <- NoContent
  MaxNodes = 3
  HeapSize = 5
  Builtin <- Shipped
  Raw = {passwd, a, aSlash}
  Clean <- Sanitised
  Torn = torn
  Passwd = passwd
  Homes = {a}
  MaxFiles = 2
  TableSectors = 2
  Layout <- TwoEntries
  DiskSize = 6
  Commands = {"write", "touch", "mkdir", "adduser", "rm", "format"}
  MaxSaves = 3
  MaxFaults = 1
INVARIANT TypeOK
INVARIANT FilesApart
INVARIANT Durable
INVARIANT TreeAgrees
