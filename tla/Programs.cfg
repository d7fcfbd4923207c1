SPECIFICATION Spec
CONSTANTS
  EdChar = {"x", "{"}
  EdFiles <- EdTexts
  EdOpener = {"{"}
  EdMaxLines = 3
  EdMaxLen = 6
  EdMaxUndo = 2
  EdIndent = 3
  EdMaxIndent = 2
  EdFind <- EdTerms
  EdRows = 2
  EdCols = 3
  EdKeys = 4
  BoxTabs <- MenuTabs
  BoxVisible = {2, 3, 6}
  BoxWidth = 8
  BoxThemes = 2
  CalcTrees <- CalcExprs
  CalcLines <- CalcInputs
  CalcConst = {"pi"}
  CalcMaxVars = 2
  CalcMaxHist = 2
  CalcMaxStack = 5
  CalcEnters = 3
  ZTexts <- ZipTexts
  ZTrees <- ZipTrees
  ZEdits <- ZipEdits
  MinMatch = 2
  Nibble = 3
  LengthByte = 2
  MaxDistance = 4
  HashSize = 3
  ZSlack = 6
  ZLeast = 2
  ZMargin = 1
  C8Roms <- C8Programs
  C8Start = 32
  C8Memory = 88
  C8Width = 8
  C8Height = 8
  C8Stack = 3
  C8Burst = 3
  C8Key = {2, 7}
  B64Data <- B64Datas
  B64Text <- B64Texts
  QrText <- QrTexts
  QrVersion <- QrVersions
  SncBits = 5
  TermRows = 2
  TermCols = 4
  ShCommand = {"su", "adduser", "cd", "write", "touch", "mkdir", "rm", "clear", "help", "cat", "echo", "pwd", "calc", "snake", "exit", "view", "edit", "top"}
  ShArg = {"ana", "..", "/etc/passwd"}
  ShAbs <- AbsPaths
  ShPath <- ShPaths
  ShTree <- BootTree
  ShPasswd <- BootPasswd
  ShLong <- LongEntries
  CliMax = 4
  EditMax = 2
  PasswdMax = 5
  ShKeys = 9
  SnakeW = 4
  SnakeH = 3
  SnakeHead <- SnakeHeadAt
  SnakeStart = 3
  SnakeMoves = 5
  KcDigits = {0, 3, 7}
  KcRoom = 1000
  KcTop = 1048576
  KcExp = 3
  KcPresses = 4
  LibCpu = {p1, p2, p3}
  LibNode = {n1, n2, n3}
  LibWidth = 5
  LibBase = {2, 10, 16}
  LibFormat <- LibFormats
  LibRoom = {1, 2, 3, 4, 6, 9}
  LibMem = 5
  GfxW = 3
  GfxH = 3
  GfxShape <- GfxShapes
  GfxArea <- GfxAreas
  GfxDirty = 2
  GfxPaints = 4
  FpShift = 4
  FpMost = 400
  RtcSecs = 2
  RtcMins = 2
  RtcHours = 2
  RtcTries = 2
  DgTexts <- HashTexts
  ShaBlock = 4
  ShaLength = 1
  CrcBits = 9
  CrcPoly = 305
  FnvPrime = 403
  FnvBase = 453
  FdTrees <- DupTrees
  FdMaxDepth = 2
  KvTargets <- VaultTargets
  KvWords <- VaultWords
  KvPass = 2
  KvChunk = 4
  KvBlock = 2
  KvCell = 8
INVARIANT EditorKeeps
INVARIANT MenuShows
INVARIANT ShellShows
INVARIANT PlayAgrees
INVARIANT LibraryAgrees
PROPERTY ProgramsEnd
CHECK_DEADLOCK FALSE
INVARIANT RoundTrips
INVARIANT Computes
