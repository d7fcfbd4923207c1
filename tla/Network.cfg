SPECIFICATION Spec
CONSTANTS
  DnsKey <- Keys
  DnsBlocked = {"ads"}
  DnsLocal = {"local"}
  DnsId = {1, 2}
  MaxCache = 2
  DnsTtl = 1
  MaxTime = 3
  ClipSender = {s1, s2}
  ClipFiles = {s1}
  ClipBlocks = 3
  ClipBuffer = 2
  HostConn = {c1, c2}
  HostRange <- Ranges
  HostBlocks = 2
  StdioBuf = 2
  ScanHosts = 7
  ScanThreads = 3
  ScanAlive = {1, 4, 7}
  PortTokens <- Tokens
  MaxPorts = 4
  MaxPort = 65535
  PortsOpen = {2, 80}
  Responder = {1, 2, 3}
  MaxFound = 2
  PingCount = 2
  PingFails = 2
  SeqWidth = 4
  MaxRedirects = 2
  HttpBlocks = 4
  MaxBody = 3
  RawBlocks = 2
  NtpDelta = 8
  NtpWidth = 32
  LongWidth = 1024
  NtpTimes <- Times
  DnsDomain <- Domains
INVARIANT DnsAnswers
INVARIANT AckMeansWhole
INVARIANT HostServes
PROPERTY NetReturns
CHECK_DEADLOCK FALSE
INVARIANT NetToolsAgree
