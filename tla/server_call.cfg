\* A client and its server, over the pipe to a setuid server and over both kinds of
\* socket: the commands a server does not know end it (Fatal) or are read and left
\* unanswered (Silent), although its features may offer them.
SPECIFICATION FairSpec
CONSTANTS
  Features <- MCFeatures
  SendSize <- MCSendSize
  DataLens <- MCDataLens
  Peers <- MCPeers
  Links <- MCLinks
  Offered = {"uptime", "proclist", "fsusage", "netload", "proc_wd"}
  Silent <- MCSilent
  Fatal <- MCFatal
  ParamSize = 2
  BufSize = 5
  RespLen = 3
  PipeCap = 2
  MaxCalls = 4
INVARIANTS TypeOK Framed VersionGuard
PROPERTIES ImplementsRemoteCall CallReturns NoOrphan NoHang
CHECK_DEADLOCK FALSE
