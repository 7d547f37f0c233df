\* The daemon, asked for a file system whose mount point is longer than the
\* parameter field of a command.
SPECIFICATION FairSpec
CONSTANTS
  Features <- MCFeatures
  SendSize <- MCSendSize
  DataLens <- MCDataLens
  Peers <- MCPeers
  Links = {"socket"}
  Offered = {"uptime", "proclist", "fsusage", "netload", "proc_wd"}
  Silent <- MCAnswered
  Fatal <- MCAnswered
  ParamSize = 2
  BufSize = 5
  RespLen = 3
  PipeCap = 2
  MaxCalls = 4
PROPERTY EveryCallReturns
CHECK_DEADLOCK FALSE
