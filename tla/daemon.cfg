\* All ways to start; in the foreground the start leaves two descriptors.
SPECIFICATION FairSpec
CONSTANTS
  Clients <- MCClients
  Hosts <- MCHosts
  Protocol <- MCProtocol
  Modes = {"foreground", "background", "inetd"}
  Resolvers = {"lenient", "strict"}
  LogOpen = TRUE
  ServerFds = 0
  FdLimit = 7
INVARIANTS OnlyPermitted Accounted EndsOnlyWhenFull
PROPERTIES ImplementsReception RefusedForCause Turn Reaped
CHECK_DEADLOCK FALSE
