\* A handler ends while the next client is being authenticated.
SPECIFICATION Spec
CONSTANTS
  Clients <- MCClients
  Hosts <- MCHosts
  Protocol <- MCProtocol
  Modes = {"foreground"}
  Resolvers = {"lenient"}
  LogOpen = FALSE
  ServerFds = 0
  FdLimit = 6
PROPERTY HostsPermitted
CHECK_DEADLOCK FALSE
