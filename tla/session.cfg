\* LIBGTOP_SERVER is the path of the setuid server; the application may stop at any point.
SPECIFICATION FairSpec
CONSTANTS
  Features <- MCFeatures
  ServerFeatures <- MCServerFeatures
  InitFeatures <- MCInitFeatures
  ServerCommand = "path"
  Fields = {1, 2}
  Requirements <- MCRequirements
  MaxOps = 4
INVARIANTS TypeOK OneServer SysdepsReady ServerOnlyIfNeeded WantedIsServed
PROPERTIES ImplementsService WarnOnce CallEnds
CHECK_DEADLOCK FALSE
