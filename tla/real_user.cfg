\* A list by the real user, while nothing happens to the processes.
SPECIFICATION Spec
CONSTANTS
  MaxPid = 2
  Kinds <- MCKinds
  Queries <- MCQueries
  MaxEvents = 0
INVARIANT ListsByRealUser
