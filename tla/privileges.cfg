\* The ids of the server, with the stages of every getter worked out first.
SPECIFICATION Spec
CONSTANTS
  Systems = {"linux", "cygwin", "freebsd", "bsd", "openbsd", "darwin", "solaris", "aix"}
  Rounds = 1
INVARIANTS
  PrivilegedInsideOnly
  RightsWithinReach
