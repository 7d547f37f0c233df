SPECIFICATION Spec
CONSTANTS
  Systems = {"linux", "cygwin", "freebsd", "bsd", "openbsd", "darwin", "solaris", "aix"}
  Rounds = 3
INVARIANTS
  LeavesBeforeReturning
  FlagsCorrect
  FlagsAnnounced
  BufferCleared
  ListDescribed
  NothingKept
  NoWildUse
  ProcessEndIsHarmless
PROPERTIES
  Returns
