\* Two processes, and three events while they are listed.
SPECIFICATION Spec
CONSTANTS
  MaxPid = 2
  Kinds <- MCKinds
  Queries <- MCQueries
  MaxEvents = 3
INVARIANTS TypeOK ListsWhatFits ListsNothingElse
