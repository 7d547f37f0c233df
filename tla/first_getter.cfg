\* A getter that is the first call decides alone whether there is a server.
SPECIFICATION Spec
CONSTANTS
  Features <- MCFeatures
  ServerFeatures <- MCServerFeatures
  InitFeatures = {}
  ServerCommand = "path"
  Fields = {1, 2}
  Requirements <- MCRequirements
  MaxOps = 2
INVARIANT AnyGetterIsServed
CHECK_DEADLOCK FALSE
