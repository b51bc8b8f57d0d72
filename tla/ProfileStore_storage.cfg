SPECIFICATION Spec
CONSTANTS
  app1 = app1
  app2 = app2
  NoStore = NoStore
  Stores = {app1, app2}
  MaxId = 2
  MaxRevision = 3
  MaxOps = 3
  MaxFaults = 1
SYMMETRY Instances
CHECK_DEADLOCK FALSE
INVARIANTS
  FileLoads
  VersionsToldApart
  SecretsInStep
PROPERTIES
  CommitsKeepOthers
