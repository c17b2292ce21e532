SPECIFICATION FairSpec
CONSTANTS
  Requests = {r1, r2}
  Admin = admin
  SeedModels = {coder, reasoner}
  CodeModels = {coder}
  AddedModels = {added}
  Priority <- MCPriority
  Paths = {p1, p2}
INVARIANTS
  TypeOK
  FailureLeavesNothing
  StoredRunIsWhole
PROPERTIES
  NoModelMeansAdmin
  AcceptedEnds
  RunsAreStoredOnce
