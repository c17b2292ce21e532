SPECIFICATION Spec
CONSTANTS
  Requests = {r1, r2}
  Admin = admin
  SeedModels = {coder, reasoner}
  CodeModels = {coder}
  AddedModels = {added}
  Priority <- MCPriority
  Paths = {p1, p2}
INVARIANT SeededOnce
