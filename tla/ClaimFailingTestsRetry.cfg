SPECIFICATION Spec
CONSTANTS
  a = a
  b = b
  c = c
  None = None
  Paths <- MCPaths
  Plans <- MCPlans
  MAX_ITERATIONS = 3
  MAX_REPAIR_ATTEMPTS = 3
  MAX_FILE_RETRIES = 3
  MAX_TOKENS = 1
  TokenCosts = {0, 2}
  RECURSION_LIMIT = 25
  CodeInState = {FALSE}
INVARIANTS
  FailingTestsRetry
