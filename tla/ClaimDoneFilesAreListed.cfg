SPECIFICATION Spec
CONSTANTS
  flat = flat
  nested = nested
  lone = lone
  one_name = one_name
  other_name = other_name
  Paths <- MCPaths
  Names <- MCNames
  NameOf <- MCNameOf
  LanguageOf <- MCLanguageOf
  Plans <- MCPlans
  RetryPlan <- MCRetryPlan
  Iterations <- MCIterations
  Executions = 2
INVARIANTS
  DoneFilesAreListed
CHECK_DEADLOCK FALSE
