SPECIFICATION FairSpec
CONSTANTS
  flat = flat
  nested = nested
  lone = lone
  one_name = one_name
  other_name = other_name
  Paths <- MCPaths
  Names <- MCNames
  NameOf <- MCNameOf
  LanguageOf <- MCLanguageOf
  Plans <- MCPlans
  RetryPlan <- MCRetryPlan
  Iterations <- MCIterations
  Executions = 2
INVARIANTS
  TypeOK
  CompletedFilesExist
  ContextIsComplete
  ReportIsTrue
PROPERTIES
  ScriptEnds
CHECK_DEADLOCK FALSE
