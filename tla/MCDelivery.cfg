SPECIFICATION FairSpec
CONSTANTS
  Attempts = {a1, a2}
  Testers = {a1}
  Nobody = nobody
  Branch = branch
  Branches <- MCBranches
  BranchOf <- MCBranchOf
  Main = main
  Files = {code, readme}
  FileSets <- MCFileSets
  MainPushes = 1
  MaxLate = 1
  Rounds = 1
  MaxLost = 1
INVARIANTS
  TypeOK
  PublishedCommitsAreWhole
  AnnouncedPullHasWork
  ContainersAreRemoved
  PassedMeansExitedZero
PROPERTIES
  HistoryIsKept
  BoardSpec
  LoopComesBack
  PublicationEnds
CHECK_DEADLOCK FALSE
