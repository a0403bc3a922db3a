SPECIFICATION Spec
CONSTANTS
  MaxCount = 1
  Codes = {0, 3}
  Files <- MCFiles
INVARIANTS
  TypeOK
  FreedOnce
  NothingLost
  FailedLoadIsClean
  FailureHasCode
  PoolPatched
  Leftovers
