SPECIFICATION FairSpec
CONSTANTS
  User <- MCTwoUsers
  Ref <- MCOneRef
  News <- MCNews
  refOf <- MCrefOf
  lag <- MClag
  Unreachable <- MCBob
  FirstSecond = 2
  MaxClock = 5
  MaxFaults = 1
  MaxRemovals = 1
INVARIANTS TypeOK
PROPERTIES NothingToldTwice NewsToldInTime
