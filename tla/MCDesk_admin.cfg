CONSTANTS
  Ref <- MCRef
  baseOf <- MCNoPairs
  aliasOf <- MCNoPairs
  NoRef = NoRef
  Line <- MCLine
  house <- MCHouse
  keys <- MCKeys
  price <- MCPrice
  day <- MCDay
  NoDay = NoDay
  Report <- MCReport
  Premium <- MCPremium
  Rates = {rates1}
  NoRates = NoRates
  Cell <- MCCell
  cellOf <- MCCellOf
  Request = {q1, q2}
  Nightly = nightly
  MaxWork = 2
SYMMETRY MCSymmetry
SPECIFICATION Spec
INVARIANTS
  TypeOK
  LedgedLineIsBacked
  QuietLineHasOnePrice
  LedgedLineIsComputed
  LedgedLineIsLive
CHECK_DEADLOCK FALSE
