SPECIFICATION OSpec
CONSTANTS
  Event <- MCEvent
  Cell <- MCCell
  Ruleset <- MCRuleset
  Nightly = "nightly"
  Web <- MCWeb
  cellOf <- MCcellOf
  sourceOf <- MCsourceOf
  observedAt <- MCobservedAt
  Realised <- MCRealised
  Corrupt <- MCCorrupt
  Kept <- MCKept
  Dispersed <- MCDispersed
  MaxClock = 0
  MaxFaults = 1
  MaxOps = 2
INVARIANTS OTypeOK QuietPurgeIsClean
