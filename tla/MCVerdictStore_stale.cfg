SPECIFICATION FairSpec
CONSTANTS
  Event <- MCStaleEvents
  Cell <- MCCell
  Ruleset <- MCOneRuleset
  Nightly = "nightly"
  Web <- MCOneWeb
  cellOf <- MCcellOf
  sourceOf <- MCsourceOf
  observedAt <- MCobservedAt
  Realised <- MCRealised
  Corrupt <- MCCorrupt
  Kept <- MCKept
  Dispersed <- MCDispersed
  MaxClock = 1
  MaxFaults = 0
PROPERTIES EventuallyServed
