SPECIFICATION HSpec
CONSTANTS
  Event <- MCMixed
  Cell <- MCCell
  Ruleset <- MCRuleset
  Nightly = "nightly"
  Web <- MCWeb
  cellOf <- MCcellOf
  sourceOf <- MCsourceOf
  observedAt <- MCobservedAt
  Realised <- MCRealised
  Corrupt <- MCCorrupt
  Kept <- MCKept
  Dispersed <- MCDispersed
  MaxClock = 1
  MaxFaults = 1
  Untidy <- MCUntidy
  None = None
INVARIANTS HTypeOK FailOnlyOnNewEvidence
PROPERTIES KeepsPromise
