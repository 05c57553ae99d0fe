SPECIFICATION Spec
CONSTANTS
  Event <- MCSafetyEvents
  Cell <- MCCell
  Ruleset <- MCTwoRulesets
  Nightly = "nightly"
  Web <- MCOneWeb
  cellOf <- MCcellOf
  sourceOf <- MCsourceOf
  observedAt <- MCobservedAt
  Realised <- MCRealised
  Corrupt <- MCCorrupt
  Kept <- MCKept
  Dispersed <- MCDispersed
  MaxClock = 1
  MaxFaults = 1
INVARIANTS TypeOK EvidenceIsSnapshot StoredClaimReproduces
