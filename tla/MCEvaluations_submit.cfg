CONSTANTS
  NoAmount = NoAmount
  None = None
  Listing <- MCListing
  Ref <- MCRef
  Sale = {s1, s2}
  Ask = {a1}
  FX <- MCFX
  FirstDate = 1
  Rules <- MCRules
  MinSales = 2
  Request = {q1, q2}
SYMMETRY MCSymmetry
SPECIFICATION Spec
INVARIANTS
  TypeOK
  BundleIsConsistent
PROPERTY
  PermalinkIsForGood
