SPECIFICATION FairSpec
CONSTANTS
  Item <- MCItems
  Family <- MCFamilies
  familyOf <- MCfamilyOf
  Grace = 2
  Partial = TRUE
  MaxListings = 2
  MaxFaults = 1
INVARIANTS TypeOK DelistOnce
PROPERTIES AskGivesGrace EventuallyDelisted
