SPECIFICATION FairSpec
CONSTANTS
  Process <- MCProcess
  LastMigration = 2
  Ref <- MCRef
  baseOf <- MCbaseOf
  aliasOf <- MCaliasOf
  NoRef = NoRef
  Nightly = "nightly"
  Lot <- MCLot
  Sales <- MCSales
  Broken <- MCBroken
  titleKeys <- MCtitleKeys
  pageKeys <- MCpageKeys
  NoCurrency <- MCNoCurrency
  NoRate <- MCNoRate
  InScope <- MCInScope
  FirstCatalogue <- MCFirstCatalogue
  FirstSold <- MCFirstSold
  Revisable <- MCRevisable
  MaxFaults = 1
  MaxQueue = 1
INVARIANTS TypeOK MigratedOnce OneRowPerSale
PROPERTIES NeverGuesses NoLotLeftBehind EventuallySettled
