SPECIFICATION FairSpec
CONSTANTS
  old = old  new = new
  oldPkg = oldPkg  newPkg = newPkg  testPkg = testPkg  foreign = foreign
  p1 = p1  p2 = p2
  Processes <- MCProcs
  Builds <- MCBuilds
  Packages <- MCPackages
  Ledger <- MCLedger
  Half = 16
  Representable <- MCRepresentable
  Now = Now
  FillBinds = 2
  OrderBinds = 2
  MaxBinds = 6
  Migrations = 2
  NoOne = NoOne
  MaxStarts = 4
INVARIANTS KeysIdentifyEvents TimesHold PoolsKnowTheirAssets
PROPERTIES ImplementsEventLog CommandsStart
CHECK_DEADLOCK FALSE
