\* One network, checkpoint 3 poison; the operator may start over at 0, try to
\* start ahead at 3, and stop after 1.
CONSTANTS
  testnet = testnet
  mainnet = mainnet
  f0 = f0
  f1 = f1
  f2 = f2
  f3 = f3
  g1 = g1
  o0 = o0
  o2 = o2
  h0 = h0
  h1 = h1
  None = None
  Networks = {testnet}
  LastSeq = 3
  Fills <- MCFills
  OrderEvents <- MCOrders
  Garbled = {g1}
  At <- MCAt
  Minutes = {0, 1}
  MinuteOf <- MCMinuteOf
  StartValues = {None, 0, 3}
  StopValues = {None, 1}
  Poison <- MCPoison
  I64Half = 8
  AttemptMax = 2
  MaxFaults = 3
SPECIFICATION FairSpec
INVARIANTS TypeOK NoGap NeverAhead WholeCheckpoints RollupsMatchFacts
PROPERTIES NeverForgets ImplementsAtomicIndex CatchesUp
