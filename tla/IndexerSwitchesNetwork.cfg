\* DEEPBOOK_ENV is switched between two starts on the same database.
CONSTANTS
  testnet = testnet
  mainnet = mainnet
  f0 = f0
  f1 = f1
  f2 = f2
  f3 = f3
  g1 = g1
  o0 = o0
  o2 = o2
  h0 = h0
  h1 = h1
  None = None
  Networks = {testnet, mainnet}
  LastSeq = 1
  Fills <- TwoNetFills
  OrderEvents = {}
  Garbled = {}
  At <- TwoNetAt
  Minutes = {0, 1}
  MinuteOf <- MCMinuteOf
  StartValues = {None}
  StopValues = {None, 1}
  Poison = {}
  I64Half = 8
  AttemptMax = 2
  MaxFaults = 3
SPECIFICATION Spec
INVARIANT NoGap
