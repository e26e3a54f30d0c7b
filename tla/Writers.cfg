\* Replays of a closed minute, a replay of the open one, two indexers.
\* Deadlock off: programs end.
CONSTANTS
  testnet = testnet
  f0 = f0
  g0 = g0
  f1 = f1
  f2 = f2
  p = p
  q = q
  a = a
  b = b
  live = live
  replay = replay
  again = again
  Networks = {testnet}
  net = testnet
  LastSeq = 2
  Fills <- MCFills
  OrderEvents = {}
  Garbled = {}
  At <- MCAt
  Minutes = {0, 1}
  MinuteOf <- MCMinuteOf
  Free = Free
  Writers = {live, replay, again}
  Programs <- Scenarios
  Indexed = {0}
  PoolOf <- MCPoolOf
  BmsOf <- MCBmsOf
  MaxFaults = 1
SPECIFICATION FairSpec
INVARIANTS ClosedReplaysAreSafe ProgressHonest
PROPERTIES QuietCommitsRepair AllFinish
CHECK_DEADLOCK FALSE
