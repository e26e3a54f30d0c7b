\* An older trade with a greater key.  Deadlock off: the stream ends.
CONSTANTS
  t1 = t1
  t2 = t2
  t3 = t3
  t4 = t4
  u = u
  Trades <- MCTrades
  Wanted <- MCWanted
  Checkpoint <- MCCheckpoint
  Key <- MCKey
  Time <- OlderLater
  LastSeq = 2
  BacklogSize = 2
  PageSize = 2
  ChanSize = 2
  MaxFaults = 1
  Conns = 1
  r1 = r1
  r2 = r2
  Requests <- MCRequests
SPECIFICATION Spec
INVARIANT OncePerTrade
CHECK_DEADLOCK FALSE
