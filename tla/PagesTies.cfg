\* Two rows share a position.  Deadlock off: reading ends.
CONSTANTS
  e1 = e1
  e2 = e2
  e3 = e3
  e4 = e4
  e5 = e5
  x = x
  r1 = r1
  r2 = r2
  status = status
  Rows <- MCRows
  Wanted <- MCWanted
  Checkpoint <- MCCheckpoint
  Times <- MCWholeTimes
  PerMs = 3
  CpSeq <- MCCpSeq
  NoCursor = NoCursor
  Limits = {1, 2}
  DefaultLimit = 2
  MaxLimit = 3
  Window = 9
  LastSeq = 9
  LastNow = 18
  Api <- MCApi
  Cli <- MCCli
  Scenarios <- WalkOnly
  None = None
  FirstProbe = 2
  TopProbe = 10
SPECIFICATION Spec
INVARIANT Complete
CHECK_DEADLOCK FALSE
