SPECIFICATION FairSpec
CONSTANTS
  s1 = s1
  Session = {s1}
  Job = {j1, j2}
  Turn = {t1}
  SessionOf <- OneSession
  NoTurn = NoTurn
  NoPlan = NoPlan
  NoSession = NoSession
  LedgerMayFail = TRUE
  Workers = 1
  OneTab = TRUE
  MaxRestarts = 0
INVARIANTS
  TypeOK
  PoolBounded
  CompletedIsRecorded
  FailureIsRecorded
PROPERTIES
  RunClosesOnce
  EveryJobAnswered
CHECK_DEADLOCK FALSE
