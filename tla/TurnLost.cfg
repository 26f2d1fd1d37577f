SPECIFICATION Spec
CONSTANTS
  s1 = s1
  Session = {s1}
  Job = {j1}
  Turn = {t1, t2}
  SessionOf <- OneSession
  NoTurn = NoTurn
  NoPlan = NoPlan
  NoSession = NoSession
  LedgerMayFail = FALSE
  Workers = 1
  OneTab = FALSE
  MaxRestarts = 0
PROPERTIES
  CommitIsAtomic
CHECK_DEADLOCK FALSE
