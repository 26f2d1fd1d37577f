SPECIFICATION Spec
CONSTANTS
  s1 = s1
  Session = {s1}
  Job = {j1}
  Turn = {t1}
  SessionOf <- OneSession
  NoTurn = NoTurn
  NoPlan = NoPlan
  NoSession = NoSession
  LedgerMayFail = FALSE
  Workers = 1
  OneTab = TRUE
  MaxRestarts = 0
INVARIANTS
  AbortedMeansAborted
CHECK_DEADLOCK FALSE
