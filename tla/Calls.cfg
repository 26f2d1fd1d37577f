\* Two jobs on a pool of one thread, two calls each.
CONSTANTS
  Callers = {job, other}
  job = job
  other = other
  Looped = {job, other}
  Threads = 1
  Asks = 2
  Profiles <- MCProfiles
SPECIFICATION Spec
CHECK_DEADLOCK FALSE
INVARIANTS TypeOK NothingUnsupported LedgerAgrees NoOrphanQueued
PROPERTIES RowFrozen OwnAnswer EveryCallEnds
