SPECIFICATION Spec
CONSTANTS
  Url <- WebUrl
  EntryUrl = "root"
  NoUrl = NoUrl
  Cond = {"found"}
  Year = {}
  NoYear = NoYear
  CondYear <- NoYears
  Mentions <- NoMentions
  Score <- EqualScores
  BranchingFactor = 3
  ScanBudget = 12
  Links <- WebLinks
  Revealed <- NoTargets
  Visual <- NoTargets
  Landing <- SelfLanding
  Pdf = {"pdf"}
  DotPdf = {"pdf"}
  Opaque = {}
  Direct = {}
  Readable = {}
  SearchTo <- NoTargets
  Query = {}
  Verdicts <- Judged
  Evidence <- NoEvidence
  MinCount <- OnePiece
  ReturnHints <- BackHints
  Decisions <- Roaming
  AllowDownload = TRUE
  MaxSteps = 256
INVARIANTS
  PendingInSync
  IndexConsistent
  NoExhaustedFocus
  UniquePoints
  NoPointLeft
PROPERTIES
  FailedStaysFailed
