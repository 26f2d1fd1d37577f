SPECIFICATION Spec
CONSTANTS
  Url <- TreeUrl
  EntryUrl = "root"
  NoUrl = NoUrl
  Cond = {"found"}
  Year = {}
  NoYear = NoYear
  CondYear <- NoYears
  Mentions <- NoMentions
  Score <- EqualScores
  BranchingFactor = 2
  ScanBudget = 12
  Links <- TreeLinks
  Revealed <- NoTargets
  Visual <- TreeVisual
  Landing <- SelfLanding
  Pdf = {"pdf"}
  DotPdf = {"pdf", "leaf"}
  Opaque = {}
  Direct = {"pdf"}
  Readable = {"leaf"}
  SearchTo <- NoTargets
  Query = {}
  Verdicts <- Judged
  Evidence <- TreeEvidence
  MinCount <- OnePiece
  ReturnHints <- BackHints
  Decisions <- Filing
  AllowDownload = TRUE
  MaxSteps = 256
INVARIANTS
  LeafOpensItself
  NothingForgotten
PROPERTIES
  ImplementsExploration
